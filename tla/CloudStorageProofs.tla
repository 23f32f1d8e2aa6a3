------------------------- MODULE CloudStorageProofs -------------------------
(***************************************************************************)
(* Whatever authorizations and commits overlap, and whatever of them fails:*)
(* a session is used up by one manifest, what can be restored of a project *)
(* is what its newest manifest holds, every page shows the same            *)
(* (CommitsAreWhole), and commits that overlap overrun the quota by no     *)
(* more than a quota for each of the others (QuotaOverrun).                *)
(***************************************************************************)
EXTENDS CloudPages, WellFoundedInduction, SequenceTheorems, FiniteSetTheorems, TLAPS

-----------------------------------------------------------------------------
(* The sum of a function over a finite set.  The community modules define  *)
(* it by taking elements from the set in an order of their choosing.       *)

\* The order < on the naturals, as the set of its pairs.
Less == {p \in Nat \X Nat : p[1] < p[2]}

\* A set that holds 0, and n + 1 whenever it holds n, holds every natural: a
\* least natural outside it would have a predecessor inside it.
LEMMA Induction ==
  ASSUME NEW T, 0 \in T, \A n \in Nat : n \in T => n + 1 \in T
  PROVE  Nat \subseteq T
<1>1. SUFFICES ASSUME Nat \ T # {} PROVE FALSE
  OBVIOUS
<1>2. IsWellFoundedOn(Less, Nat)
  BY NatLessThanWellFounded, Zenon DEF OpToRel, Less
<1>3. PICK x \in Nat \ T : \A y \in Nat \ T : ~(<<y, x>> \in Less)
  BY <1>1, <1>2, WFMin, Zenon
<1>4. x - 1 \in Nat /\ x - 1 < x
  OBVIOUS
<1>5. x - 1 \in T
  BY <1>3, <1>4 DEF Less
<1> QED
  BY <1>4, <1>5

\* The element of s that is taken first, and one more element taken from each
\* subset of U, when h sums what is left.
First(s) == CHOOSE x \in s : TRUE
Taken(f, U, h) ==
  [s \in SUBSET U |-> IF s = {} THEN 0 ELSE f[First(s)] + h[s \ {First(s)}]]

\* A finite set is left with one element less.
LEMMA TakeOne ==
  ASSUME NEW s, IsFiniteSet(s), s # {}, NEW n \in Nat, Cardinality(s) <= n + 1
  PROVE  /\ First(s) \in s
         /\ \A x \in s : IsFiniteSet(s \ {x}) /\ Cardinality(s \ {x}) <= n
<1>1. Cardinality(s) \in Nat
  BY FS_CardinalityType
<1>2. \A x \in s : IsFiniteSet(s \ {x}) /\ Cardinality(s \ {x}) = Cardinality(s) - 1
  BY FS_RemoveElement
<1> QED
  BY <1>1, <1>2 DEF First

\* The recursion has a solution: as many steps as U has elements reach it.
LEMMA SetSumExists ==
  ASSUME NEW U, IsFiniteSet(U), NEW f, \A x \in U : f[x] \in Int
  PROVE  \E G \in [SUBSET U -> Int] : G = Taken(f, U, G)
<1> DEFINE V == [SUBSET U -> Int]
           Solves(G, n) == \A s \in SUBSET U : Cardinality(s) <= n => G[s] = Taken(f, U, G)[s]
           T == {n \in Nat : \E G \in V : Solves(G, n)}
<1>1. \A s \in SUBSET U : IsFiniteSet(s) /\ Cardinality(s) \in Nat /\ Cardinality(s) <= Cardinality(U)
  BY FS_Subset, FS_CardinalityType
<1>2. 0 \in T
  <2> DEFINE G == [s \in SUBSET U |-> 0]
  <2>1. \A s \in SUBSET U : Cardinality(s) <= 0 => s = {}
    BY <1>1, FS_EmptySet
  <2>2. Taken(f, U, G)[{}] = 0 /\ G[{}] = 0 /\ G \in V
    BY DEF Taken
  <2>3. Solves(G, 0)
    BY <2>1, <2>2
  <2> QED
    BY <2>2, <2>3
<1>3. ASSUME NEW n \in Nat, n \in T PROVE n + 1 \in T
  <2>1. PICK G \in V : Solves(G, n)
    BY <1>3
  <2> DEFINE H == Taken(f, U, G)
  <2>2. H \in V
    BY <2>1 DEF Taken, First
  <2>3. ASSUME NEW s \in SUBSET U, Cardinality(s) <= n + 1 PROVE H[s] = Taken(f, U, H)[s]
    <3>1. CASE s = {}
      BY <3>1 DEF Taken
    <3>2. CASE s # {}
      <4>1. First(s) \in s /\ Cardinality(s \ {First(s)}) <= n
        BY <1>1, <2>3, <3>2, TakeOne
      <4>2. s \ {First(s)} \in SUBSET U /\ G[s \ {First(s)}] = H[s \ {First(s)}]
        BY <2>1, <4>1
      <4>3. \A h : Taken(f, U, h)[s] = f[First(s)] + h[s \ {First(s)}]
        BY <3>2 DEF Taken
      <4> QED
        BY <4>2, <4>3
    <3> QED
      BY <3>1, <3>2
  <2> HIDE DEF H
  <2>4. Solves(H, n + 1)
    BY <2>3
  <2> QED
    BY <2>2, <2>4
<1>4. Nat \subseteq T
  <2> HIDE DEF T
  <2> QED
    BY <1>2, <1>3, Induction
<1>5. PICK G \in V : Solves(G, Cardinality(U))
  BY <1>4, FS_CardinalityType
<1>6. \A s \in SUBSET U : G[s] = Taken(f, U, G)[s]
  BY <1>1, <1>5
<1>7. Taken(f, U, G) = [s \in SUBSET U |-> Taken(f, U, G)[s]] /\ G = [s \in SUBSET U |-> G[s]]
  BY <1>5 DEF Taken
<1> QED
  BY <1>5, <1>6, <1>7

\* A set that holds the empty set, and what it holds with one more element of
\* U, holds every subset of U.
LEMMA SetInduction ==
  ASSUME NEW U, IsFiniteSet(U), NEW T, {} \in T,
         \A s \in SUBSET U, x \in U : s \in T /\ x \notin s => s \cup {x} \in T
  PROVE  SUBSET U \subseteq T
<1> DEFINE N == {n \in Nat : \A s \in SUBSET U : Cardinality(s) <= n => s \in T}
<1>1. \A s \in SUBSET U : IsFiniteSet(s) /\ Cardinality(s) \in Nat
  BY FS_Subset, FS_CardinalityType
<1>2. 0 \in N
  <2>1. \A s \in SUBSET U : Cardinality(s) <= 0 => s = {}
    BY <1>1, FS_EmptySet
  <2> QED
    BY <2>1
<1>3. ASSUME NEW n \in Nat, n \in N PROVE n + 1 \in N
  <2>1. SUFFICES ASSUME NEW s \in SUBSET U, Cardinality(s) <= n + 1, s # {} PROVE s \in T
    OBVIOUS
  <2>2. First(s) \in s /\ Cardinality(s \ {First(s)}) <= n
    BY <1>1, <2>1, TakeOne
  <2>3. s \ {First(s)} \in SUBSET U /\ s \ {First(s)} \in T
    BY <1>3, <2>2
  <2>4. s = (s \ {First(s)}) \cup {First(s)} /\ First(s) \notin s \ {First(s)} /\ First(s) \in U
    BY <2>2
  <2> HIDE DEF N
  <2> QED
    BY <2>3, <2>4
<1>4. Nat \subseteq N
  <2> HIDE DEF N
  <2> QED
    BY <1>2, <1>3, Induction
<1> QED
  BY <1>1, <1>4

\* Two solutions of the recursion, one on a part of the other's sets, agree.
LEMMA SetSumUnique ==
  ASSUME NEW U, IsFiniteSet(U), NEW W \in SUBSET U, NEW f, NEW G, NEW H,
         G = Taken(f, U, G), H = Taken(f, W, H)
  PROVE  \A s \in SUBSET W : G[s] = H[s]
<1> DEFINE N == {n \in Nat : \A s \in SUBSET W : Cardinality(s) <= n => G[s] = H[s]}
<1>1. \A s \in SUBSET W : IsFiniteSet(s) /\ Cardinality(s) \in Nat
  BY FS_Subset, FS_CardinalityType
<1>2. G[{}] = 0 /\ H[{}] = 0
  <2>1. \A h : Taken(f, U, h)[{}] = 0 /\ Taken(f, W, h)[{}] = 0
    BY DEF Taken
  <2> QED
    BY <2>1
<1>3. 0 \in N
  <2>1. \A s \in SUBSET W : Cardinality(s) <= 0 => s = {}
    BY <1>1, FS_EmptySet
  <2> QED
    BY <1>2, <2>1
<1>4. ASSUME NEW n \in Nat, n \in N PROVE n + 1 \in N
  <2>1. SUFFICES ASSUME NEW s \in SUBSET W, Cardinality(s) <= n + 1, s # {} PROVE G[s] = H[s]
    BY <1>2
  <2>2. First(s) \in s /\ Cardinality(s \ {First(s)}) <= n
    BY <1>1, <2>1, TakeOne
  <2>3. G[s \ {First(s)}] = H[s \ {First(s)}]
    BY <1>4, <2>2
  <2>4. \A h : /\ Taken(f, U, h)[s] = f[First(s)] + h[s \ {First(s)}]
               /\ Taken(f, W, h)[s] = f[First(s)] + h[s \ {First(s)}]
    BY <2>1 DEF Taken
  <2>5. G[s] = f[First(s)] + G[s \ {First(s)}] /\ H[s] = f[First(s)] + H[s \ {First(s)}]
    BY <2>4
  <2> QED
    BY <2>3, <2>5
<1>5. Nat \subseteq N
  <2> HIDE DEF N
  <2> QED
    BY <1>3, <1>4, Induction
<1> QED
  BY <1>1, <1>5

\* G sums f over every subset of U: any element can be taken first.
AnyOrder(G, f, U) ==
  /\ G[{}] = 0
  /\ \A s \in SUBSET U : \A x \in s : G[s] = f[x] + G[s \ {x}]
SetSums(G, f, U) ==
  /\ G \in [SUBSET U -> Int]
  /\ AnyOrder(G, f, U)
  /\ \A s \in SUBSET U : SumFunctionOnSet(f, s) = G[s]

\* What is summed does not depend on the order in which it is taken.
LEMMA TakenInAnyOrder ==
  ASSUME NEW U, IsFiniteSet(U), NEW f, \A x \in U : f[x] \in Int,
         NEW G \in [SUBSET U -> Int], G = Taken(f, U, G)
  PROVE  AnyOrder(G, f, U)
<1> DEFINE N == {n \in Nat : \A s \in SUBSET U : Cardinality(s) <= n =>
                    \A x \in s : G[s] = f[x] + G[s \ {x}]}
<1>1. \A s \in SUBSET U : IsFiniteSet(s) /\ Cardinality(s) \in Nat
  BY FS_Subset, FS_CardinalityType
<1>2. G[{}] = 0
  <2>1. \A h : Taken(f, U, h)[{}] = 0
    BY DEF Taken
  <2> QED
    BY <2>1
<1>3. 0 \in N
  <2>1. \A s \in SUBSET U : Cardinality(s) <= 0 => s = {}
    BY <1>1, FS_EmptySet
  <2> QED
    BY <2>1
<1>4. ASSUME NEW n \in Nat, n \in N PROVE n + 1 \in N
  <2>1. SUFFICES ASSUME NEW s \in SUBSET U, Cardinality(s) <= n + 1, NEW y \in s
                 PROVE  G[s] = f[y] + G[s \ {y}]
    OBVIOUS
  <2> DEFINE x == First(s)
  <2>2. /\ x \in s /\ \A z \in s : Cardinality(s \ {z}) <= n
    BY <1>1, <2>1, TakeOne
  <2>3. \A h : Taken(f, U, h)[s] = f[x] + h[s \ {x}]
    BY <2>1 DEF Taken
  <2>4. G[s] = f[x] + G[s \ {x}]
    BY <2>3
  <2> HIDE DEF x
  <2>5. CASE y = x
    BY <2>4, <2>5
  <2>6. CASE y # x
    <3>1. s \ {x} \in SUBSET U /\ s \ {y} \in SUBSET U /\ y \in s \ {x} /\ x \in s \ {y}
      BY <2>1, <2>2, <2>6
    <3>2. G[s \ {x}] = f[y] + G[(s \ {x}) \ {y}] /\ G[s \ {y}] = f[x] + G[(s \ {y}) \ {x}]
      BY <1>4, <2>1, <2>2, <3>1
    <3>3. (s \ {x}) \ {y} = (s \ {y}) \ {x} /\ (s \ {x}) \ {y} \in SUBSET U
      BY <3>1
    <3>4. f[x] \in Int /\ f[y] \in Int /\ G[(s \ {x}) \ {y}] \in Int
      BY <2>1, <2>2, <3>3
    <3>5. \A a, b, k \in Int : a + (b + k) = b + (a + k)
      OBVIOUS
    <3> HIDE DEF N
    <3>6. G[s] = f[x] + (f[y] + G[(s \ {x}) \ {y}])
      BY <2>4, <3>2
    <3>7. f[y] + G[s \ {y}] = f[y] + (f[x] + G[(s \ {x}) \ {y}])
      BY <3>2, <3>3
    <3> QED
      BY <3>4, <3>5, <3>6, <3>7
  <2> QED
    BY <2>5, <2>6
<1>5. Nat \subseteq N
  <2> HIDE DEF N
  <2> QED
    BY <1>3, <1>4, Induction
<1> QED
  <2>1. ASSUME NEW s \in SUBSET U, NEW x \in s PROVE G[s] = f[x] + G[s \ {x}]
    <3>1. Cardinality(s) \in N /\ Cardinality(s) <= Cardinality(s)
      BY <1>1, <1>5
    <3> QED
      BY <2>1, <3>1
  <2> HIDE DEF N
  <2> QED
    BY <1>1, <1>2, <2>1 DEF AnyOrder

\* The sum of the community modules is such a sum.
LEMMA SetSumsExist ==
  ASSUME NEW U, IsFiniteSet(U), NEW f, \A x \in U : f[x] \in Int
  PROVE  \E G : SetSums(G, f, U)
<1>1. PICK G \in [SUBSET U -> Int] : G = Taken(f, U, G)
  BY SetSumExists
<1>2. ASSUME NEW W \in SUBSET U PROVE SumFunctionOnSet(f, W) = G[W]
  <2> DEFINE H == CHOOSE h : h = [s \in SUBSET W |-> IF s = {} THEN 0
                                   ELSE f[CHOOSE x \in s : TRUE] + h[s \ {CHOOSE x \in s : TRUE}]]
  <2>1. SumFunctionOnSet(f, W) = H[W]
    BY DEF SumFunctionOnSet, FoldFunctionOnSet, MapThenFoldSet
  <2>2. IsFiniteSet(W) /\ \A x \in W : f[x] \in Int
    BY FS_Subset
  <2>3. PICK K \in [SUBSET W -> Int] : K = Taken(f, W, K)
    BY <2>2, SetSumExists
  <2>4. K = [s \in SUBSET W |-> IF s = {} THEN 0
               ELSE f[CHOOSE x \in s : TRUE] + K[s \ {CHOOSE x \in s : TRUE}]]
    BY <2>3 DEF Taken, First
  <2>5. H = [s \in SUBSET W |-> IF s = {} THEN 0
               ELSE f[CHOOSE x \in s : TRUE] + H[s \ {CHOOSE x \in s : TRUE}]]
    BY <2>4
  <2>6. H = Taken(f, W, H)
    BY <2>5 DEF Taken, First
  <2> HIDE DEF H
  <2>7. G[W] = H[W]
    BY <1>1, <2>6, SetSumUnique
  <2> QED
    BY <2>1, <2>7
<1>3. AnyOrder(G, f, U)
  BY <1>1, TakenInAnyOrder
<1>4. SetSums(G, f, U)
  BY <1>1, <1>2, <1>3 DEF SetSums
<1> QED
  BY <1>4

\* The sum of the empty set is 0; of integers, an integer; of naturals, a
\* natural that is no less than any of them.
LEMMA SetSumType ==
  ASSUME NEW S, IsFiniteSet(S), NEW f, \A x \in S : f[x] \in Int
  PROVE  /\ SumFunctionOnSet(f, S) \in Int
         /\ S = {} => SumFunctionOnSet(f, S) = 0
         /\ (\A x \in S : f[x] \in Nat) =>
              /\ SumFunctionOnSet(f, S) \in Nat
              /\ \A x \in S : f[x] <= SumFunctionOnSet(f, S)
<1>1. PICK G : SetSums(G, f, S)
  BY SetSumsExist
<1>2. /\ G[{}] = 0
      /\ \A s \in SUBSET S : G[s] \in Int /\ \A x \in s : G[s] = f[x] + G[s \ {x}]
      /\ SumFunctionOnSet(f, S) = G[S]
  BY <1>1 DEF SetSums, AnyOrder
<1>3. ASSUME \A x \in S : f[x] \in Nat
      PROVE  G[S] \in Nat /\ \A x \in S : f[x] <= G[S]
  <2> DEFINE T == {s \in SUBSET S : G[s] \in Nat}
  <2>1. {} \in T
    BY <1>2
  <2>2. ASSUME NEW s \in SUBSET S, NEW x \in S, s \in T, x \notin s PROVE s \cup {x} \in T
    <3>1. s \cup {x} \in SUBSET S /\ (s \cup {x}) \ {x} = s /\ x \in s \cup {x}
      BY <2>2
    <3>2. G[s \cup {x}] = f[x] + G[s]
      BY <1>2, <3>1
    <3>3. f[x] \in Nat /\ G[s] \in Nat
      BY <1>3, <2>2
    <3> QED
      BY <3>1, <3>2, <3>3
  <2>3. SUBSET S \subseteq T
    <3> HIDE DEF T
    <3> QED
      BY <2>1, <2>2, SetInduction
  <2>4. \A s \in SUBSET S : G[s] \in Nat
    BY <2>3
  <2>5. ASSUME NEW x \in S PROVE f[x] <= G[S]
    <3>1. G[S] = f[x] + G[S \ {x}]
      BY <1>2
    <3>2. f[x] \in Nat /\ G[S \ {x}] \in Nat
      BY <1>3, <2>4
    <3> QED
      BY <3>1, <3>2
  <2> QED
    BY <2>4, <2>5
<1> QED
  BY <1>2, <1>3

\* One more element adds its value.
LEMMA SetSumAdd ==
  ASSUME NEW S, IsFiniteSet(S), NEW x, x \notin S, NEW f, \A y \in S \cup {x} : f[y] \in Int
  PROVE  SumFunctionOnSet(f, S \cup {x}) = SumFunctionOnSet(f, S) + f[x]
<1> DEFINE U == S \cup {x}
<1>1. IsFiniteSet(U)
  BY FS_AddElement
<1>2. PICK G : SetSums(G, f, U)
  BY <1>1, SetSumsExist
<1>3. S \in SUBSET U /\ U \in SUBSET U /\ x \in U /\ U \ {x} = S
  OBVIOUS
<1> HIDE DEF U
<1>4. /\ G[U] = f[x] + G[U \ {x}] /\ G[S] \in Int
      /\ SumFunctionOnSet(f, U) = G[U] /\ SumFunctionOnSet(f, S) = G[S]
  BY <1>2, <1>3 DEF SetSums, AnyOrder
<1>5. f[x] \in Int
  OBVIOUS
<1>6. G[U] = f[x] + G[S]
  BY <1>3, <1>4
<1>7. \A a, b \in Int : a + b = b + a
  OBVIOUS
<1>8. SumFunctionOnSet(f, U) = G[S] + f[x]
  BY <1>4, <1>5, <1>6, <1>7
<1> QED
  BY <1>4, <1>8 DEF U

\* No more is summed than what is no more for each element, and as much when it
\* is the same.
LEMMA SetSumMonotone ==
  ASSUME NEW S, IsFiniteSet(S), NEW f, NEW h,
         \A x \in S : f[x] \in Int /\ h[x] \in Int /\ f[x] <= h[x]
  PROVE  SumFunctionOnSet(f, S) <= SumFunctionOnSet(h, S)
<1> DEFINE T == {s \in SUBSET S : SumFunctionOnSet(f, s) <= SumFunctionOnSet(h, s)}
<1>1. \A s \in SUBSET S : IsFiniteSet(s)
  BY FS_Subset
<1>2. \A s \in SUBSET S : SumFunctionOnSet(f, s) \in Int /\ SumFunctionOnSet(h, s) \in Int
  BY <1>1, SetSumType
<1>3. {} \in T
  <2>1. IsFiniteSet({}) /\ \A x \in {} : f[x] \in Int /\ h[x] \in Int
    BY FS_EmptySet
  <2>2. SumFunctionOnSet(f, {}) = 0 /\ SumFunctionOnSet(h, {}) = 0
    BY <2>1, SetSumType
  <2> QED
    BY <2>2
<1>4. ASSUME NEW s \in SUBSET S, NEW x \in S, s \in T, x \notin s PROVE s \cup {x} \in T
  <2>1. \A y \in s \cup {x} : f[y] \in Int /\ h[y] \in Int
    OBVIOUS
  <2>2. /\ SumFunctionOnSet(f, s \cup {x}) = SumFunctionOnSet(f, s) + f[x]
        /\ SumFunctionOnSet(h, s \cup {x}) = SumFunctionOnSet(h, s) + h[x]
    BY <1>1, <1>4, <2>1, SetSumAdd
  <2> QED
    BY <1>2, <1>4, <2>2
<1>5. SUBSET S \subseteq T
  <2> HIDE DEF T
  <2> QED
    BY <1>3, <1>4, SetInduction
<1> QED
  BY <1>5

LEMMA SetSumCong ==
  ASSUME NEW S, IsFiniteSet(S), NEW f, NEW h, \A x \in S : f[x] \in Int /\ h[x] = f[x]
  PROVE  SumFunctionOnSet(h, S) = SumFunctionOnSet(f, S)
<1>1. \A x \in S : f[x] \in Int /\ h[x] \in Int /\ f[x] <= h[x] /\ h[x] <= f[x]
  OBVIOUS
<1>2. SumFunctionOnSet(f, S) <= SumFunctionOnSet(h, S) /\ SumFunctionOnSet(h, S) <= SumFunctionOnSet(f, S)
  BY <1>1, SetSumMonotone
<1>3. SumFunctionOnSet(f, S) \in Int /\ SumFunctionOnSet(h, S) \in Int
  BY <1>1, SetSumType
<1> QED
  BY <1>2, <1>3

\* The sum of two sets without a common element is the sum of their sums.
LEMMA SetSumSplit ==
  ASSUME NEW A, NEW B, IsFiniteSet(A), IsFiniteSet(B), A \cap B = {},
         NEW f, \A x \in A \cup B : f[x] \in Int
  PROVE  SumFunctionOnSet(f, A \cup B) = SumFunctionOnSet(f, A) + SumFunctionOnSet(f, B)
<1> DEFINE T == {s \in SUBSET B : SumFunctionOnSet(f, A \cup s) = SumFunctionOnSet(f, A) + SumFunctionOnSet(f, s)}
<1>1. \A s \in SUBSET B : IsFiniteSet(s) /\ IsFiniteSet(A \cup s)
  BY FS_Subset, FS_Union
<1>2. \A s \in SUBSET B : SumFunctionOnSet(f, s) \in Int /\ SumFunctionOnSet(f, A) \in Int
  BY <1>1, SetSumType
<1>3. {} \in T
  <2>1. IsFiniteSet({}) /\ \A x \in {} : f[x] \in Int
    BY FS_EmptySet
  <2>2. SumFunctionOnSet(f, {}) = 0 /\ A \cup {} = A
    BY <2>1, SetSumType
  <2> QED
    BY <1>2, <2>2
<1>4. ASSUME NEW s \in SUBSET B, NEW x \in B, s \in T, x \notin s PROVE s \cup {x} \in T
  <2>1. A \cup (s \cup {x}) = (A \cup s) \cup {x} /\ x \notin A \cup s
    BY <1>4
  <2>2. \A y \in (A \cup s) \cup {x} : f[y] \in Int
    OBVIOUS
  <2>3. SumFunctionOnSet(f, (A \cup s) \cup {x}) = SumFunctionOnSet(f, A \cup s) + f[x]
    BY <1>1, <2>1, <2>2, SetSumAdd
  <2>4. SumFunctionOnSet(f, s \cup {x}) = SumFunctionOnSet(f, s) + f[x]
    BY <1>1, <1>4, <2>2, SetSumAdd
  <2>5. f[x] \in Int /\ s \cup {x} \in SUBSET B
    OBVIOUS
  <2>6. SumFunctionOnSet(f, A \cup s) = SumFunctionOnSet(f, A) + SumFunctionOnSet(f, s)
    BY <1>4
  <2>7. SumFunctionOnSet(f, A \cup (s \cup {x})) = (SumFunctionOnSet(f, A) + SumFunctionOnSet(f, s)) + f[x]
    BY <2>1, <2>3, <2>6
  <2>8. \A a, b, c \in Int : (a + b) + c = a + (b + c)
    OBVIOUS
  <2>9. SumFunctionOnSet(f, A \cup (s \cup {x})) = SumFunctionOnSet(f, A) + SumFunctionOnSet(f, s \cup {x})
    BY <1>2, <2>4, <2>5, <2>7, <2>8
  <2> QED
    BY <2>5, <2>9
<1>5. SUBSET B \subseteq T
  <2> HIDE DEF T
  <2>1. \A s \in SUBSET B, x \in B : s \in T /\ x \notin s => s \cup {x} \in T
    BY <1>4
  <2>2. IsFiniteSet(B)
    OBVIOUS
  <2>3. {} \in T
    BY <1>3
  <2> QED
    BY ONLY <2>1, <2>2, <2>3, SetInduction
<1> QED
  BY <1>5

\* An element whose value changes changes the sum by as much.
LEMMA SetSumUpdate ==
  ASSUME NEW S, IsFiniteSet(S), NEW x \in S, NEW f, NEW h,
         \A y \in S : f[y] \in Int /\ h[y] \in Int /\ (y # x => h[y] = f[y])
  PROVE  SumFunctionOnSet(h, S) = SumFunctionOnSet(f, S) + (h[x] - f[x])
<1> DEFINE R == S \ {x}
<1>1. IsFiniteSet(R) /\ x \notin R /\ R \cup {x} = S
  BY FS_RemoveElement
<1>2. \A y \in R : f[y] \in Int /\ h[y] = f[y]
  OBVIOUS
<1>3. \A y \in R \cup {x} : f[y] \in Int /\ h[y] \in Int
  OBVIOUS
<1> HIDE DEF R
<1>4. SumFunctionOnSet(h, R) = SumFunctionOnSet(f, R) /\ SumFunctionOnSet(f, R) \in Int
  BY <1>1, <1>2, SetSumCong, SetSumType
<1>5. /\ SumFunctionOnSet(f, R \cup {x}) = SumFunctionOnSet(f, R) + f[x]
      /\ SumFunctionOnSet(h, R \cup {x}) = SumFunctionOnSet(h, R) + h[x]
  BY <1>1, <1>3, SetSumAdd
<1>6. f[x] \in Int /\ h[x] \in Int
  OBVIOUS
<1>7. /\ SumFunctionOnSet(f, S) = SumFunctionOnSet(f, R) + f[x]
      /\ SumFunctionOnSet(h, S) = SumFunctionOnSet(f, R) + h[x]
  BY <1>1, <1>4, <1>5
<1>8. \A a, b, c \in Int : a + c = (a + b) + (c - b)
  OBVIOUS
<1> QED
  BY <1>4, <1>6, <1>7, <1>8

\* What is no more than b for each element is no more than b for each together.
LEMMA SetSumBound ==
  ASSUME NEW S, IsFiniteSet(S), NEW f, NEW b \in Nat, \A x \in S : f[x] \in Int /\ f[x] <= b
  PROVE  SumFunctionOnSet(f, S) <= Cardinality(S) * b
<1> DEFINE T == {s \in SUBSET S : SumFunctionOnSet(f, s) <= Cardinality(s) * b}
<1>1. \A s \in SUBSET S : IsFiniteSet(s) /\ Cardinality(s) \in Nat
  BY FS_Subset, FS_CardinalityType
<1>2. \A s \in SUBSET S : SumFunctionOnSet(f, s) \in Int
  BY <1>1, SetSumType
<1>3. {} \in T
  <2>1. IsFiniteSet({}) /\ (\A x \in {} : f[x] \in Int) /\ Cardinality({}) = 0
    BY FS_EmptySet
  <2>2. SumFunctionOnSet(f, {}) = 0 /\ 0 * b = 0
    BY <2>1, SetSumType
  <2> QED
    BY <2>1, <2>2
<1>4. ASSUME NEW s \in SUBSET S, NEW x \in S, s \in T, x \notin s PROVE s \cup {x} \in T
  <2>1. \A y \in s \cup {x} : f[y] \in Int
    OBVIOUS
  <2>2. SumFunctionOnSet(f, s \cup {x}) = SumFunctionOnSet(f, s) + f[x]
    BY <1>1, <1>4, <2>1, SetSumAdd
  <2>3. Cardinality(s \cup {x}) = Cardinality(s) + 1
    BY <1>1, <1>4, FS_AddElement
  <2>4. \A n \in Nat : (n + 1) * b = n * b + b /\ n * b \in Nat
    OBVIOUS
  <2>5. f[x] \in Int /\ f[x] <= b /\ SumFunctionOnSet(f, s) <= Cardinality(s) * b
    BY <1>4
  <2>6. SumFunctionOnSet(f, s \cup {x}) <= Cardinality(s \cup {x}) * b
    BY <1>1, <1>2, <2>2, <2>3, <2>4, <2>5
  <2> QED
    BY <2>6
<1>5. SUBSET S \subseteq T
  <2> HIDE DEF T
  <2> QED
    BY <1>3, <1>4, SetInduction
<1> QED
  BY <1>5

Image(key, R) == {key[r] : r \in R}

\* Elements that share a key are counted once: the keys of R are no more than R,
\* and sum to no more.
LEMMA SetSumImage ==
  ASSUME NEW R, IsFiniteSet(R), NEW key, NEW w, NEW f,
         \A r \in R : w[r] \in Nat /\ f[key[r]] = w[r]
  PROVE  /\ IsFiniteSet(Image(key, R))
         /\ Cardinality(Image(key, R)) <= Cardinality(R)
         /\ SumFunctionOnSet(f, Image(key, R)) <= SumFunctionOnSet(w, R)
<1> DEFINE I(s) == Image(key, s)
           T == {s \in SUBSET R : /\ IsFiniteSet(I(s))
                                  /\ Cardinality(I(s)) <= Cardinality(s)
                                  /\ SumFunctionOnSet(f, I(s)) <= SumFunctionOnSet(w, s)}
<1>1. \A s \in SUBSET R : IsFiniteSet(s) /\ Cardinality(s) \in Nat /\ SumFunctionOnSet(w, s) \in Nat
  <2>1. SUFFICES ASSUME NEW s \in SUBSET R
                 PROVE  IsFiniteSet(s) /\ Cardinality(s) \in Nat /\ SumFunctionOnSet(w, s) \in Nat
    OBVIOUS
  <2>2. IsFiniteSet(s) /\ Cardinality(s) \in Nat /\ \A r \in s : w[r] \in Nat /\ w[r] \in Int
    BY FS_Subset, FS_CardinalityType
  <2> QED
    BY <2>2, SetSumType
<1>2. {} \in T
  <2>1. I({}) = {}
    BY DEF Image
  <2>2. IsFiniteSet({}) /\ Cardinality({}) = 0 /\ \A x \in {} : f[x] \in Int /\ w[x] \in Int
    BY FS_EmptySet
  <2>3. SumFunctionOnSet(f, {}) = 0 /\ SumFunctionOnSet(w, {}) = 0
    BY <2>2, SetSumType
  <2> QED
    BY <2>1, <2>2, <2>3
<1>3. ASSUME NEW s \in SUBSET R, NEW x \in R, s \in T, x \notin s PROVE s \cup {x} \in T
  <2>1. I(s \cup {x}) = I(s) \cup {key[x]} /\ s \cup {x} \in SUBSET R
    BY DEF Image
  <2>2. \A k \in I(s) \cup {key[x]} : f[k] \in Int
    BY DEF Image
  <2>3. /\ IsFiniteSet(I(s)) /\ Cardinality(I(s)) <= Cardinality(s)
        /\ SumFunctionOnSet(f, I(s)) <= SumFunctionOnSet(w, s)
        /\ IsFiniteSet(s) /\ Cardinality(s) \in Nat /\ SumFunctionOnSet(w, s) \in Nat
    BY <1>1, <1>3
  <2> HIDE DEF I
  <2>4. /\ Cardinality(I(s)) \in Nat /\ SumFunctionOnSet(f, I(s)) \in Int
        /\ w[x] \in Nat /\ f[key[x]] = w[x]
    BY <2>2, <2>3, FS_CardinalityType, SetSumType
  <2>5. Cardinality(s \cup {x}) = Cardinality(s) + 1
    BY <1>3, <2>3, FS_AddElement
  <2>6. SumFunctionOnSet(w, s \cup {x}) = SumFunctionOnSet(w, s) + w[x]
    <3>1. \A r \in s \cup {x} : w[r] \in Int
      OBVIOUS
    <3> QED
      BY <1>3, <2>3, <3>1, SetSumAdd
  <2>7. /\ IsFiniteSet(I(s \cup {x}))
        /\ Cardinality(I(s \cup {x})) <= Cardinality(I(s)) + 1
        /\ SumFunctionOnSet(f, I(s \cup {x})) <= SumFunctionOnSet(f, I(s)) + w[x]
    <3>1. CASE key[x] \in I(s)
      <4>1. I(s \cup {x}) = I(s)
        BY <2>1, <3>1
      <4> QED
        BY <2>3, <2>4, <4>1
    <3>2. CASE key[x] \notin I(s)
      <4>1. IsFiniteSet(I(s) \cup {key[x]}) /\ Cardinality(I(s) \cup {key[x]}) = Cardinality(I(s)) + 1
        BY <2>3, <3>2, FS_AddElement
      <4>2. SumFunctionOnSet(f, I(s) \cup {key[x]}) = SumFunctionOnSet(f, I(s)) + f[key[x]]
        <5>1. IsFiniteSet(I(s)) /\ \A k \in I(s) \cup {key[x]} : f[k] \in Int
          BY <2>2, <2>3
        <5> QED
          BY ONLY <3>2, <5>1, SetSumAdd
      <4> QED
        BY <2>1, <2>4, <4>1, <4>2
    <3> QED
      BY <3>1, <3>2
  <2>8. /\ Cardinality(I(s \cup {x})) \in Nat
        /\ SumFunctionOnSet(f, I(s \cup {x})) \in Int
    BY <2>1, <2>2, <2>7, FS_CardinalityType, SetSumType
  <2>9. /\ Cardinality(I(s \cup {x})) <= Cardinality(s \cup {x})
        /\ SumFunctionOnSet(f, I(s \cup {x})) <= SumFunctionOnSet(w, s \cup {x})
    BY <2>3, <2>4, <2>5, <2>6, <2>7, <2>8
  <2> QED
    BY <2>1, <2>7, <2>9
<1>4. SUBSET R \subseteq T
  <2> HIDE DEF T
  <2> QED
    BY <1>2, <1>3, SetInduction
<1> QED
  BY <1>4

Group(own, U, p) == {o \in U : own[o] = p}
GroupOf(own, U, Q) == {o \in U : own[o] \in Q}

\* The sums of the groups add up to the sum of what is in some group.
LEMMA SetSumGrouped ==
  ASSUME NEW U, IsFiniteSet(U), NEW f, \A o \in U : f[o] \in Int, NEW own,
         NEW Q, IsFiniteSet(Q), NEW g,
         \A p \in Q : g[p] = SumFunctionOnSet(f, Group(own, U, p))
  PROVE  SumFunctionOnSet(g, Q) = SumFunctionOnSet(f, GroupOf(own, U, Q))
<1> DEFINE T == {s \in SUBSET Q : SumFunctionOnSet(g, s) = SumFunctionOnSet(f, GroupOf(own, U, s))}
<1>1. \A s \in SUBSET Q : IsFiniteSet(s)
  BY FS_Subset
<1>2. \A W \in SUBSET U : IsFiniteSet(W) /\ SumFunctionOnSet(f, W) \in Int
  <2>1. SUFFICES ASSUME NEW W \in SUBSET U PROVE IsFiniteSet(W) /\ SumFunctionOnSet(f, W) \in Int
    OBVIOUS
  <2>2. IsFiniteSet(W) /\ \A x \in W : f[x] \in Int
    BY FS_Subset
  <2> QED
    BY <2>2, SetSumType
<1>3. \A p \in Q : g[p] \in Int
  <2>1. \A p \in Q : Group(own, U, p) \in SUBSET U
    BY DEF Group
  <2> QED
    BY <1>2, <2>1
<1>4. {} \in T
  <2>1. GroupOf(own, U, {}) = {}
    BY DEF GroupOf
  <2>2. IsFiniteSet({}) /\ \A x \in {} : f[x] \in Int /\ g[x] \in Int
    BY FS_EmptySet
  <2>3. SumFunctionOnSet(f, {}) = 0 /\ SumFunctionOnSet(g, {}) = 0
    BY <2>2, SetSumType
  <2> QED
    BY <2>1, <2>3
<1>5. ASSUME NEW s \in SUBSET Q, NEW x \in Q, s \in T, x \notin s PROVE s \cup {x} \in T
  <2> DEFINE A == GroupOf(own, U, s)
             B == Group(own, U, x)
  <2>1. GroupOf(own, U, s \cup {x}) = A \cup B
    BY DEF GroupOf, Group
  <2>2. A \cap B = {} /\ A \in SUBSET U /\ B \in SUBSET U
    BY <1>5 DEF GroupOf, Group
  <2>3. SumFunctionOnSet(g, s) = SumFunctionOnSet(f, A) /\ g[x] = SumFunctionOnSet(f, B)
    BY <1>5
  <2> HIDE DEF A, B
  <2>4. /\ IsFiniteSet(A) /\ IsFiniteSet(B) /\ \A o \in A \cup B : f[o] \in Int
    BY <1>2, <2>2
  <2>5. SumFunctionOnSet(f, A \cup B) = SumFunctionOnSet(f, A) + SumFunctionOnSet(f, B)
    BY <2>2, <2>4, SetSumSplit
  <2>6. SumFunctionOnSet(g, s \cup {x}) = SumFunctionOnSet(g, s) + g[x]
    <3>1. IsFiniteSet(s) /\ \A p \in s \cup {x} : g[p] \in Int
      BY <1>1, <1>3
    <3> QED
      BY <1>5, <3>1, SetSumAdd
  <2>7. SumFunctionOnSet(g, s \cup {x}) = SumFunctionOnSet(f, GroupOf(own, U, s \cup {x}))
    BY <2>1, <2>3, <2>5, <2>6
  <2> QED
    BY <2>7
<1>6. SUBSET Q \subseteq T
  <2> HIDE DEF T
  <2> QED
    BY <1>4, <1>5, SetInduction
<1> QED
  BY <1>6

-----------------------------------------------------------------------------
(* Uploads and commits.                                                    *)
Quotas == {QuotaOf[l] : l \in Plans}

ProjectRow == [status : {"active"}, last : Nat]
ObjectRow == [status : {"active", "replaced"}, project : Projects, size : {SizeOf[r] : r \in Resources}]
SessionRow ==
  [project : Projects, content : Contents, expires : 0..(MaxTime + SessionTTL),
   status : {"authorized", "committed"}, manifest : Nat]
ManifestRow == [session : Nat, project : Projects, content : Contents, token : Tokens]
SyncRequest ==
  [pc : {"save", "open"}, project : Projects, content : Contents, quota : Quotas,
   used : Nat, copy : {NoRow} \cup ProjectRow]
CommitRequest ==
  [pc : {"commit"}, session : Nat, token : Tokens, content : Contents, quota : Quotas, used : Nat]

\* The variables, and the requests under way, as sets that no step changes.
Shapes ==
  /\ now \in 0..MaxTime /\ plan \in Plans
  /\ projects \in [Projects -> {NoRow} \cup ProjectRow]
  /\ sessions \in Seq(SessionRow)
  /\ manifests \in Seq(ManifestRow)
  /\ objects \in [ObjectKeys -> {NoRow} \cup ObjectRow]
  /\ syncing \in [Syncs -> {Idle} \cup SyncRequest]
  /\ committing \in [Commits -> {Idle} \cup CommitRequest]

\* What the rows name is there.
NamedRows ==
  /\ \A i \in DOMAIN sessions : sessions[i].manifest \in 0..Len(manifests)
  /\ \A m \in DOMAIN manifests : manifests[m].session \in DOMAIN sessions
  /\ \A c \in Commits : committing[c] # Idle => committing[c].session \in DOMAIN sessions

\* A project's row, or a copy of it, that names a manifest names one of the project.
Names(ms, row, p) ==
  row # NoRow /\ row.last # 0 => row.last \in DOMAIN ms /\ ms[row.last].project = p

Copied(ps, ms, request) ==
  /\ Names(ms, request.copy, request.project)
  /\ request.pc = "open" \/ request.copy # NoRow => ps[request.project] # NoRow

\* A row that is there stays there: a copy, a session and a manifest have one.
ProjectsKept ==
  /\ \A p \in Projects : Names(manifests, projects[p], p)
  /\ \A i \in DOMAIN sessions : projects[sessions[i].project] # NoRow
  /\ \A m \in DOMAIN manifests : projects[manifests[m].project] # NoRow
  /\ \A q \in Syncs : syncing[q] # Idle => Copied(projects, manifests, syncing[q])

AllActive == {o \in ObjectKeys : Active(o)}

\* A path of a row is one of its project, and the active ones are those of the
\* project's newest manifest, whether the project has a row or not.
ObjectsKept ==
  /\ \A o \in ObjectKeys : objects[o] # NoRow =>
       \E r \in Resources : o = KeyOf[objects[o].project][r] /\ objects[o].size = SizeOf[r]
  /\ \A p \in Projects : ActiveOf(p) = UNION {Paths(p, manifests[m].content) : m \in Newest(p)}
  /\ IsFiniteSet(AllActive)
  /\ IsFiniteSet(AdminProjects)

TopQuota == Max(Quotas)

\* By how much a commit under way can still raise what is used.
Slack(request) == IF request = Idle THEN 0 ELSE Larger(request.quota - request.used, 0)
Slacks == SumFunctionOnSet([c \in Commits |-> Slack(committing[c])], Commits)

\* What is used, and what the commits under way can add to it, is not over the
\* bound.  A commit that has read an old count of the used bytes has that much more
\* room, which was counted when it read them.
RoomLeft == Used + Slacks <= Cardinality(Commits) * TopQuota

\* The inductive invariant.
IInv == Shapes /\ NamedRows /\ ProjectsKept /\ ObjectsKept /\ SessionUsedOnce /\ RoomLeft

-----------------------------------------------------------------------------
(* The quotas.                                                             *)

\* A finite set of naturals that is not empty has a maximum.
LEMMA MaxOfFinite ==
  ASSUME NEW S, IsFiniteSet(S), S # {}, S \subseteq Nat
  PROVE  Max(S) \in S /\ \A x \in S : x <= Max(S)
<1> DEFINE T == {s \in SUBSET S : s # {} => \E x \in s : \A y \in s : x >= y}
<1>1. {} \in T
  OBVIOUS
<1>2. ASSUME NEW s \in SUBSET S, NEW x \in S, s \in T, x \notin s PROVE s \cup {x} \in T
  <2>1. CASE s = {}
    BY <2>1
  <2>2. CASE s # {}
    <3>1. PICK z \in s : \A y \in s : z >= y
      BY <1>2, <2>2
    <3>2. x \in Nat /\ z \in Nat /\ s \subseteq Nat
      OBVIOUS
    <3>3. CASE x >= z
      <4>1. \A y \in s \cup {x} : x >= y
        BY <3>1, <3>2, <3>3
      <4> QED
        BY <4>1
    <3>4. CASE z >= x
      <4>1. z \in s \cup {x} /\ \A y \in s \cup {x} : z >= y
        BY <3>1, <3>4
      <4> QED
        BY <4>1
    <3> QED
      BY <3>2, <3>3, <3>4
  <2> QED
    BY <2>1, <2>2
<1>3. SUBSET S \subseteq T
  <2> HIDE DEF T
  <2> QED
    BY <1>1, <1>2, SetInduction
<1>4. \E x \in S : \A y \in S : x >= y
  BY <1>3
<1>5. Max(S) \in S /\ \A y \in S : Max(S) >= y
  BY <1>4 DEF Max
<1> QED
  BY <1>5

\* A plan's quota is a natural, and no more than the largest.
LEMMA QuotaTypes ==
  ASSUME plan \in Plans
  PROVE  /\ Quota \in Quotas /\ Quotas \subseteq Nat
         /\ TopQuota \in Nat /\ \A n \in Quotas : n <= TopQuota
<1>1. Quotas = Image(QuotaOf, Plans)
  BY DEF Quotas, Image
<1>2. QuotaOf \in [Plans -> Nat] /\ IsFiniteSet(Plans)
  BY CloudAssumption
<1>3. IsFiniteSet(Quotas)
  <2> DEFINE id == [n \in Nat |-> n]
  <2>1. \A l \in Plans : QuotaOf[l] \in Nat /\ id[QuotaOf[l]] = QuotaOf[l]
    BY <1>2
  <2> HIDE DEF id
  <2>2. IsFiniteSet(Image(QuotaOf, Plans))
    BY <1>2, <2>1, SetSumImage
  <2> QED
    BY <1>1, <2>2
<1>4. Quota \in Quotas /\ Quotas \subseteq Nat
  BY <1>2 DEF Quota, Quotas
<1>5. TopQuota \in Quotas /\ \A n \in Quotas : n <= TopQuota
  BY <1>3, <1>4, MaxOfFinite DEF TopQuota
<1> QED
  BY <1>4, <1>5

-----------------------------------------------------------------------------
(* Contents and rows.                                                      *)

\* The resources of a content have sizes, and its paths are fewer.
LEMMA ContentTypes ==
  ASSUME NEW p \in Projects, NEW R \in Contents
  PROVE  /\ R # {} /\ R \subseteq Resources /\ IsFiniteSet(R)
         /\ \A r \in R : SizeOf[r] \in Nat /\ KeyOf[p][r] \in ObjectKeys
         /\ SizeOfContent(R) \in Nat
         /\ IsFiniteSet(Paths(p, R)) /\ Cardinality(Paths(p, R)) <= Cardinality(R)
<1>1. R # {} /\ R \subseteq Resources /\ IsFiniteSet(R)
  BY CloudAssumption
<1>2. \A r \in R : SizeOf[r] \in Nat /\ SizeOf[r] \in Int /\ KeyOf[p][r] \in ObjectKeys
  BY <1>1, CloudAssumption
<1>3. SizeOfContent(R) \in Nat
  BY <1>1, <1>2, SetSumType DEF SizeOfContent
<1>4. Paths(p, R) = Image(KeyOf[p], R)
  BY DEF Paths, Image
<1>5. IsFiniteSet(Image(KeyOf[p], R)) /\ Cardinality(Image(KeyOf[p], R)) <= Cardinality(R)
  <2> DEFINE none == [o \in ObjectKeys |-> 0]
             zero == [r \in R |-> 0]
  <2>1. \A r \in R : zero[r] \in Nat /\ none[KeyOf[p][r]] = zero[r]
    BY <1>2
  <2> HIDE DEF none, zero
  <2> QED
    BY <1>1, <2>1, SetSumImage
<1> QED
  BY <1>1, <1>2, <1>3, <1>4, <1>5

\* A row of an object is there, or it says so.
LEMMA ObjectTypes ==
  ASSUME Shapes, NEW o \in ObjectKeys
  PROVE  /\ objects[o] = NoRow \/ objects[o] \in ObjectRow
         /\ objects[o] = NoRow <=> objects[o].status = "none"
         /\ Active(o) => objects[o] # NoRow
         /\ objects[o] # NoRow => /\ objects[o].project \in Projects /\ objects[o].size \in Nat
                                  /\ objects[o].status \in {"active", "replaced"}
<1>1. objects[o] = NoRow \/ objects[o] \in ObjectRow
  BY DEF Shapes, ObjectRow
<1>2. \A r \in Resources : SizeOf[r] \in Nat
  BY CloudAssumption
<1> QED
  BY <1>1, <1>2 DEF ObjectRow, NoRow, Active

\* The active objects of projects are active, and each has a size.
LEMMA ActiveTypes ==
  ASSUME Shapes, ObjectsKept
  PROVE  /\ \A p \in Projects : ActiveOf(p) \in SUBSET AllActive
         /\ \A O \in SUBSET AllActive :
              /\ IsFiniteSet(O)
              /\ \A o \in O : [x \in O |-> objects[x].size][o] = objects[o].size /\ objects[o].size \in Nat
              /\ Bytes(O) \in Nat
         /\ Used = Bytes(AllActive)
<1>1. \A p \in Projects : ActiveOf(p) \in SUBSET AllActive
  BY DEF ActiveOf, AllActive
<1>2. ASSUME NEW O \in SUBSET AllActive
      PROVE  /\ IsFiniteSet(O)
             /\ \A o \in O : [x \in O |-> objects[x].size][o] = objects[o].size /\ objects[o].size \in Nat
             /\ Bytes(O) \in Nat
  <2> DEFINE f == [x \in O |-> objects[x].size]
  <2>1. IsFiniteSet(O)
    BY FS_Subset DEF ObjectsKept
  <2>2. \A o \in O : f[o] = objects[o].size /\ objects[o].size \in Nat
    BY ObjectTypes DEF AllActive
  <2> HIDE DEF f
  <2>3. SumFunctionOnSet(f, O) \in Nat
    BY <2>1, <2>2, SetSumType
  <2> QED
    BY <2>1, <2>2, <2>3 DEF Bytes, f
<1>3. Used = Bytes(AllActive)
  BY DEF Used, AllActive
<1> QED
  BY <1>1, <1>2, <1>3

-----------------------------------------------------------------------------
(* What a commit does to the objects.                                      *)

\* A row belongs to the project whose path it has.
LEMMA PathsOfProject ==
  ASSUME Shapes, ObjectsKept, NEW p \in Projects, NEW R \in Contents, NEW o \in Paths(p, R)
  PROVE  o \in ObjectKeys /\ (objects[o] # NoRow => objects[o].project = p)
<1>1. PICK r \in R : o = KeyOf[p][r]
  BY DEF Paths
<1>2. r \in Resources /\ o \in ObjectKeys
  BY <1>1, ContentTypes
<1>3. ASSUME objects[o] # NoRow PROVE objects[o].project = p
  <2>1. PICK s \in Resources : o = KeyOf[objects[o].project][s]
    BY <1>2, <1>3 DEF ObjectsKept
  <2>2. objects[o].project \in Projects
    BY <1>2, <1>3, ObjectTypes
  <2> QED
    BY <1>1, <1>2, <2>1, <2>2, PathsAssumption
<1> QED
  BY <1>2, <1>3

\* A path of the manifest is active, with the size of any resource that has it;
\* another active object of the project is replaced; nothing else changes.
LEMMA StoredRows ==
  ASSUME Shapes, ObjectsKept, NEW p \in Projects, NEW R \in Contents, objects' = Stored(p, R)
  PROVE  /\ DOMAIN objects' = ObjectKeys
         /\ \A o \in Paths(p, R) :
              /\ objects'[o].status = "active" /\ objects'[o].project = p
              /\ objects'[o] \in ObjectRow
              /\ \A r \in R : KeyOf[p][r] = o => objects'[o].size = SizeOf[r]
         /\ \A o \in ActiveOf(p) \ Paths(p, R) : objects'[o] = [objects[o] EXCEPT !.status = "replaced"]
         /\ \A o \in ObjectKeys \ (ActiveOf(p) \cup Paths(p, R)) : objects'[o] = objects[o]
<1>1. ASSUME NEW o \in Paths(p, R)
      PROVE  /\ objects'[o].status = "active" /\ objects'[o].project = p
             /\ objects'[o] \in ObjectRow
             /\ \A r \in R : KeyOf[p][r] = o => objects'[o].size = SizeOf[r]
  <2> DEFINE c == CHOOSE r \in R : KeyOf[p][r] = o
  <2>1. c \in R /\ KeyOf[p][c] = o
    BY DEF Paths
  <2>2. c \in Resources /\ \A r \in R : r \in Resources
    BY <2>1, ContentTypes
  <2>3. o \in ObjectKeys /\ (objects[o] # NoRow => objects[o].project = p)
    BY PathsOfProject
  <2>4. objects'[o] = [status |-> "active", project |-> p, size |-> SizeOf[c]]
    BY <2>3 DEF Stored
  <2> HIDE DEF c
  <2>5. \A r \in R : KeyOf[p][r] = o => SizeOf[r] = SizeOf[c]
    BY <2>1, <2>2, PathsAssumption
  <2> QED
    BY <2>2, <2>4, <2>5 DEF ObjectRow
<1>2. \A o \in ActiveOf(p) \ Paths(p, R) : objects'[o] = [objects[o] EXCEPT !.status = "replaced"]
  BY DEF Stored, ActiveOf
<1>3. \A o \in ObjectKeys \ (ActiveOf(p) \cup Paths(p, R)) : objects'[o] = objects[o]
  BY DEF Stored
<1> QED
  BY <1>1, <1>2, <1>3 DEF Stored

\* The project's active objects are the manifest's, those of another one stay.
LEMMA StoredActive ==
  ASSUME Shapes, ObjectsKept, NEW p \in Projects, NEW R \in Contents, objects' = Stored(p, R)
  PROVE  /\ objects' \in [ObjectKeys -> {NoRow} \cup ObjectRow]
         /\ \A o \in ObjectKeys : (objects[o] # NoRow)' =>
              \E r \in Resources : o = KeyOf[objects'[o].project][r] /\ objects'[o].size = SizeOf[r]
         /\ ActiveOf(p)' = Paths(p, R)
         /\ \A q \in Projects : q # p => ActiveOf(q)' = ActiveOf(q)
         /\ AllActive' = (AllActive \ ActiveOf(p)) \cup Paths(p, R)
         /\ (AllActive \ ActiveOf(p)) \cap Paths(p, R) = {}
<1>1. /\ DOMAIN objects' = ObjectKeys
      /\ \A o \in Paths(p, R) :
           /\ objects'[o].status = "active" /\ objects'[o].project = p
           /\ objects'[o] \in ObjectRow
           /\ \A r \in R : KeyOf[p][r] = o => objects'[o].size = SizeOf[r]
      /\ \A o \in ActiveOf(p) \ Paths(p, R) : objects'[o] = [objects[o] EXCEPT !.status = "replaced"]
      /\ \A o \in ObjectKeys \ (ActiveOf(p) \cup Paths(p, R)) : objects'[o] = objects[o]
  BY StoredRows
<1>2. \A o \in ObjectKeys : objects[o] = NoRow \/ objects[o] \in ObjectRow
  BY ObjectTypes
<1>3. \A o \in Paths(p, R) : o \in ObjectKeys /\ (objects[o] # NoRow => objects[o].project = p)
  BY PathsOfProject
<1>4. \A o \in ActiveOf(p) : o \in ObjectKeys /\ Active(o) /\ objects[o] # NoRow
                             /\ objects[o].project = p /\ objects[o] \in ObjectRow
  BY ObjectTypes DEF ActiveOf
<1>5. \A o \in ActiveOf(p) \ Paths(p, R) :
        /\ objects'[o] \in ObjectRow /\ objects'[o].status = "replaced"
        /\ objects'[o].project = objects[o].project /\ objects'[o].size = objects[o].size
  <2>1. \A row \in ObjectRow :
          /\ [row EXCEPT !.status = "replaced"] \in ObjectRow
          /\ [row EXCEPT !.status = "replaced"].status = "replaced"
          /\ [row EXCEPT !.status = "replaced"].project = row.project
          /\ [row EXCEPT !.status = "replaced"].size = row.size
    BY DEF ObjectRow
  <2>2. SUFFICES ASSUME NEW o \in ActiveOf(p) \ Paths(p, R)
                 PROVE  /\ objects'[o] \in ObjectRow /\ objects'[o].status = "replaced"
                        /\ objects'[o].project = objects[o].project /\ objects'[o].size = objects[o].size
    OBVIOUS
  <2>3. PICK row \in ObjectRow : row = objects[o]
    BY <1>4
  <2>4. objects'[o] = [row EXCEPT !.status = "replaced"]
    BY <1>1, <2>3
  <2> HIDE DEF ObjectRow
  <2> QED
    BY <2>1, <2>3, <2>4
<1>6. objects' \in [ObjectKeys -> {NoRow} \cup ObjectRow]
  <2>1. \A o \in ObjectKeys : objects'[o] \in {NoRow} \cup ObjectRow
    BY <1>1, <1>2, <1>5
  <2>2. objects' = [o \in ObjectKeys |-> objects'[o]]
    BY DEF Stored
  <2> QED
    BY <2>1, <2>2
<1>7. ASSUME NEW o \in ObjectKeys, objects'[o] # NoRow
      PROVE  \E r \in Resources : o = KeyOf[objects'[o].project][r] /\ objects'[o].size = SizeOf[r]
  <2>1. CASE o \in Paths(p, R)
    <3>1. PICK r \in R : o = KeyOf[p][r]
      BY <2>1 DEF Paths
    <3> QED
      BY <1>1, <2>1, <3>1, ContentTypes
  <2>2. CASE o \notin Paths(p, R)
    <3>1. objects[o] # NoRow /\ objects'[o].project = objects[o].project /\ objects'[o].size = objects[o].size
      BY <1>1, <1>4, <1>5, <1>7, <2>2
    <3> QED
      BY <3>1 DEF ObjectsKept
  <2> QED
    BY <2>1, <2>2
<1>8. \A o \in ObjectKeys : Active(o)' <=> \/ o \in Paths(p, R)
                                           \/ Active(o) /\ o \notin ActiveOf(p)
  BY <1>1, <1>4, <1>5 DEF Active
<1>9. \A o \in ObjectKeys : Active(o) /\ o \notin ActiveOf(p) =>
        /\ o \notin Paths(p, R) /\ objects'[o] = objects[o] /\ objects[o].project # p
  BY <1>1, <1>3, ObjectTypes DEF ActiveOf
<1>10. ActiveOf(p)' = Paths(p, R)
  BY <1>1, <1>3, <1>8, <1>9 DEF ActiveOf
<1>11. ASSUME NEW q \in Projects, q # p PROVE ActiveOf(q)' = ActiveOf(q)
  BY <1>1, <1>3, <1>4, <1>8, <1>9, <1>11 DEF ActiveOf
<1>12. /\ AllActive' = (AllActive \ ActiveOf(p)) \cup Paths(p, R)
       /\ (AllActive \ ActiveOf(p)) \cap Paths(p, R) = {}
  BY <1>3, <1>8, <1>9 DEF AllActive
<1> QED
  BY <1>6, <1>7, <1>10, <1>11, <1>12

\* What is used falls by what the project had, and grows by no more than the
\* resources of the manifest.
LEMMA StoredBytes ==
  ASSUME Shapes, ObjectsKept, NEW p \in Projects, NEW R \in Contents, objects' = Stored(p, R)
  PROVE  /\ IsFiniteSet(AllActive')
         /\ Used' \in Nat
         /\ Used' <= Used - Bytes(ActiveOf(p)) + SizeOfContent(R)
<1> DEFINE A == ActiveOf(p)
           B == AllActive \ A
           P == Paths(p, R)
           f == [o \in AllActive |-> objects[o].size]
           g == [o \in AllActive' |-> objects'[o].size]
<1>1. /\ AllActive' = B \cup P /\ B \cap P = {}
      /\ A \subseteq AllActive /\ IsFiniteSet(AllActive) /\ IsFiniteSet(A) /\ IsFiniteSet(B)
      /\ IsFiniteSet(P) /\ IsFiniteSet(B \cup P)
  <2>1. AllActive' = B \cup P /\ B \cap P = {}
    BY StoredActive
  <2>2. A \subseteq AllActive /\ IsFiniteSet(AllActive) /\ IsFiniteSet(P)
    BY ActiveTypes, ContentTypes
  <2>3. IsFiniteSet(A) /\ IsFiniteSet(B)
    BY <2>2, FS_Subset, FS_Difference
  <2> QED
    BY <2>1, <2>2, <2>3, FS_Union
<1>2. \A o \in AllActive : f[o] = objects[o].size /\ objects[o].size \in Nat
  BY ActiveTypes
<1>3. \A o \in B : g[o] = f[o] /\ g[o] \in Nat
  <2>1. ASSUME NEW o \in B PROVE objects'[o] = objects[o]
    <3>1. o \in ObjectKeys /\ o \notin P /\ o \notin A
      BY <1>1 DEF AllActive
    <3> QED
      BY <3>1, StoredRows
  <2> QED
    BY <1>1, <1>2, <2>1
<1>4. \A r \in R : KeyOf[p][r] \in P /\ SizeOf[r] \in Nat /\ g[KeyOf[p][r]] = SizeOf[r]
  <2>1. \A r \in R : KeyOf[p][r] \in P
    BY DEF Paths
  <2>2. \A o \in P : \A r \in R : KeyOf[p][r] = o => objects'[o].size = SizeOf[r]
    BY StoredRows
  <2> QED
    BY <1>1, <2>1, <2>2, ContentTypes
<1>5. P = Image(KeyOf[p], R)
  BY DEF Paths, Image
<1>6. \A o \in P : g[o] \in Nat
  BY <1>4 DEF Paths
<1>7. Used = SumFunctionOnSet(f, A) + SumFunctionOnSet(f, B)
  <2>1. Used = SumFunctionOnSet(f, AllActive)
    BY ActiveTypes DEF Bytes
  <2>2. AllActive = A \cup B /\ A \cap B = {} /\ \A o \in A \cup B : f[o] \in Int
    BY <1>1, <1>2
  <2> HIDE DEF A, B, f
  <2> QED
    BY <1>1, <2>1, <2>2, SetSumSplit
<1>8. Bytes(A) = SumFunctionOnSet(f, A)
  <2> DEFINE h == [o \in A |-> objects[o].size]
  <2>1. \A o \in A : f[o] \in Int /\ h[o] = f[o]
    BY <1>1, <1>2
  <2>2. Bytes(A) = SumFunctionOnSet(h, A)
    BY DEF Bytes
  <2> HIDE DEF h, f, A
  <2> QED
    BY <1>1, <2>1, <2>2, SetSumCong
<1>9. Used' = SumFunctionOnSet(g, B) + SumFunctionOnSet(g, P)
  <2>1. Used' = SumFunctionOnSet(g, AllActive')
    BY DEF Used, Bytes, AllActive
  <2>2. \A o \in B \cup P : g[o] \in Int
    BY <1>3, <1>6
  <2> HIDE DEF B, P, g
  <2> QED
    BY <1>1, <2>1, <2>2, SetSumSplit
<1>10. SumFunctionOnSet(g, B) = SumFunctionOnSet(f, B) /\ SumFunctionOnSet(g, B) \in Nat
  <2>1. \A o \in B : f[o] \in Int /\ g[o] = f[o] /\ g[o] \in Int /\ g[o] \in Nat
    BY <1>3
  <2> HIDE DEF B, f, g
  <2> QED
    BY <1>1, <2>1, SetSumCong, SetSumType
<1>11. SumFunctionOnSet(g, P) <= SizeOfContent(R) /\ SumFunctionOnSet(g, P) \in Nat
  <2>1. IsFiniteSet(R) /\ \A r \in R : SizeOf[r] \in Nat /\ g[KeyOf[p][r]] = SizeOf[r]
    BY <1>4, ContentTypes
  <2>2. \A o \in P : g[o] \in Int /\ g[o] \in Nat
    BY <1>6
  <2> HIDE DEF P, g
  <2>3. SumFunctionOnSet(g, Image(KeyOf[p], R)) <= SumFunctionOnSet(SizeOf, R)
    BY <2>1, SetSumImage
  <2> QED
    BY <1>1, <1>5, <2>2, <2>3, SetSumType DEF SizeOfContent
<1>12. SumFunctionOnSet(f, A) \in Nat /\ SizeOfContent(R) \in Nat
  <2>1. \A o \in A : f[o] \in Nat /\ f[o] \in Int
    BY <1>1, <1>2
  <2> HIDE DEF A, f
  <2> QED
    BY <1>1, <2>1, SetSumType, ContentTypes
<1> HIDE DEF A, B, P, f, g
<1>13. Used' \in Nat /\ Used' <= Used - Bytes(A) + SizeOfContent(R)
  BY <1>7, <1>8, <1>9, <1>10, <1>11, <1>12
<1> QED
  BY <1>1, <1>13 DEF A

-----------------------------------------------------------------------------
(* The room that commits under way have.                                   *)

SlackOf(requests) == [c \in Commits |-> Slack(requests[c])]

Reads(request) == request = Idle \/ (request.quota \in Quotas /\ request.used \in Nat)

LEMMA SlackTypes ==
  ASSUME plan \in Plans, NEW requests, \A c \in Commits : Reads(requests[c])
  PROVE  /\ \A c \in Commits : /\ SlackOf(requests)[c] \in Nat /\ SlackOf(requests)[c] \in Int
                                /\ SlackOf(requests)[c] <= TopQuota
         /\ SumFunctionOnSet(SlackOf(requests), Commits) \in Nat
<1> DEFINE f == SlackOf(requests)
<1>1. ASSUME NEW c \in Commits
      PROVE  f[c] \in Nat /\ f[c] \in Int /\ f[c] <= TopQuota
  <2>1. f[c] = Slack(requests[c]) /\ Reads(requests[c])
    BY DEF SlackOf
  <2>2. TopQuota \in Nat
    BY QuotaTypes
  <2> HIDE DEF f
  <2>3. CASE requests[c] = Idle
    BY <2>1, <2>2, <2>3 DEF Slack
  <2>4. CASE requests[c] # Idle
    <3>1. requests[c].quota \in Nat /\ requests[c].quota <= TopQuota /\ requests[c].used \in Nat
      BY <2>1, <2>4, QuotaTypes DEF Reads
    <3> QED
      BY <2>1, <2>2, <2>4, <3>1 DEF Slack, Larger
  <2> QED
    BY <2>3, <2>4
<1>2. IsFiniteSet(Commits)
  BY CloudAssumption
<1> HIDE DEF f
<1>3. SumFunctionOnSet(f, Commits) \in Nat
  BY <1>1, <1>2, SetSumType
<1> QED
  BY <1>1, <1>3 DEF f

\* A commit that reads what is used has the room that is left of its quota, and
\* each other one no more than a quota.
LEMMA RoomWhenRead ==
  ASSUME Shapes, Shapes', plan' = plan, ObjectsKept, RoomLeft, objects' = objects,
         NEW c \in Commits, NEW r, r # Idle, r.quota = Quota, r.used = Used,
         committing[c] = Idle, committing' = [committing EXCEPT ![c] = r]
  PROVE  RoomLeft'
<1>1. plan \in Plans /\ committing \in [Commits -> {Idle} \cup CommitRequest]
  BY DEF Shapes
<1> DEFINE f == SlackOf(committing)
           g == SlackOf(committing')
<1>0. \A d \in Commits : Reads(committing[d]) /\ Reads(committing'[d])
  BY DEF Shapes, CommitRequest, Reads, Quotas
<1>2. /\ \A d \in Commits : f[d] \in Int /\ f[d] <= TopQuota
      /\ Slacks = SumFunctionOnSet(f, Commits) /\ Slacks \in Nat
      /\ IsFiniteSet(Commits) /\ Cardinality(Commits) \in Nat
  BY <1>0, <1>1, SlackTypes, CloudAssumption, FS_CardinalityType DEF Slacks, SlackOf
<1>3. /\ \A d \in Commits : g[d] \in Int
      /\ Slacks' = SumFunctionOnSet(g, Commits) /\ Slacks' \in Nat
  BY <1>0, <1>1, SlackTypes DEF Slacks, SlackOf
<1>4. /\ \A d \in Commits : d # c => g[d] = f[d]
      /\ f[c] = 0 /\ g[c] = Larger(Quota - Used, 0)
  <2>1. \A d \in Commits : d # c => committing'[d] = committing[d]
    BY <1>1
  <2>2. committing'[c] = r
    BY <1>1
  <2> QED
    BY <2>1, <2>2 DEF SlackOf, Slack
<1> HIDE DEF f, g
<1>5. Used \in Nat /\ Used' = Used
  BY ActiveTypes DEF Used, Bytes, Active
<1>6. Quota \in Nat /\ TopQuota \in Nat /\ Quota <= TopQuota
  BY <1>1, QuotaTypes
<1>7. RoomLeft' <=> Used + Slacks' <= Cardinality(Commits) * TopQuota
  BY <1>5 DEF RoomLeft, TopQuota, Quotas
<1>8. Slacks' = Slacks + Larger(Quota - Used, 0)
  <2>1. \A d \in Commits : f[d] \in Int /\ g[d] \in Int /\ (d # c => g[d] = f[d])
    BY <1>2, <1>3, <1>4
  <2>2. SumFunctionOnSet(g, Commits) = SumFunctionOnSet(f, Commits) + (g[c] - f[c])
    BY <1>2, <2>1, SetSumUpdate
  <2>3. Larger(Quota - Used, 0) \in Int
    BY <1>5, <1>6 DEF Larger
  <2> QED
    BY <1>2, <1>3, <1>4, <2>2, <2>3
<1>9. CASE Used >= Quota
  <2>1. Larger(Quota - Used, 0) = 0
    BY <1>5, <1>6, <1>9 DEF Larger
  <2> QED
    BY <1>2, <1>7, <1>8, <2>1 DEF RoomLeft
<1>10. CASE Used < Quota
  <2> DEFINE top == [d \in Commits |-> IF d = c THEN TopQuota ELSE f[d]]
  <2>1. \A d \in Commits : /\ f[d] \in Int /\ top[d] \in Int /\ top[d] <= TopQuota
                           /\ d # c => top[d] = f[d]
    BY <1>2, <1>6
  <2>2. top[c] = TopQuota
    OBVIOUS
  <2> HIDE DEF top
  <2>3. SumFunctionOnSet(top, Commits) = Slacks + (TopQuota - 0)
    BY <1>2, <1>4, <2>1, <2>2, SetSumUpdate
  <2>4. SumFunctionOnSet(top, Commits) <= Cardinality(Commits) * TopQuota
    BY <1>2, <1>6, <2>1, SetSumBound
  <2>5. Larger(Quota - Used, 0) = Quota - Used
    BY <1>5, <1>6, <1>10 DEF Larger
  <2>6. Used + Slacks' <= Slacks + TopQuota /\ Slacks + TopQuota <= Cardinality(Commits) * TopQuota
    BY <1>2, <1>5, <1>6, <1>8, <2>3, <2>4, <2>5
  <2>7. Cardinality(Commits) * TopQuota \in Nat
    BY <1>2, <1>6
  <2> QED
    BY <1>2, <1>3, <1>5, <1>6, <1>7, <2>6, <2>7
<1> QED
  BY <1>5, <1>6, <1>9, <1>10

\* A commit that ends gives its room back, or has used no more than that.
LEMMA RoomWhenEnded ==
  ASSUME Shapes, Shapes', plan' = plan, ObjectsKept, RoomLeft,
         NEW c \in Commits, committing' = [committing EXCEPT ![c] = Idle],
         Used' \in Nat, Used' <= Used + Slack(committing[c])
  PROVE  RoomLeft'
<1>1. plan \in Plans /\ committing \in [Commits -> {Idle} \cup CommitRequest]
  BY DEF Shapes
<1> DEFINE f == SlackOf(committing)
           g == SlackOf(committing')
<1>0. \A d \in Commits : Reads(committing[d]) /\ Reads(committing'[d])
  BY DEF Shapes, CommitRequest, Reads, Quotas
<1>2. /\ \A d \in Commits : f[d] \in Int
      /\ Slacks = SumFunctionOnSet(f, Commits) /\ Slacks \in Nat
      /\ IsFiniteSet(Commits) /\ Cardinality(Commits) \in Nat
  BY <1>0, <1>1, SlackTypes, CloudAssumption, FS_CardinalityType DEF Slacks, SlackOf
<1>3. /\ \A d \in Commits : g[d] \in Int
      /\ Slacks' = SumFunctionOnSet(g, Commits) /\ Slacks' \in Nat
  BY <1>0, <1>1, SlackTypes DEF Slacks, SlackOf
<1>4. /\ \A d \in Commits : d # c => g[d] = f[d]
      /\ f[c] = Slack(committing[c]) /\ g[c] = 0
  <2>1. \A d \in Commits : d # c => committing'[d] = committing[d]
    BY <1>1
  <2>2. committing'[c] = Idle
    BY <1>1
  <2> QED
    BY <2>1, <2>2 DEF SlackOf, Slack
<1> HIDE DEF f, g
<1>5. Used \in Nat
  BY ActiveTypes
<1>6. Slacks' = Slacks + (0 - Slack(committing[c]))
  <2>1. \A d \in Commits : f[d] \in Int /\ g[d] \in Int /\ (d # c => g[d] = f[d])
    BY <1>2, <1>3, <1>4
  <2>2. SumFunctionOnSet(g, Commits) = SumFunctionOnSet(f, Commits) + (g[c] - f[c])
    BY <1>2, <2>1, SetSumUpdate
  <2> QED
    BY <1>2, <1>3, <1>4, <2>2
<1>7. Slack(committing[c]) \in Int
  BY <1>2, <1>4
<1>8. TopQuota' = TopQuota /\ TopQuota \in Nat
  BY <1>1, QuotaTypes DEF TopQuota, Quotas
<1>9. Cardinality(Commits) * TopQuota \in Nat
  BY <1>2, <1>8
<1>10. Used' + Slacks' <= Used + Slacks
  BY <1>2, <1>3, <1>5, <1>6, <1>7
<1> QED
  BY <1>2, <1>3, <1>5, <1>8, <1>9, <1>10 DEF RoomLeft

\* What fits an old count of the used bytes adds no more than the request's room.
LEMMA ProjectedFits ==
  ASSUME NEW p, NEW R, NEW request, request # Idle,
         Projected(request.used, p, R) <= request.quota,
         request.used \in Nat, request.quota \in Nat, Bytes(ActiveOf(p)) \in Nat, SizeOfContent(R) \in Nat
  PROVE  SizeOfContent(R) - Bytes(ActiveOf(p)) <= Slack(request) /\ Slack(request) \in Nat
<1> DEFINE u == request.used
           n == request.quota
           b == Bytes(ActiveOf(p))
           s == SizeOfContent(R)
<1>1. Larger(u - b + s, s) <= n
  BY DEF Projected
<1>2. Slack(request) = Larger(n - u, 0)
  BY DEF Slack
<1>3. u \in Nat /\ n \in Nat /\ b \in Nat /\ s \in Nat
  OBVIOUS
<1> HIDE DEF u, n, b, s
<1>4. u - b + s <= n
  BY <1>1, <1>3 DEF Larger
<1>5. s - b <= n - u /\ n - u <= Larger(n - u, 0) /\ Larger(n - u, 0) \in Nat
  BY <1>3, <1>4 DEF Larger
<1>6. s - b <= Larger(n - u, 0)
  BY <1>3, <1>5
<1> QED
  BY <1>2, <1>5, <1>6 DEF b, s

-----------------------------------------------------------------------------
(* The first state, and what a step leaves alone.                          *)

LEMMA InitIInv == ASSUME Init PROVE IInv
<1> USE DEF Init
<1>1. DOMAIN sessions = {} /\ DOMAIN manifests = {} /\ Len(manifests) = 0
  OBVIOUS
<1>2. Shapes
  BY CloudAssumption DEF Shapes
<1>3. NamedRows /\ ProjectsKept /\ SessionUsedOnce
  BY <1>1 DEF NamedRows, ProjectsKept, SessionUsedOnce, Names
<1>4. AllActive = {} /\ AdminProjects = {} /\ \A p \in Projects : ActiveOf(p) = {} /\ Newest(p) = {}
  BY <1>1 DEF AllActive, AdminProjects, ActiveOf, Active, NoRow, Newest
<1>5. ObjectsKept
  BY <1>4, FS_EmptySet DEF ObjectsKept
<1>6. RoomLeft
  <2> DEFINE f == [c \in Commits |-> Slack(committing[c])]
  <2>1. IsFiniteSet(Commits) /\ Cardinality(Commits) \in Nat /\ plan \in Plans
    BY CloudAssumption, FS_CardinalityType
  <2>2. TopQuota \in Nat
    BY <2>1, QuotaTypes
  <2>3. \A c \in Commits : f[c] \in Int /\ f[c] <= 0
    BY DEF Slack
  <2>4. Slacks = SumFunctionOnSet(f, Commits)
    BY DEF Slacks
  <2> HIDE DEF f
  <2>5. Slacks <= Cardinality(Commits) * 0 /\ Slacks \in Int
    BY <2>1, <2>3, <2>4, SetSumBound, SetSumType
  <2>6. Used = 0
    <3>1. IsFiniteSet({}) /\ \A x \in {} : [o \in {} |-> objects[o].size][x] \in Int
      BY FS_EmptySet
    <3>2. SumFunctionOnSet([o \in {} |-> objects[o].size], {}) = 0
      BY <3>1, SetSumType
    <3>3. Used = Bytes({})
      BY <1>4 DEF Used, AllActive
    <3> QED
      BY <3>2, <3>3 DEF Bytes
  <2>7. Cardinality(Commits) * 0 = 0 /\ Cardinality(Commits) * TopQuota \in Nat
    BY <2>1, <2>2
  <2>8. Used + Slacks <= Cardinality(Commits) * TopQuota
    BY <2>5, <2>6, <2>7
  <2> QED
    BY <2>8 DEF RoomLeft
<1> QED
  BY <1>2, <1>3, <1>5, <1>6 DEF IInv

LEMMA SameObjects ==
  ASSUME ObjectsKept, UNCHANGED <<objects, manifests, projects>>
  PROVE  ObjectsKept'
BY DEF ObjectsKept, ActiveOf, Active, Newest, AllActive, AdminProjects

LEMMA SameRoom ==
  ASSUME RoomLeft, UNCHANGED <<objects, committing>>
  PROVE  RoomLeft'
BY DEF RoomLeft, Used, Bytes, Active, Slacks, TopQuota, Quotas

LEMMA SameSessions ==
  ASSUME SessionUsedOnce, UNCHANGED <<sessions, manifests>>
  PROVE  SessionUsedOnce'
BY DEF SessionUsedOnce

LEMMA SameNames ==
  ASSUME NamedRows, UNCHANGED <<sessions, manifests, committing>>
  PROVE  NamedRows'
BY DEF NamedRows

LEMMA SameProjects ==
  ASSUME ProjectsKept, UNCHANGED <<projects, sessions, manifests, syncing>>
  PROVE  ProjectsKept'
BY DEF ProjectsKept, Names, Copied

\* A request that begins or ends leaves the others' copies alone.
LEMMA OneSync ==
  ASSUME Shapes, ProjectsKept, UNCHANGED <<projects, sessions, manifests>>,
         NEW q \in Syncs, NEW r, syncing' = [syncing EXCEPT ![q] = r],
         r = Idle \/ Copied(projects, manifests, r)
  PROVE  ProjectsKept'
<1>1. \A t \in Syncs : syncing'[t] = IF t = q THEN r ELSE syncing[t]
  BY DEF Shapes
<1>2. ASSUME NEW t \in Syncs, syncing'[t] # Idle PROVE Copied(projects, manifests, syncing'[t])
  BY <1>1, <1>2 DEF ProjectsKept
<1> QED
  BY <1>2 DEF ProjectsKept

\* The rows of the two tables.
LEMMA RowTypes ==
  ASSUME Shapes
  PROVE  /\ Len(sessions) \in Nat /\ DOMAIN sessions = 1..Len(sessions)
         /\ \A i \in DOMAIN sessions :
              sessions[i] \in SessionRow /\ sessions[i].project \in Projects /\ sessions[i].content \in Contents
         /\ Len(manifests) \in Nat /\ DOMAIN manifests = 1..Len(manifests)
         /\ \A m \in DOMAIN manifests :
              manifests[m] \in ManifestRow /\ manifests[m].project \in Projects /\ manifests[m].content \in Contents
<1>1. sessions \in Seq(SessionRow) /\ manifests \in Seq(ManifestRow)
  BY DEF Shapes
<1>2. /\ Len(sessions) \in Nat /\ DOMAIN sessions = 1..Len(sessions)
      /\ \A i \in DOMAIN sessions : sessions[i] \in SessionRow
      /\ Len(manifests) \in Nat /\ DOMAIN manifests = 1..Len(manifests)
      /\ \A m \in DOMAIN manifests : manifests[m] \in ManifestRow
  BY <1>1, LenProperties
<1> QED
  BY <1>2 DEF SessionRow, ManifestRow

-----------------------------------------------------------------------------
(* The steps of an authorization.                                          *)

LEMMA SyncOnly ==
  ASSUME IInv, UNCHANGED <<now, plan, projects, sessions, manifests, objects, committing>>,
         NEW q \in Syncs, NEW r, syncing' = [syncing EXCEPT ![q] = r],
         r = Idle \/ (r \in SyncRequest /\ Copied(projects, manifests, r))
  PROVE  IInv'
<1>1. Shapes'
  BY DEF IInv, Shapes
<1>2. ProjectsKept'
  BY OneSync DEF IInv
<1>3. NamedRows' /\ ObjectsKept' /\ SessionUsedOnce' /\ RoomLeft'
  BY SameNames, SameObjects, SameSessions, SameRoom DEF IInv
<1> QED
  BY <1>1, <1>2, <1>3 DEF IInv

LEMMA BeginSyncStep ==
  ASSUME IInv, NEW q \in Syncs, NEW p \in Projects, NEW R \in Contents, NEW renames \in BOOLEAN,
         BeginSync(q, p, R, renames)
  PROVE  IInv'
<1> DEFINE r == [pc |-> IF projects[p] = NoRow \/ renames THEN "save" ELSE "open",
                 project |-> p, content |-> R, quota |-> Quota, used |-> Used, copy |-> projects[p]]
<1>1. Used \in Nat /\ Quota \in Quotas
  BY ActiveTypes, QuotaTypes DEF IInv, Shapes
<1>2. projects[p] \in {NoRow} \cup ProjectRow /\ Names(manifests, projects[p], p)
  BY DEF IInv, Shapes, ProjectsKept
<1>3. r \in SyncRequest
  BY <1>1, <1>2 DEF SyncRequest
<1>4. Copied(projects, manifests, r)
  BY <1>2 DEF Copied
<1>5. /\ syncing' = [syncing EXCEPT ![q] = r]
      /\ UNCHANGED <<now, plan, projects, sessions, manifests, objects, committing>>
  BY DEF BeginSync
<1> HIDE DEF r
<1> QED
  BY <1>3, <1>4, <1>5, SyncOnly

\* A row of the project is saved that names what the row that is there may no
\* longer name; other projects' rows stay.
LEMMA ProjectSaved ==
  ASSUME IInv, UNCHANGED <<now, plan, sessions, manifests, objects, committing>>,
         NEW q \in Syncs, syncing[q] # Idle, syncing' = [syncing EXCEPT ![q].pc = "open"],
         NEW p, p = syncing[q].project, NEW row \in ProjectRow, Names(manifests, row, p),
         projects' = [projects EXCEPT ![p] = row]
  PROVE  IInv'
<1>1. syncing[q] \in SyncRequest /\ p \in Projects /\ Copied(projects, manifests, syncing[q])
  BY DEF IInv, Shapes, SyncRequest, ProjectsKept
<1>2. row # NoRow
  BY DEF ProjectRow, NoRow
<1>3. \A x \in Projects : /\ projects'[x] = IF x = p THEN row ELSE projects[x]
                          /\ projects[x] # NoRow => projects'[x] # NoRow
  BY <1>2 DEF IInv, Shapes
<1> DEFINE r == [syncing[q] EXCEPT !.pc = "open"]
<1>4. /\ r \in SyncRequest /\ r.project = p /\ r.copy = syncing[q].copy /\ r.pc = "open"
  BY <1>1 DEF SyncRequest
<1>5. /\ \A t \in Syncs : syncing'[t] = IF t = q THEN r ELSE syncing[t]
      /\ syncing' = [syncing EXCEPT ![q] = r]
  BY DEF IInv, Shapes
<1> HIDE DEF r
<1>6. Shapes'
  BY <1>1, <1>4, <1>5 DEF IInv, Shapes
<1>7. ASSUME NEW t \in Syncs, syncing'[t] # Idle PROVE Copied(projects', manifests, syncing'[t])
  <2>1. CASE t = q
    BY <1>1, <1>2, <1>3, <1>4, <1>5, <2>1 DEF Copied
  <2>2. CASE t # q
    <3>1. syncing'[t] = syncing[t] /\ syncing[t] \in SyncRequest /\ Copied(projects, manifests, syncing[t])
      BY <1>5, <1>7, <2>2 DEF IInv, Shapes, ProjectsKept
    <3>2. syncing[t].project \in Projects
      BY <3>1 DEF SyncRequest
    <3> QED
      BY <1>3, <3>1, <3>2 DEF Copied
  <2> QED
    BY <2>1, <2>2
<1>8. ProjectsKept'
  <2>1. \A x \in Projects : Names(manifests, projects'[x], x)
    BY <1>3 DEF IInv, ProjectsKept
  <2>2. \A i \in DOMAIN sessions : sessions[i].project \in Projects /\ projects[sessions[i].project] # NoRow
    BY RowTypes DEF IInv, ProjectsKept
  <2>3. \A m \in DOMAIN manifests : manifests[m].project \in Projects /\ projects[manifests[m].project] # NoRow
    BY RowTypes DEF IInv, ProjectsKept
  <2> QED
    BY <1>3, <1>7, <2>1, <2>2, <2>3 DEF ProjectsKept
<1>9. ObjectsKept'
  <2>1. AdminProjects' \in SUBSET (AdminProjects \cup {p}) /\ IsFiniteSet(AdminProjects \cup {p})
    BY <1>3, FS_AddElement DEF IInv, ObjectsKept, AdminProjects
  <2>2. IsFiniteSet(AdminProjects')
    BY <2>1, FS_Subset
  <2> QED
    BY <2>2 DEF IInv, ObjectsKept, ActiveOf, Active, Newest, AllActive
<1>10. NamedRows' /\ SessionUsedOnce' /\ RoomLeft'
  BY SameNames, SameSessions, SameRoom DEF IInv
<1> QED
  BY <1>6, <1>8, <1>9, <1>10 DEF IInv

LEMMA SaveProjectStep ==
  ASSUME IInv, NEW q \in Syncs, SaveProject(q)
  PROVE  IInv'
<1>1. syncing[q] # Idle /\ syncing[q] \in SyncRequest /\ Copied(projects, manifests, syncing[q])
  BY DEF IInv, Shapes, ProjectsKept, SaveProject, Idle
<1> DEFINE p == syncing[q].project
           copy == syncing[q].copy
<1>2. UNCHANGED <<now, plan, sessions, manifests, objects, committing>>
  BY DEF SaveProject
<1>3. CASE /\ projects' = [projects EXCEPT ![p] = [status |-> "active", last |-> 0]]
           /\ syncing' = [syncing EXCEPT ![q].pc = "open"]
  <2> DEFINE row == [status |-> "active", last |-> 0]
  <2>1. row \in ProjectRow /\ Names(manifests, row, p)
    BY DEF ProjectRow, Names
  <2> HIDE DEF row
  <2> QED
    BY <1>1, <1>2, <1>3, <2>1, ProjectSaved DEF row
<1>4. CASE syncing' = [syncing EXCEPT ![q] = Idle] /\ UNCHANGED projects
  BY <1>2, <1>4, SyncOnly
<1>5. CASE /\ copy # NoRow
           /\ projects' = [projects EXCEPT ![p] = copy]
           /\ syncing' = [syncing EXCEPT ![q].pc = "open"]
  <2>1. copy \in ProjectRow /\ Names(manifests, copy, p)
    BY <1>1, <1>5 DEF SyncRequest, Copied
  <2> QED
    BY <1>1, <1>2, <1>5, <2>1, ProjectSaved
<1> QED
  BY <1>3, <1>4, <1>5 DEF SaveProject

LEMMA SyncFailsStep ==
  ASSUME IInv, NEW q \in Syncs, SyncFails(q)
  PROVE  IInv'
BY SyncOnly DEF SyncFails

LEMMA SessionOpened ==
  ASSUME IInv, NEW row \in SessionRow, row.status = "authorized", row.manifest = 0,
         projects[row.project] # NoRow,
         UNCHANGED <<projects, manifests, committing>>, sessions' = Append(sessions, row)
  PROVE  /\ sessions' \in Seq(SessionRow) /\ NamedRows' /\ SessionUsedOnce'
         /\ DOMAIN sessions' = DOMAIN sessions \cup {Len(sessions) + 1}
         /\ \A i \in DOMAIN sessions' : projects[sessions'[i].project] # NoRow
<1> DEFINE n == Len(sessions)
<1>1. /\ n \in Nat /\ DOMAIN sessions = 1..n
      /\ Len(manifests) \in Nat /\ DOMAIN manifests = 1..Len(manifests)
      /\ sessions \in Seq(SessionRow)
  BY RowTypes DEF IInv, Shapes
<1>2. /\ sessions' \in Seq(SessionRow) /\ Len(sessions') = n + 1
      /\ \A i \in 1..n : sessions'[i] = sessions[i]
      /\ sessions'[n + 1] = row
  BY <1>1, AppendProperties
<1>3. DOMAIN sessions' = DOMAIN sessions \cup {n + 1} /\ n + 1 \notin DOMAIN sessions
  BY <1>1, <1>2, LenProperties
<1> HIDE DEF n
<1>4. /\ \A i \in DOMAIN sessions : sessions'[i] = sessions[i]
      /\ sessions'[n + 1] = row
  BY <1>1, <1>2
<1>5. /\ \A i \in DOMAIN sessions : sessions[i].manifest \in 0..Len(manifests)
      /\ \A m \in DOMAIN manifests : manifests[m].session \in DOMAIN sessions
      /\ \A c \in Commits : committing[c] # Idle => committing[c].session \in DOMAIN sessions
  BY DEF IInv, NamedRows
<1>6. NamedRows'
  BY <1>1, <1>3, <1>4, <1>5 DEF NamedRows
<1>7. \A i \in DOMAIN sessions' : projects[sessions'[i].project] # NoRow
  BY <1>3, <1>4 DEF IInv, ProjectsKept
<1>8. SessionUsedOnce'
  <2>1. ASSUME NEW i \in DOMAIN sessions'
        PROVE  LET its == {m \in DOMAIN manifests : manifests[m].session = i}
               IN  /\ its = (IF sessions'[i].status = "committed" THEN {sessions'[i].manifest} ELSE {})
                   /\ \A m \in its : /\ manifests[m].project = sessions'[i].project
                                     /\ manifests[m].content = sessions'[i].content
    <3>1. CASE i \in DOMAIN sessions
      BY <1>4, <3>1 DEF IInv, SessionUsedOnce
    <3>2. CASE i = n + 1
      <4>1. {m \in DOMAIN manifests : manifests[m].session = i} = {}
        BY <1>3, <1>5, <3>2
      <4> QED
        BY <1>4, <3>2, <4>1
    <3> QED
      BY <1>3, <3>1, <3>2
  <2>2. \A k, m \in DOMAIN manifests : manifests[k].token = manifests[m].token => k = m
    BY DEF IInv, SessionUsedOnce
  <2> QED
    BY <2>1, <2>2 DEF SessionUsedOnce
<1> QED
  BY <1>2, <1>3, <1>6, <1>7, <1>8 DEF n

LEMMA OpenSessionStep ==
  ASSUME IInv, NEW q \in Syncs, OpenSession(q)
  PROVE  IInv'
<1> DEFINE s == syncing[q]
           row == [project |-> s.project, content |-> s.content, expires |-> now + SessionTTL,
                   status |-> "authorized", manifest |-> 0]
<1>1. s # Idle /\ s \in SyncRequest /\ Copied(projects, manifests, s) /\ s.pc = "open"
  BY DEF IInv, Shapes, ProjectsKept, OpenSession, Idle
<1>2. UNCHANGED <<now, plan, projects, manifests, objects, committing>> /\ syncing' = [syncing EXCEPT ![q] = Idle]
  BY DEF OpenSession
<1>3. CASE UNCHANGED sessions
  BY <1>2, <1>3, SyncOnly
<1>4. CASE sessions' = Append(sessions, row)
  <2>1. now + SessionTTL \in 0..(MaxTime + SessionTTL)
    BY CloudAssumption DEF IInv, Shapes
  <2>2. row \in SessionRow
    BY <1>1, <2>1 DEF SyncRequest, SessionRow
  <2>3. row.status = "authorized" /\ row.manifest = 0 /\ projects[row.project] # NoRow
    BY <1>1 DEF Copied
  <2> HIDE DEF row, s
  <2>4. /\ sessions' \in Seq(SessionRow) /\ NamedRows' /\ SessionUsedOnce'
        /\ \A i \in DOMAIN sessions' : projects[sessions'[i].project] # NoRow
    BY <1>2, <1>4, <2>2, <2>3, SessionOpened
  <2>5. Shapes'
    BY <1>2, <2>4 DEF IInv, Shapes
  <2>6. ProjectsKept'
    <3>1. \A t \in Syncs : syncing'[t] # Idle => syncing'[t] = syncing[t]
      BY <1>2 DEF IInv, Shapes
    <3> QED
      BY <1>2, <2>4, <3>1 DEF IInv, ProjectsKept
  <2>7. ObjectsKept' /\ RoomLeft'
    BY <1>2, SameObjects, SameRoom DEF IInv
  <2> QED
    BY <2>4, <2>5, <2>6, <2>7 DEF IInv
<1> QED
  BY <1>3, <1>4 DEF OpenSession

-----------------------------------------------------------------------------
(* The steps of a commit.                                                  *)

LEMMA BeginCommitStep ==
  ASSUME IInv, NEW c \in Commits, NEW i \in DOMAIN sessions, NEW k \in Tokens, NEW R \in Contents,
         BeginCommit(c, i, k, R)
  PROVE  IInv'
<1> DEFINE r == [pc |-> "commit", session |-> i, token |-> k, content |-> R, quota |-> Quota, used |-> Used]
<1>1. Used \in Nat /\ Quota \in Quotas /\ i \in Nat
  BY ActiveTypes, QuotaTypes, RowTypes DEF IInv, Shapes
<1>2. r \in CommitRequest /\ r # Idle /\ r.quota = Quota /\ r.used = Used /\ r.session = i
  BY <1>1 DEF CommitRequest, Idle
<1>3. /\ committing[c] = Idle /\ committing' = [committing EXCEPT ![c] = r]
      /\ UNCHANGED <<now, plan, projects, sessions, manifests, objects, syncing>>
  BY DEF BeginCommit
<1> HIDE DEF r
<1>4. Shapes'
  BY <1>2, <1>3 DEF IInv, Shapes
<1>5. NamedRows'
  <2>1. \A d \in Commits : committing'[d] = IF d = c THEN r ELSE committing[d]
    BY <1>3 DEF IInv, Shapes
  <2> QED
    BY <1>2, <1>3, <2>1 DEF IInv, NamedRows
<1>6. RoomLeft'
  BY <1>2, <1>3, <1>4, RoomWhenRead DEF IInv
<1>7. ProjectsKept' /\ ObjectsKept' /\ SessionUsedOnce'
  BY <1>3, SameProjects, SameObjects, SameSessions DEF IInv
<1> QED
  BY <1>4, <1>5, <1>6, <1>7 DEF IInv

\* A commit that is refused or fails changes nothing but that it is over.
LEMMA CommitEnds ==
  ASSUME IInv, NEW c \in Commits, committing' = [committing EXCEPT ![c] = Idle],
         UNCHANGED <<now, plan, projects, sessions, manifests, objects, syncing>>
  PROVE  IInv'
<1>1. Shapes'
  BY DEF IInv, Shapes
<1>2. NamedRows'
  <2>1. \A d \in Commits : committing'[d] # Idle => committing'[d] = committing[d]
    BY DEF IInv, Shapes
  <2> QED
    BY <2>1 DEF IInv, NamedRows
<1>3. RoomLeft'
  <2>1. Used \in Nat /\ Used' = Used
    BY ActiveTypes DEF IInv, Used, Bytes, Active
  <2>2. plan \in Plans /\ \A d \in Commits : Reads(committing[d])
    BY DEF IInv, Shapes, CommitRequest, Reads, Quotas
  <2>3. Slack(committing[c]) \in Nat
    BY <2>2, SlackTypes DEF SlackOf
  <2>4. Used' \in Nat /\ Used' <= Used + Slack(committing[c])
    BY <2>1, <2>3
  <2> QED
    BY <1>1, <2>4, RoomWhenEnded DEF IInv
<1>4. ProjectsKept' /\ ObjectsKept' /\ SessionUsedOnce'
  BY SameProjects, SameObjects, SameSessions DEF IInv
<1> QED
  BY <1>1, <1>2, <1>3, <1>4 DEF IInv

LEMMA CommitFailsStep ==
  ASSUME IInv, NEW c \in Commits, CommitFails(c)
  PROVE  IInv'
BY CommitEnds DEF CommitFails

\* What a manifest that is committed leaves in the tables: NEW names stand for
\* the session i, its project p, the content R and the token k.
Committed(i, p, R, k) ==
  /\ manifests' = Append(manifests, [session |-> i, project |-> p, content |-> R, token |-> k])
  /\ projects' = [projects EXCEPT ![p].last = Len(manifests) + 1]
  /\ sessions' = [sessions EXCEPT ![i].status = "committed", ![i].manifest = Len(manifests) + 1]
  /\ objects' = Stored(p, R)

\* A session that can be committed, with what it was opened for.
Fits(i, p, R, k) ==
  /\ i \in DOMAIN sessions /\ k \in Tokens /\ p \in Projects /\ R \in Contents
  /\ sessions[i].project = p /\ sessions[i].content = R /\ sessions[i].status = "authorized"
  /\ ~Recorded(k)

LEMMA CommittedTables ==
  ASSUME IInv, NEW i, NEW p, NEW R, NEW k, Fits(i, p, R, k), Committed(i, p, R, k), NEW n, n = Len(manifests)
  PROVE  /\ manifests' \in Seq(ManifestRow) /\ Len(manifests') = n + 1
         /\ n \in Nat /\ DOMAIN manifests = 1..n /\ DOMAIN manifests' = 1..n+1
         /\ \A m \in 1..n : manifests'[m] = manifests[m]
         /\ manifests'[n+1] = [session |-> i, project |-> p, content |-> R, token |-> k]
         /\ sessions' \in Seq(SessionRow) /\ DOMAIN sessions' = DOMAIN sessions
         /\ \A j \in DOMAIN sessions : j # i => sessions'[j] = sessions[j]
         /\ sessions'[i].project = p /\ sessions'[i].content = R
         /\ sessions'[i].status = "committed" /\ sessions'[i].manifest = n + 1
         /\ projects' \in [Projects -> {NoRow} \cup ProjectRow]
         /\ \A q \in Projects : /\ q # p => projects'[q] = projects[q]
                                /\ projects'[q] = NoRow <=> projects[q] = NoRow
         /\ projects'[p] # NoRow /\ projects'[p].last = n + 1
<1>1. /\ n \in Nat /\ DOMAIN manifests = 1..n /\ manifests \in Seq(ManifestRow)
      /\ Len(sessions) \in Nat /\ DOMAIN sessions = 1..Len(sessions) /\ sessions \in Seq(SessionRow)
      /\ i \in DOMAIN sessions /\ sessions[i] \in SessionRow /\ i \in Nat
  BY RowTypes DEF IInv, Shapes, Fits
<1> DEFINE row == [session |-> i, project |-> p, content |-> R, token |-> k]
<1>2. row \in ManifestRow
  BY <1>1 DEF ManifestRow, Fits
<1>3. manifests' = Append(manifests, row)
  BY DEF Committed
<1> HIDE DEF row
<1>4. /\ manifests' \in Seq(ManifestRow) /\ Len(manifests') = n + 1
      /\ \A m \in 1..n : manifests'[m] = manifests[m]
      /\ manifests'[n+1] = row
  BY <1>1, <1>2, <1>3, AppendProperties
<1>5. DOMAIN manifests' = 1..n+1
  BY <1>4, LenProperties
<1> DEFINE s == [sessions[i] EXCEPT !.status = "committed", !.manifest = n + 1]
<1>6. /\ s \in SessionRow /\ s.project = p /\ s.content = R
      /\ s.status = "committed" /\ s.manifest = n + 1
  <2>1. PICK x \in SessionRow : x = sessions[i]
    BY <1>1
  <2>2. n + 1 \in Nat /\ x.project = p /\ x.content = R
    BY <1>1, <2>1 DEF Fits
  <2>3. s = [x EXCEPT !.status = "committed", !.manifest = n + 1]
    BY <2>1
  <2> HIDE DEF s
  <2> QED
    BY <2>2, <2>3 DEF SessionRow
<1>7. sessions' = [sessions EXCEPT ![i] = s]
  BY <1>1 DEF Committed
<1> HIDE DEF s
<1>8. /\ sessions' \in Seq(SessionRow) /\ DOMAIN sessions' = DOMAIN sessions
      /\ \A j \in DOMAIN sessions : j # i => sessions'[j] = sessions[j]
      /\ sessions'[i] = s
  BY <1>1, <1>6, <1>7, ExceptSeq
<1> DEFINE t == [projects[p] EXCEPT !.last = n + 1]
<1>9. p \in Projects /\ projects[p] # NoRow /\ projects \in [Projects -> {NoRow} \cup ProjectRow]
  BY DEF IInv, Shapes, ProjectsKept, Fits
<1>10. t \in ProjectRow /\ t.last = n + 1 /\ t # NoRow
  <2>1. projects[p] \in ProjectRow
    BY <1>9
  <2>2. t \in ProjectRow /\ t.last = n + 1
    BY <1>1, <2>1 DEF ProjectRow
  <2> HIDE DEF t
  <2> QED
    BY <2>2 DEF ProjectRow, NoRow
<1>11. projects' = [projects EXCEPT ![p] = t]
  BY <1>9 DEF Committed
<1> HIDE DEF t
<1>12. /\ projects' \in [Projects -> {NoRow} \cup ProjectRow]
       /\ \A q \in Projects : /\ q # p => projects'[q] = projects[q]
                              /\ projects'[q] = NoRow <=> projects[q] = NoRow
       /\ projects'[p] # NoRow /\ projects'[p].last = n + 1
  BY <1>9, <1>10, <1>11
<1> QED
  BY <1>1, <1>4, <1>5, <1>6, <1>8, <1>12 DEF row

\* The manifest is the project's newest; another project's stays.
LEMMA CommittedNewest ==
  ASSUME IInv, NEW i, NEW p, NEW R, NEW k, Fits(i, p, R, k), Committed(i, p, R, k)
  PROVE  /\ Newest(p)' = {Len(manifests) + 1}
         /\ \A q \in Projects : q # p => /\ Newest(q)' = Newest(q)
                                         /\ \A m \in Newest(q) : manifests'[m] = manifests[m]
         /\ manifests'[Len(manifests) + 1].content = R
<1> DEFINE n == Len(manifests)
<1>1. /\ n \in Nat /\ DOMAIN manifests = 1..n /\ DOMAIN manifests' = 1..n+1 /\ Len(manifests') = n + 1
      /\ \A m \in 1..n : manifests'[m] = manifests[m]
      /\ manifests'[n+1] = [session |-> i, project |-> p, content |-> R, token |-> k]
  BY CommittedTables
<1>2. manifests'[n+1].project = p /\ manifests'[n+1].content = R
  BY <1>1
<1> HIDE DEF n
<1>3. Newest(p)' = {n + 1}
  <2>1. ASSUME NEW m \in 1..n PROVE m \notin Newest(p)'
    <3>1. n + 1 \in m+1..n+1
      BY <1>1
    <3> QED
      BY <1>1, <1>2, <3>1 DEF Newest
  <2>2. n + 1 \in Newest(p)'
    <3>1. n + 1 \in 1..n+1 /\ (n + 1) + 1..n + 1 = {}
      BY <1>1
    <3> QED
      BY <1>1, <1>2, <3>1 DEF Newest
  <2>3. \A m \in Newest(p)' : m \in 1..n \/ m = n + 1
    BY <1>1 DEF Newest
  <2> QED
    BY <2>1, <2>2, <2>3
<1>4. ASSUME NEW q \in Projects, q # p
      PROVE  Newest(q)' = Newest(q) /\ \A m \in Newest(q) : manifests'[m] = manifests[m]
  <2>1. \A m \in Newest(q) : m \in 1..n
    BY <1>1 DEF Newest
  <2>2. \A m \in Newest(q)' : m \in 1..n
    <3>1. n + 1 \notin Newest(q)'
      BY <1>2, <1>4 DEF Newest
    <3>2. \A m \in Newest(q)' : m \in 1..n+1
      BY <1>1 DEF Newest
    <3> QED
      BY <1>1, <3>1, <3>2
  <2>3. ASSUME NEW m \in 1..n PROVE m \in Newest(q)' <=> m \in Newest(q)
    <3>1. /\ \A x \in m+1..n : x \in 1..n
          /\ \A x \in m+1..n+1 : x \in m+1..n \/ x = n + 1
          /\ \A x \in m+1..n : x \in m+1..n+1
      BY <1>1
    <3>2. m \in Newest(q)' <=> manifests[m].project = q /\ \A x \in m+1..n+1 : manifests'[x].project # q
      BY <1>1 DEF Newest
    <3>3. m \in Newest(q) <=> manifests[m].project = q /\ \A x \in m+1..n : manifests[x].project # q
      BY <1>1 DEF Newest, n
    <3> QED
      BY <1>1, <1>2, <1>4, <3>1, <3>2, <3>3
  <2> QED
    BY <1>1, <2>1, <2>2, <2>3
<1> QED
  BY <1>2, <1>3, <1>4 DEF n

LEMMA CommittedProjects ==
  ASSUME IInv, UNCHANGED syncing, NEW i, NEW p, NEW R, NEW k, Fits(i, p, R, k), Committed(i, p, R, k)
  PROVE  ProjectsKept'
<1>0. PICK n : n = Len(manifests)
  OBVIOUS
<1>1. /\ n \in Nat /\ DOMAIN manifests = 1..n /\ DOMAIN manifests' = 1..n+1
      /\ \A m \in 1..n : manifests'[m] = manifests[m]
      /\ manifests'[n+1] = [session |-> i, project |-> p, content |-> R, token |-> k]
      /\ DOMAIN sessions' = DOMAIN sessions
      /\ \A j \in DOMAIN sessions : j # i => sessions'[j] = sessions[j]
      /\ sessions'[i].project = p
      /\ \A q \in Projects : /\ q # p => projects'[q] = projects[q]
                             /\ projects'[q] = NoRow <=> projects[q] = NoRow
      /\ projects'[p] # NoRow /\ projects'[p].last = n + 1
  BY <1>0, CommittedTables
<1>2. p \in Projects /\ i \in DOMAIN sessions /\ sessions[i].project = p
  BY DEF Fits
<1>3. \A row, x : Names(manifests, row, x) => Names(manifests', row, x)
  BY <1>1 DEF Names
<1>4. \A q \in Projects : Names(manifests', projects'[q], q)
  <2>1. Names(manifests', projects'[p], p)
    BY <1>1 DEF Names
  <2>2. \A q \in Projects : Names(manifests, projects[q], q)
    BY DEF IInv, ProjectsKept
  <2> QED
    BY <1>1, <1>3, <2>1, <2>2
<1>5. \A j \in DOMAIN sessions' : projects'[sessions'[j].project] # NoRow
  <2>1. \A j \in DOMAIN sessions : sessions[j].project \in Projects /\ projects[sessions[j].project] # NoRow
    BY RowTypes DEF IInv, ProjectsKept
  <2> QED
    BY <1>1, <1>2, <2>1
<1>6. \A m \in DOMAIN manifests' : projects'[manifests'[m].project] # NoRow
  <2>1. \A m \in DOMAIN manifests : manifests[m].project \in Projects /\ projects[manifests[m].project] # NoRow
    BY RowTypes DEF IInv, ProjectsKept
  <2>2. manifests'[n+1].project = p /\ \A m \in 1..n+1 : m \in 1..n \/ m = n + 1
    BY <1>1
  <2> QED
    BY <1>1, <1>2, <2>1, <2>2
<1>7. ASSUME NEW q \in Syncs, syncing'[q] # Idle PROVE Copied(projects', manifests', syncing'[q])
  <2>1. /\ syncing'[q] = syncing[q] /\ Copied(projects, manifests, syncing[q])
        /\ syncing[q].project \in Projects
    BY <1>7 DEF IInv, Shapes, ProjectsKept, SyncRequest
  <2> QED
    BY <1>1, <1>3, <2>1 DEF Copied
<1> QED
  BY <1>4, <1>5, <1>6, <1>7 DEF ProjectsKept

LEMMA CommittedObjects ==
  ASSUME IInv, NEW i, NEW p, NEW R, NEW k, Fits(i, p, R, k), Committed(i, p, R, k)
  PROVE  ObjectsKept'
<1>1. p \in Projects /\ R \in Contents /\ objects' = Stored(p, R) /\ Shapes /\ ObjectsKept
  BY DEF Fits, Committed, IInv
<1>2. /\ \A o \in ObjectKeys : (objects[o] # NoRow)' =>
           \E r \in Resources : o = KeyOf[objects'[o].project][r] /\ objects'[o].size = SizeOf[r]
      /\ ActiveOf(p)' = Paths(p, R)
      /\ \A q \in Projects : q # p => ActiveOf(q)' = ActiveOf(q)
      /\ IsFiniteSet(AllActive')
  BY <1>1, StoredActive, StoredBytes
<1>3. /\ Newest(p)' = {Len(manifests) + 1}
      /\ \A q \in Projects : q # p => /\ Newest(q)' = Newest(q)
                                      /\ \A m \in Newest(q) : manifests'[m] = manifests[m]
      /\ manifests'[Len(manifests) + 1].content = R
  BY CommittedNewest
<1>4. ASSUME NEW q \in Projects
      PROVE  ActiveOf(q)' = UNION {Paths(q, manifests'[m].content) : m \in Newest(q)'}
  <2>1. CASE q = p
    <3>1. UNION {Paths(p, manifests'[m].content) : m \in Newest(p)'} = Paths(p, R)
      BY <1>3
    <3> QED
      BY <1>2, <2>1, <3>1
  <2>2. CASE q # p
    <3>1. ActiveOf(q) = UNION {Paths(q, manifests[m].content) : m \in Newest(q)}
      BY <1>1 DEF ObjectsKept
    <3>2. Newest(q)' = Newest(q) /\ \A m \in Newest(q) : manifests'[m] = manifests[m]
      BY <1>3, <2>2
    <3> QED
      BY <1>2, <2>2, <3>1, <3>2
  <2> QED
    BY <2>1, <2>2
<1>5. AdminProjects' = AdminProjects
  <2>1. PICK n : n = Len(manifests)
    OBVIOUS
  <2>2. \A q \in Projects : projects'[q] = NoRow <=> projects[q] = NoRow
    BY <2>1, CommittedTables
  <2> QED
    BY <2>2 DEF AdminProjects
<1> QED
  BY <1>1, <1>2, <1>4, <1>5 DEF ObjectsKept

LEMMA CommittedOnce ==
  ASSUME IInv, NEW i, NEW p, NEW R, NEW k, Fits(i, p, R, k), Committed(i, p, R, k)
  PROVE  SessionUsedOnce'
<1> DEFINE n == Len(manifests)
           Its(ms, j) == {m \in DOMAIN ms : ms[m].session = j}
<1>1. /\ n \in Nat /\ DOMAIN manifests = 1..n /\ DOMAIN manifests' = 1..n+1
      /\ \A m \in 1..n : manifests'[m] = manifests[m]
      /\ manifests'[n+1] = [session |-> i, project |-> p, content |-> R, token |-> k]
      /\ DOMAIN sessions' = DOMAIN sessions
      /\ \A j \in DOMAIN sessions : j # i => sessions'[j] = sessions[j]
      /\ sessions'[i].project = p /\ sessions'[i].content = R
      /\ sessions'[i].status = "committed" /\ sessions'[i].manifest = n + 1
  BY CommittedTables, ZenonT(40)
<1>2. /\ manifests'[n+1].session = i /\ manifests'[n+1].project = p
      /\ manifests'[n+1].content = R /\ manifests'[n+1].token = k
  BY <1>1
<1>3. i \in DOMAIN sessions /\ sessions[i].status = "authorized" /\ ~Recorded(k)
  BY DEF Fits
<1>4. /\ \A j \in DOMAIN sessions :
           /\ Its(manifests, j) = (IF sessions[j].status = "committed" THEN {sessions[j].manifest} ELSE {})
           /\ \A m \in Its(manifests, j) : /\ manifests[m].project = sessions[j].project
                                           /\ manifests[m].content = sessions[j].content
      /\ \A x, y \in DOMAIN manifests : manifests[x].token = manifests[y].token => x = y
  BY DEF IInv, SessionUsedOnce
<1> HIDE DEF n
<1>5. Its(manifests', i) = Its(manifests, i) \cup {n + 1}
  BY <1>1, <1>2
<1>6. \A j \in DOMAIN sessions : j # i => Its(manifests', j) = Its(manifests, j)
  BY <1>1, <1>2
<1>7. \A j \in DOMAIN sessions : \A m \in Its(manifests, j) : manifests'[m] = manifests[m]
  BY <1>1
<1> HIDE DEF Its
<1>8. ASSUME NEW j \in DOMAIN sessions'
      PROVE  /\ Its(manifests', j) = (IF sessions'[j].status = "committed" THEN {sessions'[j].manifest} ELSE {})
             /\ \A m \in Its(manifests', j) : /\ manifests'[m].project = sessions'[j].project
                                              /\ manifests'[m].content = sessions'[j].content
  <2>1. CASE j = i
    <3>1. Its(manifests, i) = {}
      BY <1>3, <1>4
    <3> QED
      BY <1>1, <1>2, <1>5, <2>1, <3>1
  <2>2. CASE j # i
    BY <1>1, <1>4, <1>6, <1>7, <2>2
  <2> QED
    BY <2>1, <2>2
<1>9. ASSUME NEW x \in DOMAIN manifests', NEW y \in DOMAIN manifests', manifests'[x].token = manifests'[y].token
      PROVE  x = y
  <2>1. \A m \in 1..n+1 : m \in 1..n \/ m = n + 1
    BY <1>1
  <2>2. \A m \in 1..n : manifests[m].token # k
    BY <1>1, <1>3 DEF Recorded
  <2> QED
    BY <1>1, <1>2, <1>4, <1>9, <2>1, <2>2
<1> QED
  BY <1>8, <1>9 DEF SessionUsedOnce, Its

LEMMA CommitStep ==
  ASSUME IInv, NEW c \in Commits, Commit(c)
  PROVE  IInv'
<1> DEFINE r == committing[c]
           i == r.session
           p == sessions[i].project
           R == r.content
           k == r.token
<1>1. r \in CommitRequest /\ r # Idle /\ i \in DOMAIN sessions
  BY DEF IInv, Shapes, NamedRows, Commit, Idle
<1>2. k \in Tokens /\ R \in Contents /\ p \in Projects /\ r.used \in Nat /\ r.quota \in Nat
  BY <1>1, RowTypes, QuotaTypes DEF CommitRequest, IInv, Shapes
<1>3. UNCHANGED <<now, plan, syncing>> /\ committing' = [committing EXCEPT ![c] = Idle]
  BY DEF Commit
<1>4. CASE UNCHANGED <<manifests, objects, projects, sessions>>
  BY <1>3, <1>4, CommitEnds
<1>5. CASE /\ Committable(sessions[i], R) /\ Projected(r.used, p, R) <= r.quota /\ ~Recorded(k)
           /\ Committed(i, p, R, k)
  <2>1. Fits(i, p, R, k)
    BY <1>1, <1>2, <1>5 DEF Fits, Committable
  <2>2. objects' = Stored(p, R) /\ Shapes /\ ObjectsKept
    BY <1>5 DEF Committed, IInv
  <2> HIDE DEF r, i, p, R, k
  <2>3. /\ manifests' \in Seq(ManifestRow) /\ Len(manifests') = Len(manifests) + 1
        /\ Len(manifests) \in Nat /\ DOMAIN manifests' = 1..Len(manifests)+1 /\ DOMAIN manifests = 1..Len(manifests)
        /\ \A m \in 1..Len(manifests) : manifests'[m] = manifests[m]
        /\ manifests'[Len(manifests)+1] = [session |-> i, project |-> p, content |-> R, token |-> k]
        /\ sessions' \in Seq(SessionRow) /\ DOMAIN sessions' = DOMAIN sessions
        /\ \A j \in DOMAIN sessions : j # i => sessions'[j] = sessions[j]
        /\ sessions'[i].manifest = Len(manifests) + 1
        /\ projects' \in [Projects -> {NoRow} \cup ProjectRow]
    BY <1>5, <2>1, CommittedTables, ZenonT(40)
  <2>4. Shapes'
    <3>1. objects' \in [ObjectKeys -> {NoRow} \cup ObjectRow]
      BY <1>2, <2>2, StoredActive
    <3>2. committing' \in [Commits -> {Idle} \cup CommitRequest]
      BY <1>3 DEF IInv, Shapes
    <3> QED
      BY <1>3, <2>3, <3>1, <3>2 DEF IInv, Shapes
  <2>5. NamedRows'
    <3>1. \A d \in Commits : committing'[d] # Idle => committing'[d] = committing[d]
      BY <1>3 DEF IInv, Shapes
    <3>2. /\ \A j \in DOMAIN sessions : sessions[j].manifest \in 0..Len(manifests)
          /\ \A m \in DOMAIN manifests : manifests[m].session \in DOMAIN sessions
          /\ \A d \in Commits : committing[d] # Idle => committing[d].session \in DOMAIN sessions
      BY DEF IInv, NamedRows
    <3>3. \A j \in DOMAIN sessions' : sessions'[j].manifest \in 0..Len(manifests')
      BY <2>3, <3>2
    <3>4. \A m \in DOMAIN manifests' : manifests'[m].session \in DOMAIN sessions'
      <4>1. manifests'[Len(manifests)+1].session = i
        BY <2>3
      <4>2. \A m \in 1..Len(manifests)+1 : m \in 1..Len(manifests) \/ m = Len(manifests) + 1
        BY <2>3
      <4> QED
        BY <1>1, <2>3, <3>2, <4>1, <4>2
    <3> QED
      BY <2>3, <3>1, <3>2, <3>3, <3>4 DEF NamedRows
  <2>6. RoomLeft'
    <3>1. /\ Used' \in Nat /\ Used' <= Used - Bytes(ActiveOf(p)) + SizeOfContent(R)
      BY <1>2, <2>2, StoredBytes
    <3>2. Bytes(ActiveOf(p)) \in Nat /\ SizeOfContent(R) \in Nat /\ Used \in Nat
      BY <1>2, <2>2, ActiveTypes, ContentTypes
    <3>3. SizeOfContent(R) - Bytes(ActiveOf(p)) <= Slack(r) /\ Slack(r) \in Nat
      BY <1>1, <1>2, <1>5, <3>2, ProjectedFits
    <3>4. Used' <= Used + Slack(committing[c])
      BY <3>1, <3>2, <3>3 DEF r
    <3> QED
      BY <1>3, <2>4, <3>1, <3>4, RoomWhenEnded DEF IInv
  <2>7. ProjectsKept' /\ ObjectsKept' /\ SessionUsedOnce'
    BY <1>3, <1>5, <2>1, CommittedProjects, CommittedObjects, CommittedOnce
  <2> QED
    BY <2>4, <2>5, <2>6, <2>7 DEF IInv
<1> QED
  BY <1>4, <1>5 DEF Commit, Committed

-----------------------------------------------------------------------------
(* The steps of the clock and of the plan, and every step.                 *)

LEMMA RestStep ==
  ASSUME IInv, now' \in 0..MaxTime, plan' \in Plans,
         UNCHANGED <<projects, sessions, manifests, objects, syncing, committing>>
  PROVE  IInv'
<1>1. Shapes'
  BY DEF IInv, Shapes
<1>2. NamedRows' /\ ProjectsKept' /\ ObjectsKept' /\ SessionUsedOnce' /\ RoomLeft'
  BY SameNames, SameProjects, SameObjects, SameSessions, SameRoom DEF IInv
<1> QED
  BY <1>1, <1>2 DEF IInv

LEMMA StepIInv == ASSUME IInv, [Next]_vars PROVE IInv'
<1>1. now \in 0..MaxTime /\ plan \in Plans
  BY DEF IInv, Shapes
<1>2. CASE UNCHANGED vars
  BY <1>1, <1>2, RestStep DEF vars
<1>3. CASE PlanChanges
  BY <1>1, <1>3, RestStep DEF PlanChanges
<1>4. CASE Tick
  <2>1. now' \in 0..MaxTime
    BY <1>1, <1>4, CloudAssumption DEF Tick
  <2> QED
    BY <1>1, <1>4, <2>1, RestStep DEF Tick
<1>5. ASSUME NEW q \in Syncs, NEW p \in Projects, NEW R \in Contents, NEW renames \in BOOLEAN,
             BeginSync(q, p, R, renames)
      PROVE  IInv'
  BY <1>5, BeginSyncStep
<1>6. ASSUME NEW q \in Syncs, SaveProject(q) \/ OpenSession(q) \/ SyncFails(q) PROVE IInv'
  BY <1>6, SaveProjectStep, OpenSessionStep, SyncFailsStep
<1>7. ASSUME NEW c \in Commits, NEW i \in DOMAIN sessions, NEW k \in Tokens, NEW R \in Contents,
             BeginCommit(c, i, k, R)
      PROVE  IInv'
  BY <1>7, BeginCommitStep
<1>8. ASSUME NEW c \in Commits, Commit(c) \/ CommitFails(c) PROVE IInv'
  BY <1>8, CommitStep, CommitFailsStep
<1> QED
  BY <1>2, <1>3, <1>4, <1>5, <1>6, <1>7, <1>8 DEF Next

-----------------------------------------------------------------------------
(* What the inductive invariant says of the properties.                    *)

\* A sequence is one of what its elements are.
LEMMA SeqOf ==
  ASSUME NEW S, NEW s \in Seq(S), NEW T, \A i \in DOMAIN s : s[i] \in T
  PROVE  s \in Seq(T)
<1>1. Len(s) \in Nat /\ DOMAIN s = 1..Len(s) /\ s \in [1..Len(s) -> S]
  BY LenProperties
<1>2. s \in [1..Len(s) -> T]
  BY <1>1
<1> QED
  BY <1>1, <1>2, SeqDef

LEMMA Typed == ASSUME IInv PROVE TypeOK
<1>1. Len(manifests) \in Nat /\ manifests \in Seq(ManifestRow) /\ sessions \in Seq(SessionRow)
  BY RowTypes DEF IInv, Shapes
<1>2. projects \in [Projects -> {NoRow} \cup [status : {"active"}, last : 0..Len(manifests)]]
  <2>1. ASSUME NEW p \in Projects, projects[p] # NoRow
        PROVE  projects[p] \in [status : {"active"}, last : 0..Len(manifests)]
    <3>1. projects[p] \in ProjectRow /\ projects[p].last \in Nat
      BY <2>1 DEF IInv, Shapes, ProjectRow
    <3>2. projects[p].last # 0 => projects[p].last \in 1..Len(manifests)
      BY <2>1, RowTypes DEF IInv, ProjectsKept, Names
    <3>3. projects[p].last \in 0..Len(manifests)
      BY <1>1, <3>1, <3>2
    <3> QED
      BY <3>1, <3>3 DEF ProjectRow
  <2> QED
    BY <2>1 DEF IInv, Shapes
<1>3. sessions \in Seq([project : Projects, content : Contents, expires : 0..(MaxTime + SessionTTL),
                        status : {"authorized", "committed"}, manifest : 0..Len(manifests)])
  <2> DEFINE Row == [project : Projects, content : Contents, expires : 0..(MaxTime + SessionTTL),
                     status : {"authorized", "committed"}, manifest : 0..Len(manifests)]
  <2>1. \A i \in DOMAIN sessions : sessions[i] \in SessionRow /\ sessions[i].manifest \in 0..Len(manifests)
    BY RowTypes DEF IInv, NamedRows
  <2>2. \A x \in SessionRow : x.manifest \in 0..Len(manifests) => x \in Row
    BY DEF SessionRow
  <2> HIDE DEF Row
  <2>3. \A i \in DOMAIN sessions : sessions[i] \in Row
    BY <2>1, <2>2
  <2>4. sessions \in Seq(Row)
    BY <1>1, <2>3, SeqOf
  <2> QED
    BY <2>4 DEF Row
<1>4. manifests \in Seq([session : DOMAIN sessions, project : Projects, content : Contents, token : Tokens])
  <2> DEFINE Row == [session : DOMAIN sessions, project : Projects, content : Contents, token : Tokens]
  <2>1. \A m \in DOMAIN manifests : manifests[m] \in ManifestRow /\ manifests[m].session \in DOMAIN sessions
    BY RowTypes DEF IInv, NamedRows
  <2>2. \A x \in ManifestRow : x.session \in DOMAIN sessions => x \in Row
    BY DEF ManifestRow
  <2> HIDE DEF Row
  <2>3. \A m \in DOMAIN manifests : manifests[m] \in Row
    BY <2>1, <2>2
  <2>4. manifests \in Seq(Row)
    BY <1>1, <2>3, SeqOf
  <2> QED
    BY <2>4 DEF Row
<1>5. /\ \A q \in Syncs : syncing[q].pc \in {"idle", "save", "open"}
      /\ \A c \in Commits : committing[c].pc \in {"idle", "commit"}
  BY DEF IInv, Shapes, SyncRequest, CommitRequest, Idle
<1> QED
  BY <1>2, <1>3, <1>4, <1>5 DEF TypeOK, IInv, Shapes, ObjectRow

\* What the commits under way can still add is not less than nothing.
LEMMA Bounded == ASSUME IInv PROVE QuotaOverrun
<1>1. Used \in Nat
  BY ActiveTypes DEF IInv
<1>2. Slacks \in Nat
  <2>1. \A c \in Commits : Reads(committing[c])
    BY DEF IInv, Shapes, CommitRequest, Reads
  <2>2. SumFunctionOnSet(SlackOf(committing), Commits) \in Nat
    BY <2>1, SlackTypes DEF IInv, Shapes
  <2> QED
    BY <2>2 DEF Slacks, SlackOf
<1>3. Cardinality(Commits) * TopQuota \in Nat
  BY CloudAssumption, FS_CardinalityType, QuotaTypes DEF IInv, Shapes
<1>4. Used <= Cardinality(Commits) * TopQuota
  BY <1>1, <1>2, <1>3 DEF IInv, RoomLeft
<1> QED
  BY <1>4 DEF QuotaOverrun, TopQuota, Quotas

\* A project without a row has no manifest, and one with a row has one newest.
LEMMA NewestTypes ==
  ASSUME IInv, NEW p \in Projects
  PROVE  /\ \A m \in Newest(p) : m \in DOMAIN manifests /\ manifests[m].project = p
         /\ \A m, n \in Newest(p) : m = n
         /\ projects[p] = NoRow => Newest(p) = {}
<1>1. Len(manifests) \in Nat /\ DOMAIN manifests = 1..Len(manifests)
  BY RowTypes DEF IInv
<1>2. \A m \in Newest(p) : m \in DOMAIN manifests /\ manifests[m].project = p
  BY DEF Newest
<1>3. ASSUME NEW m \in Newest(p), NEW n \in Newest(p) PROVE m = n
  <2>1. m \in 1..Len(manifests) /\ n \in 1..Len(manifests)
    BY <1>1, <1>2
  <2>2. n \notin m+1..Len(manifests) /\ m \notin n+1..Len(manifests)
    BY <1>2 DEF Newest
  <2> QED
    BY <1>1, <2>1, <2>2
<1>4. projects[p] = NoRow => Newest(p) = {}
  BY <1>2 DEF IInv, ProjectsKept
<1> QED
  BY <1>2, <1>3, <1>4

LEMMA NewestShown == ASSUME IInv PROVE ObjectsAreNewest
<1>1. SUFFICES ASSUME NEW p \in Projects
               PROVE  Restorable(p) = UNION {Paths(p, manifests[m].content) : m \in Newest(p)}
  BY DEF ObjectsAreNewest
<1>2. ActiveOf(p) = UNION {Paths(p, manifests[m].content) : m \in Newest(p)}
  BY DEF IInv, ObjectsKept
<1>3. projects[p] = NoRow => Newest(p) = {}
  BY NewestTypes
<1> QED
  BY <1>2, <1>3 DEF Restorable

\* The manifest that is answered with the objects is the one on the
\* administrators' page.
LEMMA ManifestShown ==
  ASSUME IInv, NEW p \in AdminProjects
  PROVE  /\ LatestManifest(p) = AdminManifest(p)
         /\ ListedManifest(p) # 0 => ListedManifest(p) = AdminManifest(p)
<1> DEFINE last == projects[p].last
           named == {m \in DOMAIN manifests : projects[p] # NoRow /\ m = last /\ manifests[m].project = p}
<1>1. p \in Projects /\ projects[p] # NoRow /\ last \in Nat
  BY DEF AdminProjects, IInv, Shapes, ProjectRow
<1>2. Len(manifests) \in Nat /\ DOMAIN manifests = 1..Len(manifests)
  BY RowTypes DEF IInv
<1>3. AdminManifest(p) = Max({0} \cup IF named # {} THEN named ELSE Newest(p))
  BY DEF AdminManifest
<1>4. LatestManifest(p) = IF last # 0 THEN last
                          ELSE IF Newest(p) = {} THEN 0 ELSE CHOOSE m \in Newest(p) : TRUE
  BY <1>1 DEF LatestManifest
<1>5. ListedManifest(p) = last
  BY <1>1 DEF ListedManifest
<1>6. last # 0 => named = {last}
  BY <1>1 DEF IInv, ProjectsKept, Names
<1>7. last = 0 => named = {}
  BY <1>2
<1> HIDE DEF last, named
<1>8. ASSUME NEW n \in Nat PROVE Max({0} \cup {n}) = n
  <2>1. IsFiniteSet({0} \cup {n}) /\ {0} \cup {n} # {} /\ {0} \cup {n} \subseteq Nat
    <3>1. IsFiniteSet({0}) /\ IsFiniteSet({n})
      BY FS_Singleton
    <3>2. IsFiniteSet({0} \cup {n})
      BY <3>1, FS_Union
    <3> QED
      BY <3>2
  <2>2. /\ Max({0} \cup {n}) \in {0} \cup {n}
        /\ \A x \in {0} \cup {n} : x <= Max({0} \cup {n})
    BY <2>1, MaxOfFinite
  <2> QED
    BY <2>2
<1>9. Max({0}) = 0
  <2>1. {0} \cup {0} = {0}
    OBVIOUS
  <2> QED
    BY <1>8, <2>1
<1>10. CASE last # 0
  BY <1>1, <1>3, <1>4, <1>5, <1>6, <1>8, <1>10
<1>11. CASE last = 0 /\ Newest(p) = {}
  BY <1>3, <1>4, <1>5, <1>7, <1>9, <1>11
<1>12. CASE last = 0 /\ Newest(p) # {}
  <2>1. PICK m \in Newest(p) : TRUE
    BY <1>12
  <2>2. Newest(p) = {m} /\ m \in Nat
    BY <1>1, <1>2, <2>1, NewestTypes
  <2>3. AdminManifest(p) = Max({0} \cup {m})
    BY <1>3, <1>7, <1>12, <2>2
  <2>4. LatestManifest(p) = m
    BY <1>4, <1>12, <2>2
  <2> QED
    BY <1>5, <1>8, <1>12, <2>2, <2>3, <2>4
<1> QED
  BY <1>10, <1>11, <1>12

\* The active objects of a project are no more than its newest manifest lists.
LEMMA CountShown ==
  ASSUME IInv, NEW p \in Projects
  PROVE  Cardinality(ActiveOf(p)) <= Cardinality(UNION {manifests[m].content : m \in Newest(p)})
<1>1. ActiveOf(p) = UNION {Paths(p, manifests[m].content) : m \in Newest(p)}
  BY DEF IInv, ObjectsKept
<1>2. CASE Newest(p) = {}
  <2>1. ActiveOf(p) = {} /\ UNION {manifests[m].content : m \in Newest(p)} = {}
    BY <1>1, <1>2
  <2>2. Cardinality({}) = 0
    BY FS_EmptySet
  <2> QED
    BY <2>1, <2>2
<1>3. CASE Newest(p) # {}
  <2>1. PICK m \in Newest(p) : Newest(p) = {m}
    BY <1>3, NewestTypes
  <2>2. manifests[m].content \in Contents
    BY RowTypes, NewestTypes DEF IInv
  <2>3. /\ ActiveOf(p) = Paths(p, manifests[m].content)
        /\ UNION {manifests[x].content : x \in Newest(p)} = manifests[m].content
    BY <1>1, <2>1
  <2> QED
    BY <2>2, <2>3, ContentTypes
<1> QED
  BY <1>2, <1>3

\* Every active object is one of a project that is shown, and of no other.
LEMMA BytesShown ==
  ASSUME IInv
  PROVE  Used = SumFunction([p \in DOMAIN UserProjects |-> UserProjects[p].objects.bytes])
<1> DEFINE Q == AdminProjects
           own == [o \in ObjectKeys |-> objects[o].project]
           f == [o \in AllActive |-> objects[o].size]
           g == [p \in Q |-> Bytes(ActiveOf(p))]
<1>1. IsFiniteSet(AllActive) /\ IsFiniteSet(Q) /\ AllActive \subseteq ObjectKeys
  BY DEF IInv, ObjectsKept, AllActive
<1>2. \A o \in AllActive : /\ f[o] = objects[o].size /\ f[o] \in Int
                           /\ own[o] = objects[o].project /\ objects[o].project \in Projects
  BY ObjectTypes DEF AllActive, IInv
<1>3. \A p \in Projects : Group(own, AllActive, p) = ActiveOf(p)
  BY DEF Group, AllActive, ActiveOf
<1>4. \A o \in AllActive : objects[o].project \in Q
  <2>1. SUFFICES ASSUME NEW o \in AllActive, NEW p \in Projects,
                        p = objects[o].project, projects[p] = NoRow
                 PROVE  FALSE
    BY <1>2 DEF AdminProjects
  <2>2. o \in ActiveOf(p)
    BY <2>1 DEF AllActive, ActiveOf
  <2>3. Newest(p) = {}
    BY <2>1, NewestTypes
  <2>4. ActiveOf(p) = UNION {Paths(p, manifests[m].content) : m \in Newest(p)}
    BY DEF IInv, ObjectsKept
  <2> QED
    BY <2>2, <2>3, <2>4
<1>5. GroupOf(own, AllActive, Q) = AllActive
  BY <1>2, <1>4 DEF GroupOf
<1>6. [p \in DOMAIN UserProjects |-> UserProjects[p].objects.bytes] = g
  BY DEF UserProjects, ObjectStats
<1>7. DOMAIN g = Q /\ \A p \in Q : g[p] = Bytes(ActiveOf(p))
  OBVIOUS
<1>8. Used = SumFunctionOnSet(f, AllActive)
  BY ActiveTypes DEF IInv, Bytes
<1>9. ASSUME NEW p \in Q PROVE g[p] = SumFunctionOnSet(f, Group(own, AllActive, p))
  <2> DEFINE h == [o \in ActiveOf(p) |-> objects[o].size]
  <2>1. p \in Projects /\ ActiveOf(p) \in SUBSET AllActive
    BY ActiveTypes DEF AdminProjects, IInv
  <2>2. IsFiniteSet(ActiveOf(p)) /\ \A o \in ActiveOf(p) : f[o] \in Int /\ h[o] = f[o]
    BY <1>1, <1>2, <2>1, FS_Subset
  <2>3. Bytes(ActiveOf(p)) = SumFunctionOnSet(h, ActiveOf(p))
    BY DEF Bytes
  <2> HIDE DEF f, g, h, own, Q
  <2>4. SumFunctionOnSet(h, ActiveOf(p)) = SumFunctionOnSet(f, ActiveOf(p))
    BY <2>2, SetSumCong
  <2> QED
    BY <1>3, <1>7, <2>1, <2>3, <2>4
<1> HIDE DEF f, g, own, Q
<1>10. SumFunctionOnSet(g, Q) = SumFunctionOnSet(f, GroupOf(own, AllActive, Q))
  <2>1. \A o \in AllActive : f[o] \in Int
    BY <1>2
  <2>2. \A p \in Q : g[p] = SumFunctionOnSet(f, Group(own, AllActive, p))
    BY <1>9
  <2> QED
    BY <1>1, <2>1, <2>2, SetSumGrouped
<1>11. SumFunction(g) = SumFunctionOnSet(g, Q)
  BY <1>7 DEF SumFunction
<1> QED
  BY <1>5, <1>6, <1>8, <1>10, <1>11

LEMMA PagesShown == ASSUME IInv PROVE PagesAgree
<1>1. \A p \in Projects : Answered(Restorable(p)) = Answered(Downloadable(p))
  <2>1. \A p \in Projects : Restorable(p) = Downloadable(p)
    BY DEF Restorable, Downloadable, ProjectFor, ActiveOf
  <2> QED
    BY <2>1
<1>2. ASSUME NEW p \in DOMAIN UserProjects
      PROVE  /\ LatestManifest(p) = UserProjects[p].manifest
             /\ ListedManifest(p) # 0 => ListedManifest(p) = UserProjects[p].manifest
             /\ UserProjects[p].objects.count <= Cardinality(UNION {manifests[m].content : m \in Newest(p)})
  <2>1. p \in AdminProjects /\ p \in Projects
    BY DEF UserProjects, AdminProjects
  <2>2. UserProjects[p].manifest = AdminManifest(p) /\ UserProjects[p].objects.count = Cardinality(ActiveOf(p))
    BY <2>1 DEF UserProjects, ObjectStats
  <2> QED
    BY <2>1, <2>2, ManifestShown, CountShown
<1>3. AdminUser.used = SumFunction([p \in DOMAIN UserProjects |-> UserProjects[p].objects.bytes])
  BY BytesShown DEF AdminUser
<1>4. AdminUser.active = AdminUser.projects
  <2>1. {p \in AdminProjects : projects[p].status = "active"} = AdminProjects
    BY DEF AdminProjects, IInv, Shapes, ProjectRow
  <2> QED
    BY <2>1 DEF AdminUser
<1>5. Usage.over = AdminUser.over /\ (AdminUser.over => Usage.remaining = 0)
  <2>1. Used \in Nat /\ Quota \in Nat
    BY ActiveTypes, QuotaTypes DEF IInv, Shapes
  <2>2. Usage.over = (Used > Quota) /\ Usage.remaining = Larger(Quota - Used, 0)
    BY DEF Usage, UsageFor
  <2>3. AdminUser.over = (Used > Quota \/ (~(Quota > 0) /\ Used > 0))
    BY DEF AdminUser, Over, UsageFor, Entitled
  <2>4. (Used > Quota \/ (~(Quota > 0) /\ Used > 0)) = (Used > Quota)
    BY <2>1
  <2>5. Used > Quota => Larger(Quota - Used, 0) = 0
    BY <2>1 DEF Larger
  <2> QED
    BY <2>2, <2>3, <2>4, <2>5
<1> QED
  BY <1>1, <1>2, <1>3, <1>4, <1>5 DEF PagesAgree

-----------------------------------------------------------------------------
(* The theorems.                                                           *)

\* Every variable has its type at every moment: no project row and no session
\* names a manifest that is not there, no manifest a session that is not, and
\* no session is saved as expired.
THEOREM TypeCorrect == Spec => []TypeOK
<1>1. Spec => []IInv
  BY InitIInv, StepIInv, PTL DEF Spec
<1>2. IInv => TypeOK
  BY Typed
<1> QED
  BY <1>1, <1>2, PTL

\* A commit is all there or not there at all, however commits overlap and
\* whatever fails: a session is used up by its one manifest, a token stands for
\* one, and what is restored, listed, counted and billed of a project is what
\* its newest manifest holds, on the client's pages and the administrators'.
THEOREM WholeCommits == Spec => []CommitsAreWhole
<1>1. Spec => []IInv
  BY InitIInv, StepIInv, PTL DEF Spec
<1>2. IInv => CommitsAreWhole
  BY NewestShown, PagesShown DEF CommitsAreWhole, IInv
<1> QED
  BY <1>1, <1>2, PTL

\* The quota that a commit checks is compared with a count it read before its
\* transaction: with n commits under way at most, what is used is at most n
\* times the largest quota, whatever plans change and whichever of them fail.
THEOREM OverrunBounded == Spec => []QuotaOverrun
<1>1. Spec => []IInv
  BY InitIInv, StepIInv, PTL DEF Spec
<1>2. IInv => QuotaOverrun
  BY Bounded
<1> QED
  BY <1>1, <1>2, PTL
=============================================================================
