----------------------------- MODULE FiniteSums -----------------------------
(***************************************************************************)
(* Induction over finite sets, with a set of sets in place of the          *)
(* predicate: what holds of {} and goes on to hold when an element is      *)
(* added holds of every finite set. By it, sums.                           *)
(***************************************************************************)
EXTENDS Integers, Functions, FiniteSets, FiniteSetTheorems, WellFoundedInduction, TLAPS

LEMMA LeastNat ==
  ASSUME NEW T, T \subseteq Nat, T # {}
  PROVE  \E x \in T : \A y \in T : x <= y
<1>1. \E x \in T : \A y \in T : ~(<<y, x>> \in OpToRel(<, Nat))
  BY NatLessThanWellFounded, WFMin, Zenon
<1>2. ASSUME NEW x \in T, NEW y \in T, ~(<<y, x>> \in OpToRel(<, Nat))
      PROVE  ~(y < x)
  <2>1. <<y, x>> \in Nat \X Nat
    OBVIOUS
  <2>2. y < x => <<y, x>> \in OpToRel(<, Nat)
    BY <2>1 DEF OpToRel
  <2> QED BY <1>2, <2>2, Zenon
<1>3. PICK x \in T : \A y \in T : ~(y < x)
  BY <1>1, <1>2, Zenon
<1> QED BY <1>3

LEMMA SmallestSet ==
  ASSUME NEW S, IsFiniteSet(S), NEW Bad, Bad \subseteq SUBSET S, Bad # {}
  PROVE  \E U \in Bad : \A x \in U : U \ {x} \notin Bad
<1> DEFINE Sizes == {Cardinality(U) : U \in Bad}
<1>1. \A U \in Bad : IsFiniteSet(U) /\ Cardinality(U) \in Nat
  BY FS_Subset, FS_CardinalityType
<1>2. Sizes \subseteq Nat /\ Sizes # {}
  BY <1>1
<1>3. PICK U \in Bad : \A V \in Bad : Cardinality(U) <= Cardinality(V)
  <2> HIDE DEF Sizes
  <2>1. PICK n \in Sizes : \A m \in Sizes : n <= m
    BY <1>2, LeastNat
  <2> QED BY <2>1 DEF Sizes
<1>4. ASSUME NEW x \in U, U \ {x} \in Bad PROVE FALSE
  <2>1. Cardinality(U \ {x}) = Cardinality(U) - 1
    BY <1>1, <1>4, FS_RemoveElement
  <2>2. Cardinality(U) <= Cardinality(U \ {x}) /\ Cardinality(U) \in Nat
    BY <1>1, <1>3, <1>4
  <2> QED BY <2>1, <2>2
<1> QED BY <1>3, <1>4

LEMMA FiniteInduction ==
  ASSUME NEW S, IsFiniteSet(S), NEW Good, {} \in Good,
         \A U \in SUBSET S : U \in Good => \A x \in S \ U : U \cup {x} \in Good
  PROVE  S \in Good
<1> SUFFICES ASSUME S \notin Good PROVE FALSE
  OBVIOUS
<1> DEFINE Bad == {U \in SUBSET S : U \notin Good}
<1>1. PICK U \in Bad : \A x \in U : U \ {x} \notin Bad
  BY SmallestSet
<1>2. PICK x \in U : TRUE
  OBVIOUS
<1>3. (U \ {x}) \cup {x} = U /\ x \in S \ (U \ {x}) /\ U \ {x} \in SUBSET S
  BY <1>2
<1> QED BY <1>1, <1>2, <1>3

-----------------------------------------------------------------------------
(* Sums over finite sets: F is the sum of h on every subset of D.          *)

IsSum(F, D, h) ==
  /\ F \in [SUBSET D -> Int] /\ F[{}] = 0
  /\ \A S \in SUBSET D : \A x \in S : F[S] = h[x] + F[S \ {x}]

LEMMA SumExists ==
  ASSUME NEW D, IsFiniteSet(D), NEW h, \A x \in D : h[x] \in Int
  PROVE  \E F : IsSum(F, D, h)
<1> DEFINE Good == {U \in SUBSET D : \E F : IsSum(F, U, h)}
<1>1. {} \in Good
  <2> DEFINE F == [S \in SUBSET {} |-> 0]
  <2>1. IsSum(F, {}, h)
    BY DEF IsSum
  <2> HIDE DEF F
  <2> QED BY <2>1
<1>2. ASSUME NEW U \in SUBSET D, U \in Good, NEW x \in D \ U
      PROVE  U \cup {x} \in Good
  <2>1. PICK F : IsSum(F, U, h)
    BY <1>2
  <2> DEFINE G == [S \in SUBSET (U \cup {x}) |-> IF x \in S THEN h[x] + F[S \ {x}] ELSE F[S]]
  <2>2. \A S \in SUBSET (U \cup {x}) : S \ {x} \in SUBSET U /\ (x \notin S => S \in SUBSET U)
    OBVIOUS
  <2>3. /\ F \in [SUBSET U -> Int] /\ F[{}] = 0 /\ h[x] \in Int
        /\ \A S \in SUBSET U : F[S] \in Int
        /\ \A S \in SUBSET U : \A y \in S : F[S] = h[y] + F[S \ {y}]
    BY <2>1 DEF IsSum
  <2>4. G \in [SUBSET (U \cup {x}) -> Int] /\ G[{}] = 0
    BY <2>2, <2>3
  <2>5. ASSUME NEW S \in SUBSET (U \cup {x}), NEW y \in S
        PROVE  G[S] = h[y] + G[S \ {y}]
    <3>1. /\ G[S] = IF x \in S THEN h[x] + F[S \ {x}] ELSE F[S]
          /\ G[S \ {y}] = IF x \in S \ {y} THEN h[x] + F[(S \ {y}) \ {x}] ELSE F[S \ {y}]
      OBVIOUS
    <3> HIDE DEF G
    <3>2. CASE x \notin S
      BY <2>2, <2>3, <3>1, <3>2
    <3>3. CASE y = x
      BY <2>2, <2>3, <3>1, <3>3
    <3>4. CASE x \in S /\ y # x
      <4>1. S \ {x} \in SUBSET U /\ y \in S \ {x} /\ (S \ {x}) \ {y} \in SUBSET U
        BY <3>4
      <4>2. F[S \ {x}] = h[y] + F[(S \ {x}) \ {y}]
        BY <2>3, <4>1
      <4>3. (S \ {y}) \ {x} = (S \ {x}) \ {y}
        OBVIOUS
      <4>4. h[y] \in Int /\ h[x] \in Int /\ F[(S \ {x}) \ {y}] \in Int
        BY <2>3, <4>1
      <4>5. G[S] = h[x] + (h[y] + F[(S \ {x}) \ {y}])
        BY <3>1, <3>4, <4>2
      <4>6. G[S \ {y}] = h[x] + F[(S \ {x}) \ {y}]
        BY <3>1, <3>4, <4>3
      <4> QED BY <4>4, <4>5, <4>6
    <3> QED BY <3>2, <3>3, <3>4
  <2>6. IsSum(G, U \cup {x}, h)
    <3> HIDE DEF G
    <3> QED BY <2>4, <2>5 DEF IsSum
  <2> HIDE DEF G
  <2> QED BY <2>6
<1>3. D \in Good
  <2> HIDE DEF Good
  <2> QED BY <1>1, <1>2, FiniteInduction
<1> QED BY <1>3

\* The library sums along a choice of elements, which makes no difference.
LEMMA SumIs ==
  ASSUME NEW D, IsFiniteSet(D), NEW h, NEW F, IsSum(F, D, h),
         NEW S \in SUBSET D, NEW f, DOMAIN f = S, \A x \in S : f[x] = h[x]
  PROVE  SumFunction(f) = F[S]
<1> DEFINE rest(s) == s \ {CHOOSE x \in s : TRUE}
           Steps(i) == i = [s \in SUBSET S |-> IF s = {} THEN 0
                                               ELSE f[CHOOSE x \in s : TRUE] + i[rest(s)]]
           iter == CHOOSE i : Steps(i)
<1>1. SumFunction(f) = iter[S]
  BY Zenon DEF SumFunction, SumFunctionOnSet, FoldFunctionOnSet, MapThenFoldSet
<1>2. \A s \in SUBSET S : s # {} =>
        (CHOOSE x \in s : TRUE) \in s /\ rest(s) \in SUBSET S
  OBVIOUS
<1>3. Steps([s \in SUBSET S |-> F[s]])
  <2>1. ASSUME NEW s \in SUBSET S, s # {}
        PROVE  F[s] = f[CHOOSE x \in s : TRUE] + F[rest(s)]
    <3> DEFINE x == CHOOSE x \in s : TRUE
    <3>1. x \in s /\ s \in SUBSET D
      BY <2>1
    <3> HIDE DEF x
    <3>2. F[s] = h[x] + F[s \ {x}] /\ f[x] = h[x]
      BY <3>1 DEF IsSum
    <3> QED BY <3>2 DEF x
  <2>2. F[{}] = 0
    BY DEF IsSum
  <2> QED BY <1>2, <2>1, <2>2
<1>4. Steps(iter)
  BY <1>3, Zenon
<1>5. ASSUME NEW s \in SUBSET S PROVE iter[s] = F[s]
  <2> DEFINE Bad == {u \in SUBSET S : iter[u] # F[u]}
  <2> SUFFICES ASSUME Bad # {} PROVE FALSE
    OBVIOUS
  <2> HIDE DEF iter
  <2>1. IsFiniteSet(S)
    BY FS_Subset
  <2>2. PICK u \in Bad : \A x \in u : u \ {x} \notin Bad
    <3> HIDE DEF Bad
    <3> QED BY <2>1, SmallestSet DEF Bad
  <2>3. iter[u] = IF u = {} THEN 0 ELSE f[CHOOSE x \in u : TRUE] + iter[rest(u)]
    BY <1>4
  <2>4. F[u] = IF u = {} THEN 0 ELSE f[CHOOSE x \in u : TRUE] + F[rest(u)]
    BY <1>3
  <2>5. u # {} => iter[rest(u)] = F[rest(u)]
    BY <1>2, <2>2
  <2> QED BY <2>2, <2>3, <2>4, <2>5
<1> HIDE DEF iter
<1> QED BY <1>1, <1>5

LEMMA SumStep ==
  ASSUME NEW D, NEW h, NEW F, IsSum(F, D, h), NEW U \in SUBSET D, NEW V \in SUBSET D,
         NEW x \in V, V \ {x} = U
  PROVE  F[V] = h[x] + F[U]
BY DEF IsSum

LEMMA SumSplits ==
  ASSUME NEW D, IsFiniteSet(D), NEW h, \A x \in D : h[x] \in Int, NEW F, IsSum(F, D, h),
         NEW S \in SUBSET D, NEW T \in SUBSET D, S \cap T = {}
  PROVE  F[S \cup T] = F[S] + F[T]
<1> DEFINE Good == {U \in SUBSET T : F[S \cup U] = F[S] + F[U]}
<1>0. F \in [SUBSET D -> Int] /\ F[{}] = 0 /\ IsFiniteSet(T) /\ F[S] \in Int
  BY FS_Subset DEF IsSum
<1>1. {} \in Good
  <2>1. S \cup {} = S
    OBVIOUS
  <2> QED BY <1>0, <2>1
<1>2. ASSUME NEW U \in SUBSET T, U \in Good, NEW x \in T \ U
      PROVE  U \cup {x} \in Good
  <2>1. /\ S \cup (U \cup {x}) \in SUBSET D /\ U \cup {x} \in SUBSET D
        /\ x \in S \cup (U \cup {x}) /\ x \in U \cup {x}
    OBVIOUS
  <2>2. (S \cup (U \cup {x})) \ {x} = S \cup U /\ (U \cup {x}) \ {x} = U
    BY <1>2
  <2>3. F[S \cup (U \cup {x})] = h[x] + F[S \cup U] /\ F[U \cup {x}] = h[x] + F[U]
    <3>1. S \cup U \in SUBSET D /\ U \in SUBSET D
      OBVIOUS
    <3> QED BY <2>1, <2>2, <3>1, SumStep
  <2>4. F[U] \in Int /\ h[x] \in Int
    BY <1>0
  <2>5. F[S \cup U] = F[S] + F[U]
    BY <1>2
  <2>6. F[S \cup (U \cup {x})] = F[S] + F[U \cup {x}]
    BY <1>0, <2>3, <2>4, <2>5
  <2> QED BY <2>6
<1>3. T \in Good
  <2> HIDE DEF Good
  <2> QED BY <1>0, <1>1, <1>2, FiniteInduction
<1> QED BY <1>3

LEMMA SumGrows ==
  ASSUME NEW D, IsFiniteSet(D), NEW h, \A x \in D : h[x] \in Nat, NEW F, IsSum(F, D, h),
         NEW S \in SUBSET D, NEW T \in SUBSET D, S \subseteq T
  PROVE  F[S] <= F[T]
<1> DEFINE Good == {U \in SUBSET D : F[U] \in Nat}
<1>1. {} \in Good
  BY DEF IsSum
<1>2. ASSUME NEW U \in SUBSET D, U \in Good, NEW x \in D \ U
      PROVE  U \cup {x} \in Good
  <2>1. U \cup {x} \in SUBSET D /\ x \in U \cup {x} /\ (U \cup {x}) \ {x} = U
    BY <1>2
  <2>2. F[U \cup {x}] = h[x] + F[U]
    BY <2>1 DEF IsSum
  <2>3. F[U] \in Nat /\ h[x] \in Nat
    BY <1>2
  <2> QED BY <2>1, <2>2, <2>3
<1>3. \A U \in SUBSET D : F[U] \in Nat
  <2> SUFFICES ASSUME NEW U \in SUBSET D PROVE U \in Good
    OBVIOUS
  <2>1. IsFiniteSet(U)
    BY FS_Subset
  <2> HIDE DEF Good
  <2> QED BY <1>1, <1>2, <2>1, FiniteInduction
<1>4. T = S \cup (T \ S) /\ T \ S \in SUBSET D /\ S \cap (T \ S) = {}
  OBVIOUS
<1>5. F[T] = F[S] + F[T \ S]
  <2>1. \A x \in D : h[x] \in Int
    OBVIOUS
  <2> QED BY <1>4, <2>1, SumSplits
<1>6. F[S] \in Nat /\ F[T \ S] \in Nat
  BY <1>3, <1>4
<1> QED BY <1>5, <1>6

LEMMA SumBounds ==
  ASSUME NEW D, IsFiniteSet(D), NEW h, NEW F, IsSum(F, D, h), NEW low \in Nat, NEW high \in Nat,
         \A x \in D : h[x] \in low..high, NEW S \in SUBSET D
  PROVE  low * Cardinality(S) <= F[S] /\ F[S] <= high * Cardinality(S)
<1> DEFINE Within == {U \in SUBSET S : low * Cardinality(U) <= F[U] /\ F[U] <= high * Cardinality(U)}
<1>0. IsFiniteSet(S) /\ F \in [SUBSET D -> Int] /\ F[{}] = 0
  BY FS_Subset DEF IsSum
<1>1. {} \in Within
  BY <1>0, FS_EmptySet
<1>2. ASSUME NEW U \in SUBSET S, U \in Within, NEW x \in S \ U
      PROVE  U \cup {x} \in Within
  <2>1. IsFiniteSet(U) /\ Cardinality(U) \in Nat
    BY <1>0, FS_Subset, FS_CardinalityType
  <2>2. Cardinality(U \cup {x}) = Cardinality(U) + 1
    BY <2>1, FS_AddElement
  <2>3. F[U \cup {x}] = h[x] + F[U]
    <3>1. U \cup {x} \in SUBSET D /\ U \in SUBSET D /\ (U \cup {x}) \ {x} = U
      OBVIOUS
    <3> QED BY <3>1, SumStep
  <2>4. h[x] \in Int /\ low <= h[x] /\ h[x] <= high /\ F[U] \in Int
    BY <1>0
  <2>5. low * Cardinality(U) <= F[U] /\ F[U] <= high * Cardinality(U)
    BY <1>2
  <2>6. /\ low * (Cardinality(U) + 1) = low * Cardinality(U) + low
        /\ high * (Cardinality(U) + 1) = high * Cardinality(U) + high
    BY <2>1
  <2>7. low * Cardinality(U) \in Nat /\ high * Cardinality(U) \in Nat
    BY <2>1
  <2>8. /\ low * Cardinality(U) + low <= h[x] + F[U]
        /\ h[x] + F[U] <= high * Cardinality(U) + high
    <3> DEFINE a == low * Cardinality(U)
               b == high * Cardinality(U)
    <3>1. a \in Nat /\ b \in Nat /\ a <= F[U] /\ F[U] <= b
      BY <2>5, <2>7
    <3> HIDE DEF a, b
    <3>2. a + low <= h[x] + F[U] /\ h[x] + F[U] <= b + high
      BY <2>4, <3>1
    <3> QED BY <3>2 DEF a, b
  <2> QED BY <2>2, <2>3, <2>6, <2>8
<1>3. S \in Within
  <2> HIDE DEF Within
  <2> QED BY <1>0, <1>1, <1>2, FiniteInduction
<1> QED BY <1>3

\* A sum lies between the least and the greatest a term can be.
LEMMA SumWithin ==
  ASSUME NEW f, IsFiniteSet(DOMAIN f), NEW low \in Nat, NEW high \in Nat,
         \A x \in DOMAIN f : f[x] \in low..high
  PROVE  /\ SumFunction(f) \in Int
         /\ low * Cardinality(DOMAIN f) <= SumFunction(f)
         /\ SumFunction(f) <= high * Cardinality(DOMAIN f)
<1>1. \A x \in DOMAIN f : f[x] \in Int
  OBVIOUS
<1>2. PICK F : IsSum(F, DOMAIN f, f)
  BY <1>1, SumExists
<1>3. SumFunction(f) = F[DOMAIN f]
  BY <1>2, SumIs
<1>4. F[DOMAIN f] \in Int
  BY <1>2 DEF IsSum
<1> QED BY <1>2, <1>3, <1>4, SumBounds
=============================================================================
