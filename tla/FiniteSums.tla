------------------------------ MODULE FiniteSums ------------------------------
(***************************************************************************)
(* What the proofs need to know of sums over finite sets.  MapThenSumSet   *)
(* takes the addends as an operator, which no theorem can be instantiated  *)
(* with; here they are a function, and a sum of the model is brought into  *)
(* this form where it is used (SumIsUnique).  Inductions run over sets of  *)
(* counterexamples: a non-empty one has a smallest member.                 *)
(***************************************************************************)
EXTENDS Integers, FiniteSetsExt, FiniteSetTheorems, WellFoundedInduction, TLAPS

Some(s) == CHOOSE x \in s : TRUE

(* The function that MapThenSumSet defines by recursion.                   *)
IsSum(g, f, S) ==
    g = [s \in SUBSET S |-> IF s = {} THEN 0 ELSE f[Some(s)] + g[s \ {Some(s)}]]
SumOf(f, S) == (CHOOSE g : IsSum(g, f, S))[S]

LEMMA SomeIsMember == \A s : s # {} => Some(s) \in s
BY DEF Some

(* Induction: a set of numbers that has 0 and each successor has them all. *)
LEMMA NumbersByInduction ==
    ASSUME NEW P, 0 \in P, \A n \in Nat : n \in P => n + 1 \in P
    PROVE  Nat \subseteq P
<1> DEFINE T == Nat \ P
<1> SUFFICES ASSUME T # {} PROVE FALSE
  OBVIOUS
<1>1. PICK x \in T : \A y \in T : ~(<<y, x>> \in OpToRel(<, Nat))
  BY NatLessThanWellFounded, WFMin
<1>2. x # 0 /\ x - 1 \in Nat
  OBVIOUS
<1>3. x - 1 \in P
  <2>1. SUFFICES ASSUME x - 1 \in T PROVE FALSE
    BY <1>2
  <2>2. \A y \in Nat : <<y, x>> \in OpToRel(<, Nat) <=> y < x
    BY Zenon DEF OpToRel
  <2>3. ~(x - 1 < x)
    BY <1>1, <2>1, <2>2, Zenon
  <2> QED BY <1>2, <2>3
<1> QED BY <1>2, <1>3

(* The smallest of some numbers.                                           *)
LEMMA NatMin ==
    ASSUME NEW S \in SUBSET Nat, S # {}
    PROVE  Min(S) \in S /\ \A x \in S : Min(S) <= x
<1>1. PICK x \in S : \A y \in S : ~(<<y, x>> \in OpToRel(<, Nat))
  BY NatLessThanWellFounded, WFMin
<1>2. \A y \in Nat : <<y, x>> \in OpToRel(<, Nat) <=> y < x
  BY Zenon DEF OpToRel
<1>3. \A y \in S : ~(y < x)
  BY <1>1, <1>2, Zenon
<1>4. \A y \in S : x <= y
  BY <1>3
<1> QED
  BY <1>4 DEF Min

(* The greatest of some numbers up to n.                                   *)
LEMMA NatMax ==
    ASSUME NEW n \in Nat, NEW S \in SUBSET (0..n), S # {}
    PROVE  Max(S) \in S /\ \A x \in S : x <= Max(S)
<1> DEFINE T == {n - x : x \in S}
<1>0. \A x \in S : x \in Nat /\ n - x \in Nat
  OBVIOUS
<1>1. T \in SUBSET Nat /\ T # {}
  BY <1>0
<1> HIDE DEF T
<1>2. Min(T) \in T /\ \A t \in T : Min(T) <= t
  BY <1>1, NatMin
<1>3. PICK x \in S : Min(T) = n - x
  BY <1>2 DEF T
<1>4. \A y \in S : n - x <= n - y
  BY <1>2, <1>3 DEF T
<1>5. \A y \in S : x >= y
  BY <1>0, <1>4
<1>6. Max(S) \in S /\ \A y \in S : Max(S) >= y
  BY <1>5, Zenon DEF Max
<1> QED BY <1>0, <1>6

(* Induction over the subsets of a finite set: a set of subsets that has   *)
(* each one all of whose proper subsets it has, has them all.              *)
LEMMA SubsetsByInduction ==
    ASSUME NEW S, IsFiniteSet(S), NEW P,
           \A T \in SUBSET S : (\A U \in (SUBSET T) \ {T} : U \in P) => T \in P
    PROVE  SUBSET S \subseteq P
<1> DEFINE B == (SUBSET S) \ P
<1> SUFFICES ASSUME B # {} PROVE FALSE
  OBVIOUS
<1>1. B \subseteq FiniteSubsetsOf(S)
  BY FS_FiniteSubsetsOfFinite
<1>2. PICK T \in B : \A U \in B : ~(<<U, T>> \in StrictSubsetOrdering(S))
  <2>1. IsWellFoundedOn(StrictSubsetOrdering(S), FiniteSubsetsOf(S))
    BY FS_StrictSubsetOrderingWellFounded
  <2> HIDE DEF B
  <2> QED BY <1>1, <2>1, WFMin
<1>3. ASSUME NEW U \in (SUBSET T) \ {T} PROVE U \in P
  BY <1>2, <1>3 DEF StrictSubsetOrdering
<1> QED BY <1>3

(* The function exists, so that the sum is what it gives.                  *)
LEMMA SumExists ==
    ASSUME NEW f, NEW S, IsFiniteSet(S)
    PROVE  \E g : IsSum(g, f, S)
<1> DEFINE D(n) == {s \in SUBSET S : Cardinality(s) <= n}
           V(g, s) == IF s = {} THEN 0 ELSE f[Some(s)] + g[s \ {Some(s)}]
           Up(g, n) == g = [s \in D(n) |-> V(g, s)]
           P == {n \in Nat : \E g : Up(g, n)}
<1>0. \A s \in SUBSET S : IsFiniteSet(s) /\ Cardinality(s) \in Nat
  BY FS_Subset, FS_CardinalityType
<1>1. 0 \in P
  <2> DEFINE g0 == [s \in D(0) |-> 0]
  <2>1. \A s \in D(0) : s = {}
    BY <1>0, FS_EmptySet
  <2>2. Up(g0, 0)
    BY <2>1
  <2> QED BY <2>2
<1>2. ASSUME NEW n \in Nat, n \in P PROVE n + 1 \in P
  <2>1. PICK g : Up(g, n)
    BY <1>2
  <2> DEFINE h == [s \in D(n + 1) |-> V(g, s)]
  <2>2. ASSUME NEW s \in D(n + 1), s # {}
        PROVE  s \ {Some(s)} \in D(n) /\ s \ {Some(s)} \in D(n + 1)
    <3>1. Cardinality(s \ {Some(s)}) = Cardinality(s) - 1
      BY <1>0, <2>2, SomeIsMember, FS_RemoveElement
    <3> QED BY <1>0, <3>1
  <2>3. \A s \in D(n) : s \in D(n + 1) /\ g[s] = V(g, s)
    <3>1. \A s \in D(n) : s \in D(n + 1)
      BY <1>0
    <3>2. \A s \in D(n) : g[s] = V(g, s)
      BY <2>1
    <3> QED BY <3>1, <3>2
  <2>4. \A s \in D(n) : h[s] = g[s]
    BY <2>3
  <2>5. \A s \in D(n + 1) : V(g, s) = V(h, s)
    BY <2>2, <2>4
  <2>6. Up(h, n + 1)
    BY <2>5
  <2>7. \E k : Up(k, n + 1)
    <3> HIDE DEF h, Up
    <3> QED BY <2>6
  <2> HIDE DEF Up
  <2> QED BY <2>7
<1>3. Cardinality(S) \in P
  <2> HIDE DEF P
  <2> QED BY <1>0, <1>1, <1>2, NumbersByInduction
<1>4. D(Cardinality(S)) = SUBSET S
  BY FS_Subset
<1>5. PICK g : Up(g, Cardinality(S))
  BY <1>3
<1> QED BY <1>4, <1>5 DEF IsSum

LEMMA SumEquation ==
    ASSUME NEW f, NEW S, IsFiniteSet(S)
    PROVE  IsSum(CHOOSE g : IsSum(g, f, S), f, S)
BY SumExists

(* Two such functions agree wherever their addends do.                     *)
LEMMA SumsAgree ==
    ASSUME NEW f, NEW g, NEW S, NEW T, IsFiniteSet(S), IsFiniteSet(T), NEW F, NEW G,
           IsSum(F, f, S), IsSum(G, g, T), \A x \in S \cap T : f[x] = g[x]
    PROVE  \A U \in SUBSET (S \cap T) : F[U] = G[U]
<1> DEFINE P == {U \in SUBSET (S \cap T) : F[U] = G[U]}
<1>1. IsFiniteSet(S \cap T)
  BY FS_Intersection
<1>2. ASSUME NEW U \in SUBSET (S \cap T), \A W \in (SUBSET U) \ {U} : W \in P
      PROVE  U \in P
  <2>1. CASE U = {}
    BY <2>1 DEF IsSum
  <2>2. CASE U # {}
    <3> DEFINE x == Some(U)
    <3>1. x \in U /\ U \ {x} \in (SUBSET U) \ {U}
      BY <2>2, SomeIsMember
    <3>2. F[U] = f[x] + F[U \ {x}] /\ G[U] = g[x] + G[U \ {x}]
      BY <2>2 DEF IsSum
    <3>3. f[x] = g[x] /\ F[U \ {x}] = G[U \ {x}]
      BY <1>2, <3>1
    <3> QED BY <3>2, <3>3
  <2> QED BY <2>1, <2>2
<1> HIDE DEF P
<1>3. SUBSET (S \cap T) \subseteq P
  BY <1>1, <1>2, SubsetsByInduction
<1> QED BY <1>3 DEF P

----------------------------------------------------------------------------
(* What a sum is                                                           *)

LEMMA SumIsUnique ==
    ASSUME NEW f, NEW S, IsFiniteSet(S), NEW G, IsSum(G, f, S)
    PROVE  SumOf(f, S) = G[S]
<1> DEFINE F == CHOOSE g : IsSum(g, f, S)
<1>1. IsSum(F, f, S)
  BY SumEquation
<1> HIDE DEF F
<1>2. F[S] = G[S]
  BY <1>1, SumsAgree
<1> QED BY <1>2 DEF SumOf, F

(* Only the addends of the set count.                                      *)
LEMMA SumOfEqual ==
    ASSUME NEW f, NEW g, NEW S, IsFiniteSet(S), \A x \in S : f[x] = g[x]
    PROVE  SumOf(f, S) = SumOf(g, S)
<1> DEFINE F == CHOOSE h : IsSum(h, f, S)
<1> DEFINE G == CHOOSE h : IsSum(h, g, S)
<1>1. IsSum(F, f, S) /\ IsSum(G, g, S)
  BY SumEquation
<1> HIDE DEF F, G
<1>2. F[S] = G[S]
  BY <1>1, SumsAgree
<1> QED BY <1>2 DEF SumOf, F, G

(* A part of the function is the sum over the part.                        *)
LEMMA SumOfPart ==
    ASSUME NEW f, NEW S, IsFiniteSet(S), NEW T \in SUBSET S, NEW F, IsSum(F, f, S)
    PROVE  F[T] = SumOf(f, T)
<1>1. IsFiniteSet(T)
  BY FS_Subset
<1> DEFINE G == CHOOSE g : IsSum(g, f, T)
<1>2. IsSum(G, f, T)
  BY <1>1, SumEquation
<1> HIDE DEF G
<1>3. F[T] = G[T]
  <2>1. \A U \in SUBSET (S \cap T) : F[U] = G[U]
    BY <1>1, <1>2, SumsAgree
  <2> QED BY <2>1
<1> QED BY <1>3 DEF SumOf, G

LEMMA SumOfNone == \A f : SumOf(f, {}) = 0
<1> SUFFICES ASSUME NEW f PROVE SumOf(f, {}) = 0
  OBVIOUS
<1> DEFINE G == CHOOSE g : IsSum(g, f, {})
<1>1. IsSum(G, f, {})
  BY FS_EmptySet, SumEquation
<1> HIDE DEF G
<1> QED BY <1>1 DEF SumOf, G, IsSum

LEMMA SumOfSome ==
    ASSUME NEW f, NEW S, IsFiniteSet(S), S # {}
    PROVE  SumOf(f, S) = f[Some(S)] + SumOf(f, S \ {Some(S)})
<1>1. PICK F : IsSum(F, f, S)
  BY SumExists
<1>2. F[S] = f[Some(S)] + F[S \ {Some(S)}]
  BY <1>1 DEF IsSum
<1>3. \A T \in SUBSET S : F[T] = SumOf(f, T)
  BY <1>1, SumOfPart
<1>4. S \ {Some(S)} \in SUBSET S
  OBVIOUS
<1> QED BY <1>2, <1>3, <1>4

LEMMA SumOfNumbers ==
    ASSUME NEW S, IsFiniteSet(S), NEW f, \A x \in S : f[x] \in Nat
    PROVE  SumOf(f, S) \in Nat
<1> DEFINE P == {T \in SUBSET S : SumOf(f, T) \in Nat}
<1>1. ASSUME NEW T \in SUBSET S, \A U \in (SUBSET T) \ {T} : U \in P
      PROVE  T \in P
  <2>1. CASE T = {}
    BY <2>1, SumOfNone
  <2>2. CASE T # {}
    <3>1. Some(T) \in T /\ T \ {Some(T)} \in P
      BY <1>1, <2>2, SomeIsMember
    <3>2. SumOf(f, T) = f[Some(T)] + SumOf(f, T \ {Some(T)})
      BY <2>2, FS_Subset, SumOfSome
    <3> QED BY <3>1, <3>2
  <2> QED BY <2>1, <2>2
<1> HIDE DEF P
<1>2. S \in P
  BY <1>1, SubsetsByInduction
<1> QED BY <1>2 DEF P

(* Any member may be taken out first.                                      *)
LEMMA SumWithout ==
    ASSUME NEW S, IsFiniteSet(S), NEW f, \A x \in S : f[x] \in Nat, NEW x \in S
    PROVE  SumOf(f, S) = f[x] + SumOf(f, S \ {x})
<1> DEFINE P == {T \in SUBSET S : \A y \in T : SumOf(f, T) = f[y] + SumOf(f, T \ {y})}
<1>0. \A T \in SUBSET S : IsFiniteSet(T) /\ SumOf(f, T) \in Nat
  BY FS_Subset, SumOfNumbers
<1>1. ASSUME NEW T \in SUBSET S, \A U \in (SUBSET T) \ {T} : U \in P
      PROVE  T \in P
  <2> SUFFICES ASSUME NEW y \in T PROVE SumOf(f, T) = f[y] + SumOf(f, T \ {y})
    OBVIOUS
  <2> DEFINE z == Some(T)
  <2>1. z \in T /\ SumOf(f, T) = f[z] + SumOf(f, T \ {z})
    BY <1>0, SomeIsMember, SumOfSome
  <2> HIDE DEF z
  <2>2. CASE y = z
    BY <2>1, <2>2
  <2>3. CASE y # z
    <3>1. T \ {z} \in P /\ T \ {y} \in P
      BY <1>1, <2>1
    <3>2. SumOf(f, T \ {z}) = f[y] + SumOf(f, (T \ {z}) \ {y})
      BY <2>3, <3>1
    <3>3. SumOf(f, T \ {y}) = f[z] + SumOf(f, (T \ {y}) \ {z})
      BY <2>1, <2>3, <3>1
    <3>4. (T \ {z}) \ {y} = (T \ {y}) \ {z}
      OBVIOUS
    <3>5. f[y] \in Nat /\ f[z] \in Nat /\ SumOf(f, (T \ {y}) \ {z}) \in Nat
      BY <1>0, <2>1
    <3> QED BY <2>1, <3>2, <3>3, <3>4, <3>5
  <2> QED BY <2>2, <2>3
<1> HIDE DEF P
<1>2. S \in P
  BY <1>1, SubsetsByInduction
<1> QED BY <1>2 DEF P

(* A sum of numbers is at least each of them.                              *)
LEMMA SumIsBound ==
    ASSUME NEW S, IsFiniteSet(S), NEW f, \A x \in S : f[x] \in Nat, NEW x \in S
    PROVE  f[x] <= SumOf(f, S)
<1>1. SumOf(f, S \ {x}) \in Nat
  BY FS_RemoveElement, SumOfNumbers
<1> QED BY <1>1, SumWithout

LEMMA SumIsMonotone ==
    ASSUME NEW S, IsFiniteSet(S), NEW f, NEW g,
           \A x \in S : f[x] \in Nat /\ g[x] \in Nat /\ f[x] <= g[x]
    PROVE  SumOf(f, S) <= SumOf(g, S)
<1> DEFINE P == {T \in SUBSET S : SumOf(f, T) <= SumOf(g, T)}
<1>0. \A T \in SUBSET S : IsFiniteSet(T) /\ SumOf(f, T) \in Nat /\ SumOf(g, T) \in Nat
  BY FS_Subset, SumOfNumbers
<1>1. ASSUME NEW T \in SUBSET S, \A U \in (SUBSET T) \ {T} : U \in P
      PROVE  T \in P
  <2>1. CASE T = {}
    BY <2>1, SumOfNone
  <2>2. CASE T # {}
    <3> DEFINE z == Some(T)
    <3>1. z \in T /\ T \ {z} \in P
      BY <1>1, <2>2, SomeIsMember
    <3>2. /\ SumOf(f, T) = f[z] + SumOf(f, T \ {z})
          /\ SumOf(g, T) = g[z] + SumOf(g, T \ {z})
      BY <1>0, <2>2, SumOfSome
    <3> HIDE DEF z
    <3> QED BY <1>0, <3>1, <3>2
  <2> QED BY <2>1, <2>2
<1> HIDE DEF P
<1>2. S \in P
  BY <1>1, SubsetsByInduction
<1> QED BY <1>2 DEF P

(* What lies outside a part and is zero does not count.                    *)
LEMMA SumOfSupport ==
    ASSUME NEW S, IsFiniteSet(S), NEW f, \A x \in S : f[x] \in Nat,
           NEW T \in SUBSET S, \A x \in S \ T : f[x] = 0
    PROVE  SumOf(f, S) = SumOf(f, T)
<1> DEFINE P == {U \in SUBSET S : T \subseteq U => SumOf(f, U) = SumOf(f, T)}
<1>0. \A U \in SUBSET S : IsFiniteSet(U) /\ SumOf(f, U) \in Nat
  BY FS_Subset, SumOfNumbers
<1>1. ASSUME NEW U \in SUBSET S, \A W \in (SUBSET U) \ {U} : W \in P, T \subseteq U
      PROVE  SumOf(f, U) = SumOf(f, T)
  <2>1. CASE U = T
    BY <2>1
  <2>2. CASE U # T
    <3>1. PICK x \in U : x \notin T
      BY <1>1, <2>2
    <3>2. U \ {x} \in P /\ T \subseteq U \ {x}
      BY <1>1, <3>1
    <3>3. SumOf(f, U) = 0 + SumOf(f, U \ {x})
      BY <1>0, <3>1, SumWithout
    <3> QED BY <1>0, <3>2, <3>3
  <2> QED BY <2>1, <2>2
<1>2. \A U \in SUBSET S : (\A W \in (SUBSET U) \ {U} : W \in P) => U \in P
  BY <1>1
<1> HIDE DEF P
<1>3. S \in P
  BY <1>2, SubsetsByInduction
<1> QED BY <1>3 DEF P

(* One addend changes.                                                     *)
LEMMA SumOfChange ==
    ASSUME NEW S, IsFiniteSet(S), NEW f, NEW g, NEW x \in S,
           \A y \in S : f[y] \in Nat /\ g[y] \in Nat, \A y \in S \ {x} : f[y] = g[y]
    PROVE  SumOf(g, S) + f[x] = SumOf(f, S) + g[x]
<1>1. IsFiniteSet(S \ {x})
  BY FS_RemoveElement
<1>2. SumOf(f, S \ {x}) = SumOf(g, S \ {x}) /\ SumOf(f, S \ {x}) \in Nat
  BY <1>1, SumOfEqual, SumOfNumbers
<1>3. SumOf(f, S) = f[x] + SumOf(f, S \ {x}) /\ SumOf(g, S) = g[x] + SumOf(g, S \ {x})
  BY SumWithout
<1> QED BY <1>2, <1>3

(* What is counted class by class is counted once.                         *)
Class(D, h, n) == {i \in D : h[i] = n}

LEMMA SumOverClasses ==
    ASSUME NEW D, IsFiniteSet(D), NEW S, IsFiniteSet(S), NEW h, \A i \in D : h[i] \in S,
           NEW f, \A n \in S : f[n] = Cardinality(Class(D, h, n))
    PROVE  SumOf(f, S) = Cardinality(D)
<1> DEFINE In(T) == {i \in D : h[i] \in T}
           P == {T \in SUBSET S : SumOf(f, T) = Cardinality(In(T))}
<1>0. \A T : IsFiniteSet(In(T)) /\ Cardinality(In(T)) \in Nat
  <2>1. \A T : In(T) \in SUBSET D
    OBVIOUS
  <2> HIDE DEF In
  <2> QED BY <2>1, FS_Subset, FS_CardinalityType
<1>1. ASSUME NEW T \in SUBSET S, \A U \in (SUBSET T) \ {T} : U \in P
      PROVE  T \in P
  <2>1. CASE T = {}
    <3>1. In(T) = {}
      BY <2>1
    <3>2. SumOf(f, T) = 0 /\ Cardinality(In(T)) = 0
      BY <2>1, <3>1, SumOfNone, FS_EmptySet
    <3> QED BY <3>2
  <2>2. CASE T # {}
    <3> DEFINE z == Some(T)
               C == {i \in D : h[i] = z}
    <3>1. z \in T /\ T \ {z} \in P
      BY <1>1, <2>2, SomeIsMember
    <3>2. SumOf(f, T) = f[z] + SumOf(f, T \ {z})
      BY <2>2, FS_Subset, SumOfSome
    <3>3. f[z] = Cardinality(C) /\ SumOf(f, T \ {z}) = Cardinality(In(T \ {z}))
      BY <3>1 DEF Class
    <3> HIDE DEF z
    <3>4. In(T) = C \cup In(T \ {z}) /\ C \cap In(T \ {z}) = {}
      BY <3>1
    <3>5. IsFiniteSet(C)
      <4>1. C \in SUBSET D
        OBVIOUS
      <4> QED BY <4>1, FS_Subset
    <3> DEFINE Q == In(T)
               R == In(T \ {z})
    <3>6. IsFiniteSet(R) /\ Cardinality(R) \in Nat
      BY <1>0
    <3>9. Q = C \cup R /\ C \cap R = {}
      BY <3>4
    <3> HIDE DEF C, In, Q, R
    <3>7. Cardinality(C \cup R) = Cardinality(C) + Cardinality(R) - Cardinality(C \cap R)
      BY <3>5, <3>6, FS_Union
    <3>8. Cardinality({}) = 0 /\ Cardinality(C) \in Nat
      BY <3>5, FS_EmptySet, FS_CardinalityType
    <3>10. Cardinality(Q) = Cardinality(C) + Cardinality(R)
      <4>1. Cardinality(C \cup R) = Cardinality(Q) /\ Cardinality(C \cap R) = Cardinality({})
        BY <3>9, Zenon
      <4> QED BY <3>6, <3>7, <3>8, <4>1
    <3> QED BY <3>2, <3>3, <3>10 DEF Q, R
  <2> QED BY <2>1, <2>2
<1> HIDE DEF P
<1>2. S \in P
  BY <1>1, SubsetsByInduction
<1>3. In(S) = D
  OBVIOUS
<1> QED BY <1>2, <1>3 DEF P

(* Sets that a function pairs off have the same size.                      *)
LEMMA PairedSets ==
    ASSUME NEW S, IsFiniteSet(S), NEW T, NEW f \in [S -> T],
           \A x, y \in S : f[x] = f[y] => x = y, \A z \in T : \E x \in S : f[x] = z
    PROVE  Cardinality(S) = Cardinality(T) /\ IsFiniteSet(T)
<1>1. ExistsBijection(S, T)
  BY DEF ExistsBijection, Bijection, Injection, Surjection, IsInjective
<1> QED BY <1>1, FS_Bijection

LEMMA FiniteImage ==
    ASSUME NEW S, IsFiniteSet(S), NEW g, NEW T, T = {g[x] : x \in S}
    PROVE  IsFiniteSet(T)
<1> DEFINE f == [x \in S |-> g[x]]
<1>1. f \in Surjection(S, T)
  BY DEF Surjection
<1> HIDE DEF f
<1> QED BY <1>1, FS_Surjection

(* Two collections of the same size: what is different in each of the one  *)
(* and found in the other is all of the other.                             *)
LEMMA AllAreTaken ==
    ASSUME NEW n \in Nat, NEW f \in [1..n -> 1..n], IsInjective(f)
    PROVE  \A z \in 1..n : \E x \in 1..n : f[x] = z
<1>1. IsFiniteSet(1..n)
  BY FS_Interval
<1>2. f \in Injection(1..n, 1..n)
  BY DEF Injection
<1>3. f \in Surjection(1..n, 1..n)
  BY <1>1, <1>2, FS_Injection
<1> QED BY <1>3 DEF Surjection
=============================================================================
