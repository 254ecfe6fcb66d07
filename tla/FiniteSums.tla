----------------------------- MODULE FiniteSums -----------------------------
(***************************************************************************)
(* Induction as facts about sets, and the sum of a function over a finite  *)
(* set (SumFunctionOnSet of the community modules), which the totals of    *)
(* the storage are compared with.                                          *)
(***************************************************************************)
EXTENDS Integers, Functions, FiniteSets, FiniteSetTheorems,
        WellFoundedInduction, TLAPS

-----------------------------------------------------------------------------
(* Induction.  The library states it with an operator parameter; as a fact
   about sets it follows from the library's theorem on well-founded orders. *)

(* Every set of natural numbers has a least one. *)
LEMMA LeastNatural ==
    ASSUME NEW S \in SUBSET Nat, S # {}
    PROVE  \E n \in S : \A m \in S : n <= m
<1> DEFINE R == {ss \in Nat \X Nat : ss[1] < ss[2]}
<1>1. IsWellFoundedOn(R, Nat)
  BY NatLessThanWellFounded, Zenon DEF OpToRel
<1> HIDE DEF R
<1>2. PICK n \in S : \A m \in S : <<m, n>> \notin R
  BY <1>1, WFMin, Zenon
<1>3. \A m \in S : ~(m < n)
  BY <1>2 DEF R
<1> QED BY <1>3

(* What holds at 0 and carries over from i to i + 1 holds up to n. *)
LEMMA UpTo ==
    ASSUME NEW n \in Nat, NEW S, 0 \in S,
           \A i \in 0..(n - 1) : i \in S => i + 1 \in S
    PROVE  \A i \in 0..n : i \in S
<1> DEFINE Bad == {i \in 0..n : i \notin S}
<1>1. SUFFICES ASSUME Bad # {} PROVE FALSE
  OBVIOUS
<1>2. Bad \in SUBSET Nat
  OBVIOUS
<1> HIDE DEF Bad
<1>3. PICK b \in Bad : \A m \in Bad : b <= m
  BY <1>1, <1>2, LeastNatural
<1>4. b \in 0..n /\ b \notin S /\ b # 0
  BY <1>3 DEF Bad
<1>5. b - 1 \in 0..(n - 1) /\ b - 1 \notin Bad
  BY <1>3, <1>4, <1>2
<1>6. b - 1 \in S
  BY <1>5, <1>4 DEF Bad
<1> QED BY <1>4, <1>5, <1>6

(* Every set of subsets of a finite set has a minimal one. *)
LEMMA MinimalSubset ==
    ASSUME NEW S, IsFiniteSet(S), NEW Bad, Bad \subseteq SUBSET S, Bad # {}
    PROVE  \E T \in Bad : \A U \in SUBSET T : U \in Bad => U = T
<1> DEFINE R == StrictSubsetOrdering(S)
<1>1. IsWellFoundedOn(R, SUBSET S)
  BY FS_StrictSubsetOrderingWellFounded, FS_FiniteSubsetsOfFinite, Zenon
<1> HIDE DEF R
<1>2. PICK T \in Bad : \A U \in Bad : <<U, T>> \notin R
  BY <1>1, WFMin, Zenon
<1>3. ASSUME NEW U \in SUBSET T, U \in Bad, U # T PROVE FALSE
  <2>1. <<U, T>> \in R
    BY <1>3 DEF StrictSubsetOrdering, R
  <2> QED BY <2>1, <1>2, <1>3
<1> QED BY <1>2, <1>3

(* What a subset of a finite set inherits from its proper subsets all have. *)
LEMMA SubsetInduction ==
    ASSUME NEW S, IsFiniteSet(S), NEW Good,
           \A T \in SUBSET S :
              (\A U \in SUBSET T : U # T => U \in Good) => T \in Good
    PROVE  \A T \in SUBSET S : T \in Good
<1> DEFINE Bad == {T \in SUBSET S : T \notin Good}
<1>1. SUFFICES ASSUME Bad # {} PROVE FALSE
  OBVIOUS
<1>2. PICK T \in Bad : \A U \in SUBSET T : U \in Bad => U = T
  <2>1. Bad \subseteq SUBSET S /\ Bad # {}
    BY <1>1
  <2> HIDE DEF Bad
  <2>2. ASSUME NEW X, X \subseteq SUBSET S, X # {}
        PROVE  \E T \in X : \A U \in SUBSET T : U \in X => U = T
    BY <2>2, MinimalSubset, SMT
  <2> QED BY <2>1, <2>2
<1> QED BY <1>2

-----------------------------------------------------------------------------
(* The function behind the sum, and its recursion equation. *)
Chosen(s) == CHOOSE x \in s : TRUE

SumStep(f, g, s) == IF s = {} THEN 0 ELSE f[Chosen(s)] + g[s \ {Chosen(s)}]

IsSum(f, g, S) == g = [s \in SUBSET S |-> SumStep(f, g, s)]

LEMMA SumIsChosen ==
    ASSUME NEW f, NEW S
    PROVE  SumFunctionOnSet(f, S) = (CHOOSE g : IsSum(f, g, S))[S]
BY Zenon DEF SumFunctionOnSet, FoldFunctionOnSet, MapThenFoldSet, IsSum, SumStep, Chosen

(* Such a function exists: it is built up by the size of the subsets. *)
LEMMA SumExists ==
    ASSUME NEW f, NEW S, IsFiniteSet(S)
    PROVE  \E g : IsSum(f, g, S)
<1> DEFINE Small(n)    == {s \in SUBSET S : Cardinality(s) <= n}
           IsPart(g, n) == g = [s \in Small(n) |-> SumStep(f, g, s)]
           N == Cardinality(S)
           Good == {n \in 0..N : \E g : IsPart(g, n)}
<1>1. N \in Nat
  BY FS_CardinalityType
<1>2. \A s \in SUBSET S : IsFiniteSet(s) /\ Cardinality(s) \in Nat /\ Cardinality(s) <= N
  BY FS_Subset, FS_CardinalityType
<1>3. ASSUME NEW s \in SUBSET S, s # {}
      PROVE  /\ s \ {Chosen(s)} \in SUBSET S
             /\ Cardinality(s \ {Chosen(s)}) = Cardinality(s) - 1
  <2>1. Chosen(s) \in s
    BY <1>3 DEF Chosen
  <2> QED BY <2>1, <1>2, FS_RemoveElement
<1>4. \A s \in SUBSET S : Cardinality(s) = 0 => s = {}
  BY <1>2, FS_EmptySet
<1> HIDE DEF N
<1>5. 0 \in Good
  <2> DEFINE g == [s \in Small(0) |-> 0]
  <2>1. \A s \in Small(0) : SumStep(f, g, s) = 0
    BY <1>2, <1>4 DEF SumStep
  <2>2. IsPart(g, 0)
    BY <2>1, Zenon
  <2>3. \E h : IsPart(h, 0)
    <3> HIDE DEF IsPart, g
    <3> QED BY <2>2
  <2> HIDE DEF IsPart
  <2> QED BY <2>3, <1>1
<1>6. ASSUME NEW n \in 0..(N - 1), n \in Good PROVE n + 1 \in Good
  <2>1. PICK g : IsPart(g, n)
    BY <1>6
  <2> DEFINE h == [s \in Small(n + 1) |-> SumStep(f, g, s)]
  <2>2. \A s \in Small(n) : s \in Small(n + 1) /\ g[s] = SumStep(f, g, s)
    BY <2>1, <1>2
  <2>3. \A s \in Small(n) : h[s] = g[s]
    BY <2>2
  <2>4. ASSUME NEW s \in Small(n + 1), s # {}
        PROVE  s \ {Chosen(s)} \in Small(n)
    BY <1>3, <1>2, <2>4
  <2>5. \A s \in Small(n + 1) : SumStep(f, h, s) = SumStep(f, g, s)
    <3> HIDE DEF h, Small
    <3> QED BY <2>3, <2>4, Zenon DEF SumStep
  <2>6. IsPart(h, n + 1)
    BY <2>5, Zenon
  <2>7. \E k : IsPart(k, n + 1)
    <3> HIDE DEF IsPart, h
    <3> QED BY <2>6
  <2> HIDE DEF IsPart
  <2> QED BY <2>7, <1>1
<1>7. N \in Good
  <2> HIDE DEF Good
  <2>1. \A i \in 0..N : i \in Good
    BY <1>1, <1>5, <1>6, UpTo
  <2> QED BY <2>1, <1>1
<1>8. Small(N) = SUBSET S
  BY <1>2
<1> QED BY <1>7, <1>8, Zenon DEF IsSum

(* Two of them agree on the sets they have in common. *)
LEMMA SumUnique ==
    ASSUME NEW f, NEW S, IsFiniteSet(S), NEW T, T \subseteq S,
           NEW g, NEW h, IsSum(f, g, S), IsSum(f, h, T)
    PROVE  g[T] = h[T]
<1> DEFINE Good == {U \in SUBSET T : g[U] = h[U]}
<1>1. IsFiniteSet(T)
  BY FS_Subset
<1>2. ASSUME NEW U \in SUBSET T, \A V \in SUBSET U : V # U => V \in Good
      PROVE  U \in Good
  <2>1. g[U] = SumStep(f, g, U) /\ h[U] = SumStep(f, h, U)
    BY DEF IsSum
  <2>2. CASE U = {}
    BY <2>1, <2>2 DEF SumStep
  <2>3. CASE U # {}
    <3>1. Chosen(U) \in U
      BY <2>3 DEF Chosen
    <3>2. U \ {Chosen(U)} \in Good
      BY <3>1, <1>2
    <3> QED BY <2>1, <2>3, <3>2 DEF SumStep
  <2> QED BY <2>2, <2>3
<1>3. \A U \in SUBSET T : U \in Good
  <2> HIDE DEF Good
  <2> QED BY <1>1, <1>2, SubsetInduction
<1> QED BY <1>3

LEMMA SumEquation ==
    ASSUME NEW f, NEW S, IsFiniteSet(S)
    PROVE  SumFunctionOnSet(f, S) =
              IF S = {} THEN 0
              ELSE f[Chosen(S)] + SumFunctionOnSet(f, S \ {Chosen(S)})
<1> DEFINE Fun(T) == CHOOSE g : IsSum(f, g, T)
<1>1. ASSUME NEW T \in SUBSET S PROVE IsSum(f, Fun(T), T)
  <2>1. \E g : IsSum(f, g, T)
    BY FS_Subset, SumExists
  <2> QED BY <2>1
<1>2. \A T : SumFunctionOnSet(f, T) = Fun(T)[T]
  BY SumIsChosen
<1> HIDE DEF Fun
<1>3. Fun(S)[S] = SumStep(f, Fun(S), S)
  BY <1>1 DEF IsSum
<1>4. CASE S = {}
  BY <1>4, <1>3, <1>2 DEF SumStep
<1>5. CASE S # {}
  <2> DEFINE T == S \ {Chosen(S)}
  <2>1. T \in SUBSET S
    OBVIOUS
  <2>2. Fun(S)[T] = Fun(T)[T]
    <3> HIDE DEF T
    <3> QED BY <2>1, <1>1, SumUnique
  <2> QED BY <1>5, <1>2, <1>3, <2>2 DEF SumStep
<1> QED BY <1>4, <1>5

-----------------------------------------------------------------------------
(* Sums of whole numbers *)

LEMMA SumOfNone == \A f : SumFunctionOnSet(f, {}) = 0
BY SumEquation, FS_EmptySet

LEMMA SumType ==
    ASSUME NEW S, IsFiniteSet(S), NEW f, \A x \in S : f[x] \in Int
    PROVE  SumFunctionOnSet(f, S) \in Int
<1> DEFINE Good == {T \in SUBSET S : SumFunctionOnSet(f, T) \in Int}
<1>1. ASSUME NEW T \in SUBSET S, \A U \in SUBSET T : U # T => U \in Good
      PROVE  T \in Good
  <2>1. IsFiniteSet(T)
    BY FS_Subset
  <2>2. CASE T = {}
    BY <2>2, SumOfNone
  <2>3. CASE T # {}
    <3>1. Chosen(T) \in T
      BY <2>3 DEF Chosen
    <3>2. T \ {Chosen(T)} \in Good
      BY <3>1, <1>1
    <3> QED BY <2>1, <2>3, <3>1, <3>2, SumEquation
  <2> QED BY <2>2, <2>3
<1>2. \A T \in SUBSET S : T \in Good
  <2> HIDE DEF Good
  <2> QED BY <1>1, SubsetInduction
<1> QED BY <1>2

(* Any member of the set may be taken out first. *)
LEMMA SumRemove ==
    ASSUME NEW S, IsFiniteSet(S), NEW f, \A x \in S : f[x] \in Int, NEW e \in S
    PROVE  SumFunctionOnSet(f, S) = f[e] + SumFunctionOnSet(f, S \ {e})
<1> DEFINE Good == {T \in SUBSET S : \A x \in T :
                      SumFunctionOnSet(f, T) = f[x] + SumFunctionOnSet(f, T \ {x})}
<1>1. ASSUME NEW T \in SUBSET S, \A U \in SUBSET T : U # T => U \in Good,
             NEW x \in T
      PROVE  SumFunctionOnSet(f, T) = f[x] + SumFunctionOnSet(f, T \ {x})
  <2> DEFINE c == Chosen(T)
  <2>1. c \in T
    BY DEF Chosen
  <2>2. \A U \in SUBSET S : IsFiniteSet(U)
    BY FS_Subset
  <2>3. SumFunctionOnSet(f, T) = f[c] + SumFunctionOnSet(f, T \ {c})
    BY <2>2, SumEquation
  <2> HIDE DEF c
  <2>4. CASE c = x
    BY <2>3, <2>4
  <2>5. CASE c # x
    <3>1. SumFunctionOnSet(f, T \ {c}) = f[x] + SumFunctionOnSet(f, (T \ {c}) \ {x})
      BY <2>1, <2>5, <1>1
    <3>2. SumFunctionOnSet(f, T \ {x}) = f[c] + SumFunctionOnSet(f, (T \ {x}) \ {c})
      BY <2>1, <2>5, <1>1
    <3>3. (T \ {c}) \ {x} = (T \ {x}) \ {c}
      OBVIOUS
    <3>4. f[c] \in Int /\ f[x] \in Int /\ SumFunctionOnSet(f, (T \ {c}) \ {x}) \in Int
      BY <2>1, <2>2, SumType
    <3>5. ASSUME NEW a \in Int, NEW b \in Int, NEW z \in Int
          PROVE  a + (b + z) = b + (a + z)
      OBVIOUS
    <3>6. f[c] + (f[x] + SumFunctionOnSet(f, (T \ {c}) \ {x}))
             = f[x] + (f[c] + SumFunctionOnSet(f, (T \ {c}) \ {x}))
      BY <3>4, <3>5
    <3> QED BY <2>3, <3>1, <3>2, <3>3, <3>6, Zenon
  <2> QED BY <2>4, <2>5
<1>2. \A T \in SUBSET S : T \in Good
  <2>1. ASSUME NEW T \in SUBSET S, \A U \in SUBSET T : U # T => U \in Good
        PROVE  T \in Good
    BY <2>1, <1>1
  <2> HIDE DEF Good
  <2> QED BY <2>1, SubsetInduction
<1> QED BY <1>2

LEMMA SumAdd ==
    ASSUME NEW S, IsFiniteSet(S), NEW e, e \notin S,
           NEW f, \A x \in S \cup {e} : f[x] \in Int
    PROVE  SumFunctionOnSet(f, S \cup {e}) = SumFunctionOnSet(f, S) + f[e]
<1>1. IsFiniteSet(S \cup {e}) /\ (S \cup {e}) \ {e} = S
  BY FS_AddElement
<1>2. SumFunctionOnSet(f, S \cup {e}) = f[e] + SumFunctionOnSet(f, S)
  BY <1>1, SumRemove
<1>3. SumFunctionOnSet(f, S) \in Int
  BY SumType
<1> QED BY <1>2, <1>3

(* Only the values on the set count. *)
LEMMA SumAgrees ==
    ASSUME NEW S, IsFiniteSet(S), NEW f, NEW g, \A x \in S : f[x] = g[x]
    PROVE  SumFunctionOnSet(f, S) = SumFunctionOnSet(g, S)
<1> DEFINE Good == {T \in SUBSET S : SumFunctionOnSet(f, T) = SumFunctionOnSet(g, T)}
<1>1. ASSUME NEW T \in SUBSET S, \A U \in SUBSET T : U # T => U \in Good
      PROVE  T \in Good
  <2>1. IsFiniteSet(T)
    BY FS_Subset
  <2>2. CASE T = {}
    BY <2>2, SumOfNone
  <2>3. CASE T # {}
    <3>1. Chosen(T) \in T
      BY <2>3 DEF Chosen
    <3>2. T \ {Chosen(T)} \in Good
      BY <3>1, <1>1
    <3> QED BY <2>1, <2>3, <3>1, <3>2, SumEquation
  <2> QED BY <2>2, <2>3
<1>2. \A T \in SUBSET S : T \in Good
  <2> HIDE DEF Good
  <2> QED BY <1>1, SubsetInduction
<1> QED BY <1>2

(* What the empty set has and one more member preserves, a finite set has. *)
LEMMA SumInduction ==
    ASSUME NEW S, IsFiniteSet(S), NEW Good, {} \in Good,
           \A T \in SUBSET S, x \in S : T \in Good /\ x \notin T => T \cup {x} \in Good
    PROVE  S \in Good
<1>1. ASSUME NEW T \in SUBSET S, \A U \in SUBSET T : U # T => U \in Good
      PROVE  T \in Good
  <2>1. CASE T = {}
    BY <2>1
  <2>2. CASE T # {}
    <3>1. PICK x \in T : TRUE
      BY <2>2
    <3>2. T \ {x} \in Good /\ (T \ {x}) \cup {x} = T
      BY <1>1
    <3> QED BY <3>2, T \ {x} \in SUBSET S, x \in S
  <2> QED BY <2>1, <2>2
<1> QED BY <1>1, SubsetInduction

(* What a step does that adds a member, or takes one out, and leaves the values
   of the others alone. *)
LEMMA SumWithOneMore ==
    ASSUME NEW S, IsFiniteSet(S), NEW e, e \notin S,
           NEW f, NEW g, \A x \in S : f[x] \in Int /\ g[x] = f[x], g[e] \in Int
    PROVE  SumFunctionOnSet(g, S \cup {e}) = SumFunctionOnSet(f, S) + g[e]
<1>1. SumFunctionOnSet(g, S \cup {e}) = SumFunctionOnSet(g, S) + g[e]
  <2>1. \A x \in S \cup {e} : g[x] \in Int
    OBVIOUS
  <2> QED BY <2>1, SumAdd
<1>2. SumFunctionOnSet(g, S) = SumFunctionOnSet(f, S)
  BY SumAgrees
<1> QED BY <1>1, <1>2

LEMMA SumWithOneLess ==
    ASSUME NEW S, IsFiniteSet(S), NEW e \in S,
           NEW f, NEW g, \A x \in S : f[x] \in Int, \A x \in S \ {e} : g[x] = f[x]
    PROVE  SumFunctionOnSet(g, S \ {e}) = SumFunctionOnSet(f, S) - f[e]
<1>1. IsFiniteSet(S \ {e}) /\ \A x \in S \ {e} : f[x] \in Int
  BY FS_Subset
<1>2. SumFunctionOnSet(g, S \ {e}) = SumFunctionOnSet(f, S \ {e})
  BY <1>1, SumAgrees
<1>3. SumFunctionOnSet(f, S) = f[e] + SumFunctionOnSet(f, S \ {e})
  BY SumRemove
<1>4. SumFunctionOnSet(f, S \ {e}) \in Int /\ f[e] \in Int
  BY <1>1, SumType
<1> QED BY <1>2, <1>3, <1>4

(* Natural summands: the sum is natural, and none exceeds it. *)
LEMMA SumOfNaturals ==
    ASSUME NEW S, IsFiniteSet(S), NEW f, \A x \in S : f[x] \in Nat
    PROVE  /\ SumFunctionOnSet(f, S) \in Nat
           /\ \A e \in S : /\ f[e] <= SumFunctionOnSet(f, S)
                           /\ SumFunctionOnSet(f, S \ {e}) \in Nat
<1> DEFINE Good == {T \in SUBSET S : SumFunctionOnSet(f, T) \in Nat}
<1>1. {} \in Good
  BY SumOfNone
<1>2. ASSUME NEW T \in SUBSET S, NEW x \in S, T \in Good, x \notin T
      PROVE  T \cup {x} \in Good
  <2>1. IsFiniteSet(T) /\ \A y \in T \cup {x} : f[y] \in Int
    BY FS_Subset
  <2>2. SumFunctionOnSet(f, T \cup {x}) = SumFunctionOnSet(f, T) + f[x]
    BY <2>1, <1>2, SumAdd
  <2> QED BY <2>2, <1>2
<1>3. ASSUME NEW T \in SUBSET S PROVE T \in Good
  <2>1. IsFiniteSet(T)
    BY FS_Subset
  <2>2. \A U \in SUBSET T, x \in T : U \in Good /\ x \notin U => U \cup {x} \in Good
    BY <1>2
  <2> HIDE DEF Good
  <2> QED BY <2>1, <2>2, <1>1, SumInduction
<1>4. ASSUME NEW e \in S
      PROVE  f[e] <= SumFunctionOnSet(f, S) /\ SumFunctionOnSet(f, S \ {e}) \in Nat
  <2>1. SumFunctionOnSet(f, S) = f[e] + SumFunctionOnSet(f, S \ {e})
    <3>1. \A x \in S : f[x] \in Int
      OBVIOUS
    <3> QED BY <3>1, SumRemove
  <2>2. SumFunctionOnSet(f, S \ {e}) \in Nat
    BY <1>3
  <2> QED BY <2>1, <2>2
<1> QED BY <1>3, <1>4

(* Two sums of two products taken together. *)
LEMMA Regroup ==
    \A a, b, i, j, k, l \in Int :
        (a * i + b * j) + (a * k + b * l) = a * (i + k) + b * (j + l)
  OBVIOUS

(* The sum is linear. *)
LEMMA SumIsLinear ==
    ASSUME NEW S, IsFiniteSet(S), NEW f, NEW g, NEW h, NEW a \in Int, NEW b \in Int,
           \A x \in S : f[x] \in Int /\ g[x] \in Int /\ h[x] = a * f[x] + b * g[x]
    PROVE  SumFunctionOnSet(h, S) = a * SumFunctionOnSet(f, S) + b * SumFunctionOnSet(g, S)
<1> DEFINE Good == {T \in SUBSET S : SumFunctionOnSet(h, T) =
                       a * SumFunctionOnSet(f, T) + b * SumFunctionOnSet(g, T)}
<1>1. {} \in Good
  BY SumOfNone
<1>2. ASSUME NEW x, NEW y PROVE x \in Int /\ y \in Int => a * x + b * y \in Int
  OBVIOUS
<1>3. ASSUME NEW T \in SUBSET S, NEW x \in S, T \in Good, x \notin T
      PROVE  T \cup {x} \in Good
  <2> DEFINE F == SumFunctionOnSet(f, T)
             G == SumFunctionOnSet(g, T)
  <2>1. IsFiniteSet(T) /\ \A y \in T \cup {x} : f[y] \in Int /\ g[y] \in Int /\ h[y] \in Int
    BY <1>2, FS_Subset
  <2>2. /\ SumFunctionOnSet(f, T \cup {x}) = F + f[x]
        /\ SumFunctionOnSet(g, T \cup {x}) = G + g[x]
        /\ SumFunctionOnSet(h, T \cup {x}) = SumFunctionOnSet(h, T) + h[x]
    BY <2>1, <1>3, SumAdd
  <2>3. F \in Int /\ G \in Int /\ f[x] \in Int /\ g[x] \in Int
    BY <2>1, SumType
  <2>4. (a * F + b * G) + (a * f[x] + b * g[x]) = a * (F + f[x]) + b * (G + g[x])
    <3> HIDE DEF F, G
    <3> QED BY <2>3, Regroup
  <2>5. SumFunctionOnSet(h, T \cup {x}) = (a * F + b * G) + (a * f[x] + b * g[x])
    BY <2>2, <1>3
  <2> HIDE DEF F, G
  <2>6. SumFunctionOnSet(h, T \cup {x}) = a * (F + f[x]) + b * (G + g[x])
    BY <2>4, <2>5
  <2> QED BY <2>2, <2>6
<1>4. S \in Good
  <2> HIDE DEF Good
  <2> QED BY <1>1, <1>3, SumInduction
<1> QED BY <1>4

(* Nothing but zeros. *)
LEMMA SumOfZeros ==
    ASSUME NEW S, IsFiniteSet(S), NEW f, \A x \in S : f[x] = 0
    PROVE  SumFunctionOnSet(f, S) = 0
<1>1. \A x \in S : f[x] \in Int /\ f[x] = 0 * f[x] + 0 * f[x]
  OBVIOUS
<1>2. SumFunctionOnSet(f, S) = 0 * SumFunctionOnSet(f, S) + 0 * SumFunctionOnSet(f, S)
  BY <1>1, SumIsLinear
<1>3. SumFunctionOnSet(f, S) \in Int
  BY <1>1, SumType
<1> QED BY <1>2, <1>3
=============================================================================
