-------------------------- MODULE InductionTheorems --------------------------
(***************************************************************************)
(* Induction over finite sets and over numbers, and with it facts about     *)
(* SumFunctionOnSet(f, S), the sum of f[x] over a finite set S, in which    *)
(* the ledgers of this project are stated, about loops, and about           *)
(* quotients and remainders.                                                *)
(*                                                                          *)
(* The provers cannot instantiate an operator, so what is proved by         *)
(* induction is given as the set of those that have it.  The argument is a  *)
(* least counterexample: strict inclusion is well founded on finite sets,   *)
(* and less-than on numbers.                                                *)
(***************************************************************************)
EXTENDS Functions, FiniteSetTheorems, WellFoundedInduction, TLAPS

\* The element the fold takes from s.
pick(s) == CHOOSE x \in s : TRUE

\* g is a solution of the recursion the fold over S is defined by.
Solves(g, f, S) ==
    g = [s \in SUBSET S |-> IF s = {} THEN 0 ELSE f[pick(s)] + g[s \ {pick(s)}]]

SolutionOf(f, S) == CHOOSE g : Solves(g, f, S)

-----------------------------------------------------------------------------
(* Induction over finite sets *)

\* Strict inclusion is well founded on the subsets of a finite set: what holds
\* of a subset when it holds of all smaller ones holds of the set.
LEMMA SubsetInduction ==
    ASSUME NEW S, IsFiniteSet(S), NEW Good,
           \A T \in SUBSET S : (\A U \in SUBSET T : U # T => U \in Good) => T \in Good
    PROVE  S \in Good
  <1> DEFINE Bad == (SUBSET S) \ Good
  <1>1. SUFFICES ASSUME Bad # {} PROVE FALSE
    OBVIOUS
  <1>2. IsWellFoundedOn(StrictSubsetOrdering(S), FiniteSubsetsOf(S))
    BY FS_StrictSubsetOrderingWellFounded
  <1>3. Bad \subseteq FiniteSubsetsOf(S)
    BY FS_Subset DEF FiniteSubsetsOf
  <1>4. \E T \in Bad : \A U \in Bad : ~ (<<U, T>> \in StrictSubsetOrdering(S))
    <2> HIDE DEF Bad
    <2> QED BY <1>1, <1>2, <1>3, WFMin
  <1>5. PICK T \in Bad : \A U \in Bad : ~ (<<U, T>> \in StrictSubsetOrdering(S))
    BY <1>4
  <1>6. ASSUME NEW U \in SUBSET T, U # T
        PROVE  U \in Good
    <2>1. <<U, T>> \in StrictSubsetOrdering(S)
      BY <1>6 DEF StrictSubsetOrdering
    <2> QED BY <1>5, <2>1
  <1> QED BY <1>5, <1>6

\* The element the fold takes is one of the set.
LEMMA PickIn == \A s : s # {} => pick(s) \in s
  BY DEF pick

\* Induction along the elements the fold takes.
LEMMA PickInduction ==
    ASSUME NEW S, IsFiniteSet(S), NEW Good, {} \in Good,
           \A T \in SUBSET S : T # {} /\ T \ {pick(T)} \in Good => T \in Good
    PROVE  S \in Good
  <1>1. ASSUME NEW T \in SUBSET S, \A U \in SUBSET T : U # T => U \in Good
        PROVE  T \in Good
    <2>1. CASE T = {}
      BY <2>1
    <2>2. CASE T # {}
      <3>1. pick(T) \in T
        BY <2>2, PickIn
      <3>2. T \ {pick(T)} \in Good
        BY <1>1, <3>1
      <3> QED BY <2>2, <3>2
    <2> QED BY <2>1, <2>2
  <1> QED BY <1>1, SubsetInduction

-----------------------------------------------------------------------------
(* The recursion has one solution *)

\* The fold is the solution of its recursion, taken at the whole set.
LEMMA SumIsSolution ==
    ASSUME NEW f, NEW S
    PROVE  SumFunctionOnSet(f, S) = SolutionOf(f, S)[S]
  BY DEF SumFunctionOnSet, FoldFunctionOnSet, MapThenFoldSet, SolutionOf, Solves, pick

\* What a solution is at each subset.
LEMMA SolutionAt ==
    ASSUME NEW f, NEW S, NEW g, Solves(g, f, S), NEW s \in SUBSET S
    PROVE  g[s] = IF s = {} THEN 0 ELSE f[pick(s)] + g[s \ {pick(s)}]
  BY DEF Solves

\* Two solutions agree wherever both are defined.
LEMMA SolutionsAgree ==
    ASSUME NEW f, NEW S, NEW T, T \subseteq S,
           NEW g, Solves(g, f, S), NEW h, Solves(h, f, T), IsFiniteSet(T)
    PROVE  g[T] = h[T]
  <1> DEFINE Good == {s \in SUBSET T : g[s] = h[s]}
  <1>1. {} \in Good
    BY SolutionAt
  <1>2. ASSUME NEW s \in SUBSET T, s # {}, s \ {pick(s)} \in Good
        PROVE  s \in Good
    <2>1. g[s] = f[pick(s)] + g[s \ {pick(s)}]
      BY <1>2, SolutionAt
    <2>2. h[s] = f[pick(s)] + h[s \ {pick(s)}]
      BY <1>2, SolutionAt
    <2> QED BY <1>2, <2>1, <2>2
  <1>3. T \in Good
    <2> HIDE DEF Good
    <2> QED BY <1>1, <1>2, PickInduction
  <1> QED BY <1>3

\* There is a solution over every finite set.
LEMMA SolutionExists ==
    ASSUME NEW f, NEW S, IsFiniteSet(S)
    PROVE  \E g : Solves(g, f, S)
  <1> DEFINE Good == {T \in SUBSET S : \E g : Solves(g, f, T)}
  <1>1. ASSUME NEW T \in SUBSET S, \A U \in SUBSET T : U # T => U \in Good
        PROVE  T \in Good
    <2> DEFINE at(s) == SolutionOf(f, s)[s]
               value(s) == IF s = {} THEN 0 ELSE f[pick(s)] + at(s \ {pick(s)})
               g == [s \in SUBSET T |-> value(s)]
    <2>1. ASSUME NEW s \in SUBSET T, s # T
          PROVE  Solves(SolutionOf(f, s), f, s)
      <3>1. \E k : Solves(k, f, s)
        BY <1>1, <2>1
      <3> QED BY <3>1 DEF SolutionOf
    <2>2. ASSUME NEW s \in SUBSET T, s # T
          PROVE  at(s) = value(s)
      <3> DEFINE t == s \ {pick(s)}
      <3>1. at(s) = IF s = {} THEN 0 ELSE f[pick(s)] + SolutionOf(f, s)[t]
        BY <2>1, <2>2, SolutionAt
      <3>2. ASSUME s # {} PROVE SolutionOf(f, s)[t] = SolutionOf(f, t)[t]
        <4>1. pick(s) \in s
          BY <3>2, PickIn
        <4>2. t \in SUBSET T /\ t # T /\ t \subseteq s /\ IsFiniteSet(t)
          BY <4>1, FS_Subset
        <4>3. Solves(SolutionOf(f, s), f, s) /\ Solves(SolutionOf(f, t), f, t)
          BY <2>1, <2>2, <4>2
        <4> HIDE DEF t
        <4> QED BY <4>2, <4>3, SolutionsAgree
      <3> QED BY <3>1, <3>2
    <2>3. ASSUME NEW s \in SUBSET T
          PROVE  g[s] = IF s = {} THEN 0 ELSE f[pick(s)] + g[s \ {pick(s)}]
      <3>1. CASE s = {}
        BY <3>1
      <3>2. CASE s # {}
        <4> DEFINE t == s \ {pick(s)}
        <4>1. t \in SUBSET T /\ t # T
          BY <3>2, PickIn
        <4>2. at(t) = value(t)
          BY <2>2, <4>1
        <4>3. g[t] = value(t) /\ g[s] = value(s)
          BY <4>1
        <4>4. value(s) = f[pick(s)] + at(t)
          BY <3>2
        <4> HIDE DEF value, at, g
        <4> QED BY <3>2, <4>2, <4>3, <4>4
      <3> QED BY <3>1, <3>2
    <2>4. Solves(g, f, T)
      <3> HIDE DEF value
      <3> QED BY <2>3 DEF Solves
    <2> QED BY <2>4
  <1>2. S \in Good
    <2> HIDE DEF Good
    <2> QED BY <1>1, SubsetInduction
  <1> QED BY <1>2

\* The solution the fold takes is one.
LEMMA SolutionSolves ==
    ASSUME NEW f, NEW S, IsFiniteSet(S)
    PROVE  Solves(SolutionOf(f, S), f, S)
  BY SolutionExists DEF SolutionOf

-----------------------------------------------------------------------------
(* Sums *)

\* An empty sum is zero.
LEMMA SumEmpty ==
    ASSUME NEW f
    PROVE  SumFunctionOnSet(f, {}) = 0
  <1>1. Solves(SolutionOf(f, {}), f, {})
    BY SolutionSolves, FS_EmptySet
  <1> QED BY <1>1, SumIsSolution, SolutionAt

\* A sum is the element the fold takes first and the sum of the rest.
LEMMA SumPick ==
    ASSUME NEW f, NEW S, IsFiniteSet(S), S # {}
    PROVE  SumFunctionOnSet(f, S) = f[pick(S)] + SumFunctionOnSet(f, S \ {pick(S)})
  <1> DEFINE T == S \ {pick(S)}
  <1>1. T \subseteq S /\ IsFiniteSet(T)
    BY FS_Subset
  <1>2. Solves(SolutionOf(f, S), f, S) /\ Solves(SolutionOf(f, T), f, T)
    BY <1>1, SolutionSolves
  <1>3. SolutionOf(f, S)[T] = SolutionOf(f, T)[T]
    <2> HIDE DEF T
    <2> QED BY <1>1, <1>2, SolutionsAgree
  <1>4. SolutionOf(f, S)[S] = f[pick(S)] + SolutionOf(f, S)[T]
    BY <1>2, SolutionAt
  <1> QED BY <1>3, <1>4, SumIsSolution

\* A sum of integers is an integer.
LEMMA SumInt ==
    ASSUME NEW f, NEW S, IsFiniteSet(S), \A x \in S : f[x] \in Int
    PROVE  SumFunctionOnSet(f, S) \in Int
  <1> DEFINE Good == {T \in SUBSET S : SumFunctionOnSet(f, T) \in Int}
  <1>1. {} \in Good
    BY SumEmpty
  <1>2. ASSUME NEW T \in SUBSET S, T # {}, T \ {pick(T)} \in Good
        PROVE  T \in Good
    <2>1. pick(T) \in T /\ IsFiniteSet(T)
      BY <1>2, PickIn, FS_Subset
    <2>2. SumFunctionOnSet(f, T) = f[pick(T)] + SumFunctionOnSet(f, T \ {pick(T)})
      BY <1>2, <2>1, SumPick
    <2> QED BY <1>2, <2>1, <2>2
  <1>3. S \in Good
    <2> HIDE DEF Good
    <2> QED BY <1>1, <1>2, PickInduction
  <1> QED BY <1>3

\* A sum of natural numbers is a natural number.
LEMMA SumNat ==
    ASSUME NEW f, NEW S, IsFiniteSet(S), \A x \in S : f[x] \in Nat
    PROVE  SumFunctionOnSet(f, S) \in Nat
  <1> DEFINE Good == {T \in SUBSET S : SumFunctionOnSet(f, T) \in Nat}
  <1>1. {} \in Good
    BY SumEmpty
  <1>2. ASSUME NEW T \in SUBSET S, T # {}, T \ {pick(T)} \in Good
        PROVE  T \in Good
    <2>1. pick(T) \in T /\ IsFiniteSet(T)
      BY <1>2, PickIn, FS_Subset
    <2>2. SumFunctionOnSet(f, T) = f[pick(T)] + SumFunctionOnSet(f, T \ {pick(T)})
      BY <1>2, <2>1, SumPick
    <2> QED BY <1>2, <2>1, <2>2
  <1>3. S \in Good
    <2> HIDE DEF Good
    <2> QED BY <1>1, <1>2, PickInduction
  <1> QED BY <1>3

\* Any element may be taken out of a sum.
LEMMA SumRemove ==
    ASSUME NEW f, NEW S, IsFiniteSet(S), \A x \in S : f[x] \in Int, NEW e \in S
    PROVE  SumFunctionOnSet(f, S) = f[e] + SumFunctionOnSet(f, S \ {e})
  <1> DEFINE Sum(T) == SumFunctionOnSet(f, T)
             Good == {T \in SUBSET S : \A x \in T : Sum(T) = f[x] + Sum(T \ {x})}
  <1>1. ASSUME NEW T \in SUBSET S, \A U \in SUBSET T : U # T => U \in Good
        PROVE  T \in Good
    <2> SUFFICES ASSUME NEW x \in T PROVE Sum(T) = f[x] + Sum(T \ {x})
      OBVIOUS
    <2> DEFINE y == pick(T)
               R == (T \ {x}) \ {y}
    <2>1. y \in T /\ IsFiniteSet(T) /\ IsFiniteSet(R)
      BY PickIn, FS_Subset
    <2>2. Sum(T) = f[y] + Sum(T \ {y})
      BY <2>1, SumPick
    <2>3. ASSUME x # y PROVE Sum(T \ {y}) = f[x] + Sum(R)
      <3>1. T \ {y} \in Good
        BY <1>1, <2>1
      <3>2. x \in T \ {y} /\ (T \ {y}) \ {x} = R
        BY <2>3
      <3> HIDE DEF R, Sum, y
      <3> QED BY <3>1, <3>2
    <2>4. ASSUME x # y PROVE Sum(T \ {x}) = f[y] + Sum(R)
      <3>1. T \ {x} \in Good
        BY <1>1
      <3>2. y \in T \ {x} /\ (T \ {x}) \ {y} = R
        BY <2>1, <2>4
      <3> HIDE DEF R, Sum, y
      <3> QED BY <3>1, <3>2
    <2>5. f[x] \in Int /\ f[y] \in Int /\ Sum(R) \in Int
      <3>1. \A z \in R : f[z] \in Int
        OBVIOUS
      <3> HIDE DEF R
      <3> QED BY <2>1, <3>1, SumInt
    <2>6. CASE x = y
      BY <2>2, <2>6
    <2>7. CASE x # y
      <3>1. Sum(T) = f[y] + (f[x] + Sum(R)) /\ Sum(T \ {x}) = f[y] + Sum(R)
        BY <2>2, <2>3, <2>4, <2>7
      <3> HIDE DEF Sum, y, R
      <3> QED BY <2>5, <3>1
    <2> QED BY <2>6, <2>7
  <1>2. S \in Good
    <2> HIDE DEF Good
    <2> QED BY <1>1, SubsetInduction
  <1> QED BY <1>2

\* An element that is not there may be added to a sum.
LEMMA SumAdd ==
    ASSUME NEW f, NEW S, IsFiniteSet(S), NEW e, e \notin S, \A x \in S \cup {e} : f[x] \in Int
    PROVE  SumFunctionOnSet(f, S \cup {e}) = f[e] + SumFunctionOnSet(f, S)
  <1>1. IsFiniteSet(S \cup {e})
    BY FS_AddElement
  <1>2. (S \cup {e}) \ {e} = S
    OBVIOUS
  <1>3. SumFunctionOnSet(f, S \cup {e}) = f[e] + SumFunctionOnSet(f, (S \cup {e}) \ {e})
    BY <1>1, SumRemove
  <1> QED BY <1>2, <1>3

\* A sum depends on the values over its set alone.
LEMMA SumEqual ==
    ASSUME NEW f, NEW g, NEW S, IsFiniteSet(S), \A x \in S : f[x] = g[x]
    PROVE  SumFunctionOnSet(f, S) = SumFunctionOnSet(g, S)
  <1> DEFINE Good == {T \in SUBSET S : SumFunctionOnSet(f, T) = SumFunctionOnSet(g, T)}
  <1>1. {} \in Good
    BY SumEmpty
  <1>2. ASSUME NEW T \in SUBSET S, T # {}, T \ {pick(T)} \in Good
        PROVE  T \in Good
    <2>1. pick(T) \in T /\ IsFiniteSet(T)
      BY <1>2, PickIn, FS_Subset
    <2>2. SumFunctionOnSet(f, T) = f[pick(T)] + SumFunctionOnSet(f, T \ {pick(T)})
      BY <1>2, <2>1, SumPick
    <2>3. SumFunctionOnSet(g, T) = g[pick(T)] + SumFunctionOnSet(g, T \ {pick(T)})
      BY <1>2, <2>1, SumPick
    <2> QED BY <1>2, <2>1, <2>2, <2>3
  <1>3. S \in Good
    <2> HIDE DEF Good
    <2> QED BY <1>1, <1>2, PickInduction
  <1> QED BY <1>3

\* When one value changes, the sum changes by as much.
LEMMA SumChange ==
    ASSUME NEW f, NEW g, NEW S, IsFiniteSet(S), NEW e \in S,
           \A x \in S : f[x] \in Int /\ g[x] \in Int,
           \A x \in S \ {e} : f[x] = g[x]
    PROVE  SumFunctionOnSet(g, S) = SumFunctionOnSet(f, S) - f[e] + g[e]
  <1>1. SumFunctionOnSet(f, S) = f[e] + SumFunctionOnSet(f, S \ {e})
    BY SumRemove
  <1>2. SumFunctionOnSet(g, S) = g[e] + SumFunctionOnSet(g, S \ {e})
    BY SumRemove
  <1>3. IsFiniteSet(S \ {e})
    BY FS_Subset
  <1>4. SumFunctionOnSet(f, S \ {e}) = SumFunctionOnSet(g, S \ {e})
    BY <1>3, SumEqual
  <1>5. SumFunctionOnSet(f, S \ {e}) \in Int
    BY <1>3, SumInt
  <1> QED BY <1>1, <1>2, <1>4, <1>5

\* The sum of sums is the sum of both.
LEMMA SumPlus ==
    ASSUME NEW f, NEW g, NEW h, NEW S, IsFiniteSet(S),
           \A x \in S : f[x] \in Int /\ g[x] \in Int /\ h[x] = f[x] + g[x]
    PROVE  SumFunctionOnSet(h, S) = SumFunctionOnSet(f, S) + SumFunctionOnSet(g, S)
  <1> DEFINE Sum(k, T) == SumFunctionOnSet(k, T)
             Good == {T \in SUBSET S : Sum(h, T) = Sum(f, T) + Sum(g, T)}
  <1>1. {} \in Good
    BY SumEmpty
  <1>2. ASSUME NEW T \in SUBSET S, T # {}, T \ {pick(T)} \in Good
        PROVE  T \in Good
    <2> DEFINE x == pick(T)
               U == T \ {x}
    <2>1. x \in T /\ IsFiniteSet(T) /\ IsFiniteSet(U)
      BY <1>2, PickIn, FS_Subset
    <2>2. Sum(h, U) = Sum(f, U) + Sum(g, U)
      BY <1>2
    <2>3. Sum(h, T) = h[x] + Sum(h, U)
      BY <1>2, <2>1, SumPick
    <2>4. Sum(f, T) = f[x] + Sum(f, U)
      BY <1>2, <2>1, SumPick
    <2>5. Sum(g, T) = g[x] + Sum(g, U)
      BY <1>2, <2>1, SumPick
    <2>6. \A y \in U : f[y] \in Int /\ g[y] \in Int
      OBVIOUS
    <2>7. Sum(f, U) \in Int /\ Sum(g, U) \in Int
      <3> HIDE DEF U
      <3> QED BY <2>1, <2>6, SumInt
    <2> HIDE DEF Sum, x, U
    <2> QED BY <2>1, <2>2, <2>3, <2>4, <2>5, <2>7
  <1>3. S \in Good
    <2> HIDE DEF Good
    <2> QED BY <1>1, <1>2, PickInduction
  <1> QED BY <1>3

\* A sum of zeros is zero.
LEMMA SumZero ==
    ASSUME NEW f, NEW S, IsFiniteSet(S), \A x \in S : f[x] = 0
    PROVE  SumFunctionOnSet(f, S) = 0
  <1> DEFINE Good == {T \in SUBSET S : SumFunctionOnSet(f, T) = 0}
  <1>1. {} \in Good
    BY SumEmpty
  <1>2. ASSUME NEW T \in SUBSET S, T # {}, T \ {pick(T)} \in Good
        PROVE  T \in Good
    <2>1. pick(T) \in T /\ IsFiniteSet(T)
      BY <1>2, PickIn, FS_Subset
    <2>2. SumFunctionOnSet(f, T) = f[pick(T)] + SumFunctionOnSet(f, T \ {pick(T)})
      BY <1>2, <2>1, SumPick
    <2> QED BY <1>2, <2>1, <2>2
  <1>3. S \in Good
    <2> HIDE DEF Good
    <2> QED BY <1>1, <1>2, PickInduction
  <1> QED BY <1>3

\* A term of a sum of natural numbers is at most the sum.
LEMMA SumAtLeast ==
    ASSUME NEW f, NEW S, IsFiniteSet(S), \A x \in S : f[x] \in Nat, NEW e \in S
    PROVE  f[e] <= SumFunctionOnSet(f, S)
  <1>1. SumFunctionOnSet(f, S) = f[e] + SumFunctionOnSet(f, S \ {e})
    BY SumRemove
  <1>2. SumFunctionOnSet(f, S \ {e}) \in Nat
    BY FS_Subset, SumNat
  <1> QED BY <1>1, <1>2

\* Larger terms have a larger sum.
LEMMA SumMonotone ==
    ASSUME NEW f, NEW g, NEW S, IsFiniteSet(S),
           \A x \in S : f[x] \in Int /\ g[x] \in Int /\ f[x] <= g[x]
    PROVE  SumFunctionOnSet(f, S) <= SumFunctionOnSet(g, S)
  <1> DEFINE rest == [x \in S |-> g[x] - f[x]]
  <1>1. \A x \in S : rest[x] \in Nat /\ rest[x] \in Int /\ g[x] = f[x] + rest[x]
    OBVIOUS
  <1> HIDE DEF rest
  <1>2. SumFunctionOnSet(g, S) = SumFunctionOnSet(f, S) + SumFunctionOnSet(rest, S)
    BY <1>1, SumPlus
  <1>3. SumFunctionOnSet(rest, S) \in Nat /\ SumFunctionOnSet(f, S) \in Int
    BY <1>1, SumNat, SumInt
  <1> QED BY <1>2, <1>3

\* The sum over two sets that have nothing in common.
LEMMA SumUnion ==
    ASSUME NEW f, NEW A, NEW B, IsFiniteSet(A), IsFiniteSet(B), A \cap B = {},
           \A x \in A \cup B : f[x] \in Int
    PROVE  SumFunctionOnSet(f, A \cup B) = SumFunctionOnSet(f, A) + SumFunctionOnSet(f, B)
  <1> DEFINE Sum(T) == SumFunctionOnSet(f, T)
             Good == {T \in SUBSET B : Sum(A \cup T) = Sum(A) + Sum(T)}
  <1>1. {} \in Good
    <2>1. A \cup {} = A /\ Sum({}) = 0 /\ Sum(A) \in Int
      BY SumEmpty, SumInt
    <2> QED BY <2>1
  <1>2. ASSUME NEW T \in SUBSET B, T # {}, T \ {pick(T)} \in Good PROVE T \in Good
    <2> DEFINE e == pick(T)
               U == T \ {e}
    <2>1. e \in T
      BY <1>2, PickIn
    <2> HIDE DEF e
    <2>2. Sum(A \cup U) = Sum(A) + Sum(U)
      BY <1>2 DEF e
    <2>3. IsFiniteSet(U) /\ IsFiniteSet(A \cup U)
      BY FS_Subset, FS_Union
    <2>4. T = U \cup {e} /\ A \cup T = (A \cup U) \cup {e} /\ e \notin U /\ e \notin A \cup U
      BY <2>1
    <2>5. Sum(U \cup {e}) = f[e] + Sum(U)
      BY <2>1, <2>3, <2>4, SumAdd
    <2>6. Sum((A \cup U) \cup {e}) = f[e] + Sum(A \cup U)
      BY <2>1, <2>3, <2>4, SumAdd
    <2>7. f[e] \in Int /\ Sum(A) \in Int /\ Sum(U) \in Int
      <3>1. \A x \in U : f[x] \in Int
        OBVIOUS
      <3> HIDE DEF U
      <3> QED BY <2>1, <2>3, <3>1, SumInt
    <2>8. Sum(A \cup T) = Sum((A \cup U) \cup {e}) /\ Sum(T) = Sum(U \cup {e})
      BY <2>4
    <2> HIDE DEF Sum, U
    <2> QED BY <2>2, <2>5, <2>6, <2>7, <2>8
  <1> HIDE DEF Good
  <1>3. B \in Good
    BY <1>1, <1>2, PickInduction
  <1> QED BY <1>3 DEF Good

\* Summing what each of O has of K is summing K, when each of K is of one of O.
LEMMA SumGrouped ==
    ASSUME NEW K, NEW O, IsFiniteSet(K), IsFiniteSet(O),
           NEW who \in [K -> O], NEW q \in [K -> Int]
    PROVE  SumFunctionOnSet(
             [o \in O |-> SumFunctionOnSet([k \in K |-> IF who[k] = o THEN q[k] ELSE 0], K)], O)
             = SumFunctionOnSet(q, K)
  <1> DEFINE part(o) == [k \in K |-> IF who[k] = o THEN q[k] ELSE 0]
             shares(T) == [o \in O |-> SumFunctionOnSet(part(o), T)]
             Good == {T \in SUBSET K : SumFunctionOnSet(shares(T), O) = SumFunctionOnSet(q, T)}
  <1>p. \A o \in O : \A k \in K : part(o)[k] \in Int
    OBVIOUS
  <1>1. {} \in Good
    <2>1. \A o \in O : shares({})[o] = 0
      BY SumEmpty
    <2> HIDE DEF shares
    <2>2. SumFunctionOnSet(shares({}), O) = 0
      BY <2>1, SumZero
    <2> QED BY <2>2, SumEmpty
  <1>2. ASSUME NEW T \in SUBSET K, T # {}, T \ {pick(T)} \in Good PROVE T \in Good
    <2> DEFINE e == pick(T)
               U == T \ {e}
               one == [o \in O |-> IF who[e] = o THEN q[e] ELSE 0]
    <2>1. e \in T
      BY <1>2, PickIn
    <2>2. SumFunctionOnSet(shares(U), O) = SumFunctionOnSet(q, U)
      BY <1>2
    <2> HIDE DEF e
    <2>3. IsFiniteSet(T) /\ IsFiniteSet(U)
      BY FS_Subset
    <2>4. ASSUME NEW o \in O
          PROVE  /\ shares(U)[o] \in Int /\ one[o] \in Int
                 /\ shares(T)[o] = shares(U)[o] + one[o]
      <3>1. \A k \in T : part(o)[k] \in Int
        BY <1>p
      <3>2. part(o)[e] = one[o] /\ one[o] \in Int
        BY <2>1
      <3> HIDE DEF part
      <3>3. SumFunctionOnSet(part(o), T) = part(o)[e] + SumFunctionOnSet(part(o), U)
        BY <2>1, <2>3, <3>1, SumRemove
      <3>4. SumFunctionOnSet(part(o), U) \in Int
        BY <2>3, <3>1, SumInt
      <3>5. shares(T)[o] = SumFunctionOnSet(part(o), T) /\ shares(U)[o] = SumFunctionOnSet(part(o), U)
        OBVIOUS
      <3> HIDE DEF shares, one
      <3> QED BY <3>2, <3>3, <3>4, <3>5
    <2> HIDE DEF shares
    <2>5. SumFunctionOnSet(shares(T), O) = SumFunctionOnSet(shares(U), O) + SumFunctionOnSet(one, O)
      <3> HIDE DEF one, U
      <3> QED BY <2>4, SumPlus
    <2>6. SumFunctionOnSet(one, O) = q[e]
      <3> DEFINE w == who[e]
      <3>1. w \in O /\ one[w] = q[e] /\ q[e] \in Int
        BY <2>1
      <3>2. \A o \in O : one[o] \in Int
        BY <2>4
      <3>3. \A o \in O \ {w} : one[o] = 0
        OBVIOUS
      <3> HIDE DEF one, w
      <3>4. SumFunctionOnSet(one, O) = one[w] + SumFunctionOnSet(one, O \ {w})
        BY <3>1, <3>2, SumRemove
      <3>5. IsFiniteSet(O \ {w})
        BY FS_Subset
      <3>6. SumFunctionOnSet(one, O \ {w}) = 0
        BY <3>3, <3>5, SumZero
      <3> QED BY <3>1, <3>4, <3>6
    <2>7. SumFunctionOnSet(q, T) = q[e] + SumFunctionOnSet(q, U)
      BY <2>1, <2>3, SumRemove
    <2>8. q[e] \in Int /\ SumFunctionOnSet(q, U) \in Int
      <3>1. \A k \in U : q[k] \in Int
        OBVIOUS
      <3> HIDE DEF U
      <3> QED BY <2>1, <2>3, <3>1, SumInt
    <2> HIDE DEF one, U
    <2>9. SumFunctionOnSet(shares(T), O) = SumFunctionOnSet(q, T)
      BY <2>2, <2>5, <2>6, <2>7, <2>8
    <2> QED BY <2>9
  <1> HIDE DEF Good
  <1>3. K \in Good
    BY <1>1, <1>2, PickInduction
  <1> QED BY <1>3 DEF Good

\* Zero and the terms over a finite set have a largest among them.
LEMMA LargestTerm ==
    ASSUME NEW f, NEW S, IsFiniteSet(S), \A x \in S : f[x] \in Nat
    PROVE  \E b \in {0} \cup {f[x] : x \in S} : \A x \in S : f[x] <= b
  <1> DEFINE Terms(T) == {0} \cup {f[x] : x \in T}
             Good == {T \in SUBSET S : \E b \in Terms(T) : \A x \in T : f[x] <= b}
  <1>1. {} \in Good
    OBVIOUS
  <1>2. ASSUME NEW T \in SUBSET S, T # {}, T \ {pick(T)} \in Good PROVE T \in Good
    <2> DEFINE e == pick(T)
               U == T \ {e}
    <2>1. e \in T
      BY <1>2, PickIn
    <2> HIDE DEF e
    <2>2. PICK b \in Terms(U) : \A x \in U : f[x] <= b
      BY <1>2 DEF e
    <2>3. Terms(U) \subseteq Terms(T) /\ f[e] \in Terms(T) /\ Terms(U) \subseteq Nat /\ f[e] \in Nat
      BY <2>1
    <2>4. \A x \in T : x = e \/ x \in U
      OBVIOUS
    <2> HIDE DEF Terms, U
    <2>5. CASE f[e] <= b
      BY <2>2, <2>3, <2>4, <2>5
    <2>6. CASE f[e] > b
      <3>1. \A x \in U : f[x] \in Nat
        BY DEF U
      <3>2. \A x \in T : f[x] <= f[e]
        BY <2>2, <2>3, <2>4, <2>6, <3>1
      <3> QED BY <2>3, <3>2
    <2> QED BY <2>2, <2>3, <2>5, <2>6
  <1>3. S \in Good
    <2> HIDE DEF Good
    <2> QED BY <1>1, <1>2, PickInduction
  <1> QED BY <1>3

-----------------------------------------------------------------------------
(* Induction over numbers *)

\* A set that has zero, and with a number its successor, has all numbers.
LEMMA NumberInduction ==
    ASSUME NEW Good, 0 \in Good, \A n \in Nat : n \in Good => n + 1 \in Good
    PROVE  Nat \subseteq Good
  <1> DEFINE Bad == Nat \ Good
  <1>1. SUFFICES ASSUME Bad # {} PROVE FALSE
    OBVIOUS
  <1>2. \E n \in Bad : \A m \in Bad : ~ (<<m, n>> \in OpToRel(<, Nat))
    <2>1. Bad \subseteq Nat
      OBVIOUS
    <2> HIDE DEF Bad
    <2> QED BY <1>1, <2>1, NatLessThanWellFounded, WFMin
  <1>3. PICK n \in Bad : \A m \in Bad : ~ (<<m, n>> \in OpToRel(<, Nat))
    BY <1>2
  <1>4. n # 0 /\ n - 1 \in Nat /\ n - 1 < n
    OBVIOUS
  <1>5. <<n - 1, n>> \in OpToRel(<, Nat)
    BY <1>4 DEF OpToRel
  <1>6. n - 1 \in Good
    BY <1>3, <1>4, <1>5
  <1> QED BY <1>4, <1>6

\* g[k] is what a loop has after k rounds: start, and then step of the last.
Rounds(g, n, start, step) ==
    g[0] = start /\ \A k \in 1..n : g[k] = step[<<k, g[k - 1]>>]

\* A loop has a value after every round.
LEMMA RoundsExist ==
    ASSUME NEW V, NEW start \in V, NEW step \in [Nat \X V -> V], NEW n \in Nat
    PROVE  \E g \in [0..n -> V] : Rounds(g, n, start, step)
  <1> DEFINE Good == {m \in Nat : \E g \in [0..m -> V] : Rounds(g, m, start, step)}
  <1>1. 0 \in Good
    <2> DEFINE g == [k \in 0..0 |-> start]
    <2>1. g \in [0..0 -> V] /\ Rounds(g, 0, start, step)
      BY DEF Rounds
    <2> QED BY <2>1
  <1>2. ASSUME NEW m \in Nat, m \in Good PROVE m + 1 \in Good
    <2>1. PICK g \in [0..m -> V] : Rounds(g, m, start, step)
      BY <1>2
    <2> DEFINE last == step[<<m + 1, g[m]>>]
               h == [k \in 0..m + 1 |-> IF k = m + 1 THEN last ELSE g[k]]
    <2>2. g[m] \in V
      OBVIOUS
    <2>3. last \in V
      BY <2>2
    <2> HIDE DEF last
    <2>4. h \in [0..m + 1 -> V]
      BY <2>3
    <2>5. h[0] = start
      BY <2>1 DEF Rounds
    <2>6. ASSUME NEW k \in 1..m + 1 PROVE h[k] = step[<<k, h[k - 1]>>]
      <3>1. CASE k = m + 1
        <4>1. h[k] = last /\ h[k - 1] = g[m]
          BY <3>1
        <4> QED BY <3>1, <4>1 DEF last
      <3>2. CASE k # m + 1
        <4>1. k \in 1..m /\ h[k] = g[k] /\ h[k - 1] = g[k - 1]
          BY <3>2
        <4> QED BY <2>1, <4>1 DEF Rounds
      <3> QED BY <3>1, <3>2
    <2>7. Rounds(h, m + 1, start, step)
      <3> HIDE DEF h
      <3> QED BY <2>5, <2>6 DEF Rounds
    <2> HIDE DEF h
    <2> QED BY <2>4, <2>7
  <1>3. n \in Good
    <2> HIDE DEF Good
    <2> QED BY <1>1, <1>2, NumberInduction
  <1> QED BY <1>3

-----------------------------------------------------------------------------
(* Whole numbers: remainders and quotients. *)

\* A quotient and its remainder.
LEMMA QuotientRemainder ==
    ASSUME NEW x \in Int, NEW m \in Nat \ {0}
    PROVE  x \div m \in Int /\ x % m \in 0..(m - 1) /\ x = m * (x \div m) + (x % m)
  OBVIOUS

\* Multiples of m whose difference is less than m are the same.
LEMMA RemainderUnique ==
    ASSUME NEW m \in Nat \ {0}, NEW p \in Int, NEW q \in Int,
           NEW r \in 0..(m - 1), NEW t \in 0..(m - 1), m * p + r = m * q + t
    PROVE  r = t
  <1>1. ASSUME NEW i \in Int, NEW j \in Int, i < j,
               NEW x \in 0..(m - 1), NEW y \in 0..(m - 1), m * i + x = m * j + y
        PROVE  FALSE
    <2>1. PICK e \in Nat : j = i + 1 + e
      <3>1. j - (i + 1) \in Nat /\ j = i + 1 + (j - (i + 1))
        BY <1>1
      <3> QED BY <3>1
    <2>2. m * j = m * i + m + m * e /\ m * e \in Nat /\ m * i \in Int
      BY <2>1
    <2> QED BY <1>1, <2>2
  <1>2. ~ (p < q) /\ ~ (q < p)
    BY <1>1
  <1>3. p = q
    BY <1>2
  <1>4. m * p \in Int
    OBVIOUS
  <1> QED BY <1>3, <1>4

\* Whole multiples do not change a remainder.
LEMMA RemainderShift ==
    ASSUME NEW m \in Nat \ {0}, NEW x \in Int, NEW w \in Int
    PROVE  (x + m * w) % m = x % m
  <1> DEFINE y == x + m * w
             p == x \div m
             r == x % m
             q == y \div m
             t == y % m
  <1>1. m * w \in Int /\ y \in Int
    OBVIOUS
  <1>2. p \in Int /\ r \in 0..(m - 1) /\ x = m * p + r
    BY QuotientRemainder
  <1>3. q \in Int /\ t \in 0..(m - 1) /\ y = m * q + t
    <2> HIDE DEF y
    <2> QED BY <1>1, QuotientRemainder
  <1>4. y = x + m * w
    OBVIOUS
  <1> HIDE DEF p, r, q, t, y
  <1>5. m * (p + w) = m * p + m * w /\ m * p \in Int /\ p + w \in Int
    BY <1>2
  <1>6. m * (p + w) + r = m * q + t
    BY <1>1, <1>2, <1>3, <1>4, <1>5
  <1>7. r = t
    BY <1>2, <1>3, <1>5, <1>6, RemainderUnique
  <1> QED BY <1>7 DEF r, t, y

\* A remainder differs from the number by a multiple.
LEMMA RemainderBy ==
    ASSUME NEW x \in Int, NEW m \in Nat \ {0}
    PROVE  x % m \in Nat /\ x % m < m /\ \E w \in Int : x % m = x + m * w
  <1> DEFINE q == x \div m
             r == x % m
             w == 0 - q
  <1>1. q \in Int /\ r \in 0..(m - 1) /\ x = m * q + r
    BY QuotientRemainder
  <1> HIDE DEF q, r
  <1>2. w \in Int /\ m * w = 0 - m * q /\ m * q \in Int
    BY <1>1
  <1> HIDE DEF w
  <1>3. r = x + m * w
    BY <1>1, <1>2
  <1>4. r \in Nat /\ r < m /\ \E v \in Int : r = x + m * v
    BY <1>1, <1>2, <1>3
  <1> QED BY <1>4 DEF r

\* What is at most c times d has a quotient of at most c.
LEMMA QuotientAtMost ==
    ASSUME NEW n \in Int, NEW d \in Nat \ {0}, NEW c \in Int, n <= c * d
    PROVE  n \div d <= c
  <1> DEFINE q == n \div d
             r == n % d
  <1>1. q \in Int /\ r \in 0..(d - 1) /\ n = d * q + r
    BY QuotientRemainder
  <1> HIDE DEF q, r
  <1>2. ASSUME q > c PROVE FALSE
    <2>1. PICK e \in Nat : q = c + 1 + e
      <3>1. q - (c + 1) \in Nat /\ q = c + 1 + (q - (c + 1))
        BY <1>1, <1>2
      <3> QED BY <3>1
    <2>2. d * q = c * d + d + d * e /\ d * e \in Nat /\ c * d \in Int
      BY <2>1
    <2> QED BY <1>1, <2>2
  <1>3. q <= c
    BY <1>1, <1>2
  <1> QED BY <1>3 DEF q

\* What is at least zero has a quotient of at least zero.
LEMMA QuotientNat ==
    ASSUME NEW n \in Nat, NEW d \in Nat \ {0}
    PROVE  n \div d \in Nat
  OBVIOUS

\* A factor of at most a whole leaves at most the whole.
LEMMA PartOfWhole ==
    ASSUME NEW rate \in Nat, NEW whole \in Nat, rate <= whole,
           NEW elapsed \in Int, NEW total \in Nat, elapsed <= total
    PROVE  rate * elapsed \in Int /\ rate * elapsed <= whole * total
  <1>0. rate * elapsed \in Int /\ whole * total \in Nat
    OBVIOUS
  <1>1. CASE elapsed < 0
    <2>1. PICK e \in Nat : elapsed = 0 - e
      <3>1. 0 - elapsed \in Nat /\ elapsed = 0 - (0 - elapsed)
        BY <1>1
      <3> QED BY <3>1
    <2>2. rate * elapsed = 0 - rate * e /\ rate * e \in Nat
      BY <2>1
    <2> QED BY <1>0, <2>2
  <1>2. CASE elapsed >= 0
    <2>1. PICK a \in Nat : whole = rate + a
      <3>1. whole - rate \in Nat /\ whole = rate + (whole - rate)
        OBVIOUS
      <3> QED BY <3>1
    <2>2. PICK f \in Nat : total = elapsed + f
      <3>1. total - elapsed \in Nat /\ total = elapsed + (total - elapsed)
        OBVIOUS
      <3> QED BY <3>1
    <2>3. elapsed \in Nat
      BY <1>2
    <2>4. whole * total = rate * elapsed + rate * f + a * elapsed + a * f
      BY <2>1, <2>2
    <2>5. rate * f \in Nat /\ a * elapsed \in Nat /\ a * f \in Nat
      BY <2>3
    <2> QED BY <1>0, <2>4, <2>5
  <1> QED BY <1>1, <1>2
=============================================================================
