----------------------------- MODULE SumTheorems -----------------------------
(***************************************************************************)
(* Sums over finite sets: what SumFunctionOnSet returns and how it changes *)
(* when the set or the function changes in one place.                      *)
(*                                                                         *)
(* The community modules define the sum by recursion on the set.  That the *)
(* recursion has a solution, and that the solution is unique, is proved by *)
(* taking a smallest set for which the statement fails.                    *)
(***************************************************************************)
EXTENDS Integers, FiniteSets, Functions, FiniteSetTheorems, WellFoundedInduction, TLAPS

(***************************************************************************)
(* A non-empty set of subsets of a finite set has a smallest member.       *)
(***************************************************************************)
LEMMA SmallestSubset ==
    ASSUME NEW S, IsFiniteSet(S), NEW Bad \in SUBSET (SUBSET S), Bad # {}
    PROVE  \E s \in Bad : \A t \in SUBSET s : t \in Bad => t = s
<1>1. IsWellFoundedOn(StrictSubsetOrdering(S), SUBSET S)
  BY FS_StrictSubsetOrderingWellFounded, FS_FiniteSubsetsOfFinite
<1>2. PICK s \in Bad : \A t \in Bad : ~ (<<t, s>> \in StrictSubsetOrdering(S))
  BY <1>1, WFMin
<1>3. ASSUME NEW t \in SUBSET s, t \in Bad, t # s
      PROVE  FALSE
  BY <1>2, <1>3 DEF StrictSubsetOrdering
<1> QED
  BY <1>2, <1>3

(***************************************************************************)
(* Induction up to n: a nonempty set of indices has a least one.           *)
(***************************************************************************)
LEMMA LeastIndex ==
    ASSUME NEW n \in Nat, NEW B \in SUBSET (0 .. n), B # {}
    PROVE  \E m \in B : \A k \in B : m <= k
<1> DEFINE Bad == {0 .. m : m \in B}
           whole == 0 .. n
<1>1. IsFiniteSet(whole)
  BY FS_Interval
<1>2. Bad \in SUBSET (SUBSET whole) /\ Bad # {}
  <2>1. ASSUME NEW m \in B
        PROVE  0 .. m \in SUBSET whole
    <3>1. m \in Nat /\ m <= n
      OBVIOUS
    <3> QED
      BY <3>1
  <2> QED
    BY <2>1
<1> HIDE DEF whole
<1>3. PICK s \in Bad : \A t \in SUBSET s : t \in Bad => t = s
  <2> HIDE DEF Bad
  <2> QED
    BY <1>1, <1>2, SmallestSubset
<1>4. PICK m \in B : s = 0 .. m
  OBVIOUS
<1>5. ASSUME NEW k \in B, k < m
      PROVE  FALSE
  <2>1. 0 .. k \in SUBSET s /\ 0 .. k \in Bad
    BY <1>4, <1>5
  <2>2. 0 .. k = s
    BY <1>3, <2>1
  <2>3. m \in 0 .. m
    BY <1>4
  <2> QED
    BY <1>4, <1>5, <2>2, <2>3
<1> QED
  BY <1>4, <1>5

(***************************************************************************)
(* What holds at 0 and from each index to the next holds up to the last.   *)
(***************************************************************************)
LEMMA StepByStep ==
    ASSUME NEW n \in Nat, NEW Good \in SUBSET (0 .. n), 0 \in Good,
           \A m \in 1 .. n : m - 1 \in Good => m \in Good
    PROVE  Good = 0 .. n
<1> DEFINE Bad == (0 .. n) \ Good
<1>1. SUFFICES ASSUME Bad # {} PROVE FALSE
  OBVIOUS
<1>2. PICK m \in Bad : \A k \in Bad : m <= k
  <2>1. Bad \in SUBSET (0 .. n)
    OBVIOUS
  <2> HIDE DEF Bad
  <2> QED
    BY <1>1, <2>1, LeastIndex
<1>3. m \in 1 .. n
  BY <1>2
<1>4. m - 1 \in Good
  BY <1>2, <1>3
<1> QED
  BY <1>3, <1>4

-----------------------------------------------------------------------------
(* The recursion. *)

Chosen(s) == CHOOSE x \in s : TRUE

\* g solves the recursion that defines the sum of f, on the subsets of S.
Solves(f, S, g) ==
    g = [s \in SUBSET S |-> IF s = {} THEN 0 ELSE f[Chosen(s)] + g[s \ {Chosen(s)}]]

Solution(f, S) == CHOOSE g : Solves(f, S, g)

(***************************************************************************)
(* SumFunctionOnSet is the value of the solution at the whole set.         *)
(***************************************************************************)
LEMMA SumIsSolution ==
    ASSUME NEW f, NEW S
    PROVE  SumFunctionOnSet(f, S) = Solution(f, S)[S]
  BY DEF SumFunctionOnSet, FoldFunctionOnSet, MapThenFoldSet, Solution, Solves, Chosen

LEMMA ChosenInSet ==
    ASSUME NEW s, s # {}
    PROVE  Chosen(s) \in s
  BY DEF Chosen

LEMMA SolutionEmpty ==
    ASSUME NEW f, NEW S, NEW g, Solves(f, S, g)
    PROVE  g[{}] = 0
  BY DEF Solves

LEMMA SolutionStep ==
    ASSUME NEW f, NEW S, NEW g, Solves(f, S, g), NEW s, s \in SUBSET S, s # {}
    PROVE  g[s] = f[Chosen(s)] + g[s \ {Chosen(s)}]
  BY DEF Solves

(***************************************************************************)
(* Two solutions agree wherever both are defined.                          *)
(***************************************************************************)
LEMMA SolutionsAgree ==
    ASSUME NEW f, NEW S, IsFiniteSet(S), NEW T, NEW g, NEW h,
           Solves(f, S, g), Solves(f, T, h), NEW s \in SUBSET S, s \in SUBSET T
    PROVE  g[s] = h[s]
<1> DEFINE Bad == {t \in SUBSET S : t \in SUBSET T /\ g[t] # h[t]}
<1> SUFFICES ASSUME Bad # {} PROVE FALSE
  OBVIOUS
<1>1. PICK t \in Bad : \A u \in SUBSET t : u \in Bad => u = t
  <2>1. Bad \in SUBSET (SUBSET S)
    OBVIOUS
  <2> HIDE DEF Bad
  <2> QED
    BY <2>1, SmallestSubset
<1>2. /\ t \in SUBSET S
      /\ t \in SUBSET T
      /\ g[t] # h[t]
  OBVIOUS
<1>3. CASE t = {}
  BY <1>2, <1>3, SolutionEmpty
<1>4. CASE t # {}
  <2>1. Chosen(t) \in t
    BY <1>4, ChosenInSet
  <2>2. t \ {Chosen(t)} \notin Bad
    BY <1>1, <2>1
  <2>3. g[t \ {Chosen(t)}] = h[t \ {Chosen(t)}]
    BY <1>2, <2>2
  <2>4. g[t] = f[Chosen(t)] + g[t \ {Chosen(t)}]
    BY <1>2, <1>4, SolutionStep
  <2>5. h[t] = f[Chosen(t)] + h[t \ {Chosen(t)}]
    BY <1>2, <1>4, SolutionStep
  <2> QED
    BY <1>2, <2>3, <2>4, <2>5
<1> QED
  BY <1>3, <1>4

(***************************************************************************)
(* A finite set has a solution.  For a smallest subset without one, the    *)
(* solutions of its strict subsets are put together.                       *)
(***************************************************************************)
LEMMA SolutionExists ==
    ASSUME NEW f, NEW S, IsFiniteSet(S)
    PROVE  Solves(f, S, Solution(f, S))
<1> DEFINE Bad == {t \in SUBSET S : \A g : ~Solves(f, t, g)}
<1>1. SUFFICES S \notin Bad
  BY DEF Solution
<1> SUFFICES ASSUME Bad # {} PROVE FALSE
  OBVIOUS
<1>2. PICK T \in Bad : \A u \in SUBSET T : u \in Bad => u = T
  <2>1. Bad \in SUBSET (SUBSET S)
    OBVIOUS
  <2> HIDE DEF Bad
  <2> QED
    BY <2>1, SmallestSubset
<1>3. T \in SUBSET S /\ IsFiniteSet(T)
  BY FS_Subset
<1>4. ASSUME NEW u \in SUBSET T, u # T
      PROVE  IsFiniteSet(u) /\ Solves(f, u, Solution(f, u))
  <2>1. \E g : Solves(f, u, g)
    BY <1>2, <1>3, <1>4
  <2> QED
    BY <2>1, <1>3, <1>4, FS_Subset DEF Solution
<1> DEFINE value[u \in SUBSET T] ==
             IF u = {} THEN 0
             ELSE f[Chosen(u)] + Solution(f, u \ {Chosen(u)})[u \ {Chosen(u)}]
<1>0. value = [u \in SUBSET T |-> IF u = {} THEN 0
             ELSE f[Chosen(u)] + Solution(f, u \ {Chosen(u)})[u \ {Chosen(u)}]]
  OBVIOUS
<1> HIDE DEF value
<1>5. ASSUME NEW u \in SUBSET T, u # T
      PROVE  value[u] = Solution(f, u)[u]
  <2>1. CASE u = {}
    BY <1>0, <1>4, <1>5, <2>1, SolutionEmpty
  <2>2. CASE u # {}
    <3> DEFINE v == u \ {Chosen(u)}
    <3>1. Chosen(u) \in u
      BY <2>2, ChosenInSet
    <3>2. v \in SUBSET T /\ v # T /\ v \in SUBSET u
      BY <3>1
    <3>3. Solution(f, u)[u] = f[Chosen(u)] + Solution(f, u)[v]
      BY <1>4, <1>5, <2>2, SolutionStep
    <3>4. Solution(f, v)[v] = Solution(f, u)[v]
      <4>1. Solves(f, v, Solution(f, v)) /\ IsFiniteSet(v)
        BY <1>4, <3>2
      <4>2. Solves(f, u, Solution(f, u))
        BY <1>4, <1>5
      <4>3. v \in SUBSET v /\ v \in SUBSET u
        BY <3>2
      <4> HIDE DEF v
      <4> QED
        BY <4>1, <4>2, <4>3, SolutionsAgree
    <3>5. value[u] = f[Chosen(u)] + Solution(f, v)[v]
      BY <1>0, <2>2
    <3> QED
      BY <3>3, <3>4, <3>5
  <2> QED
    BY <2>1, <2>2
<1>6. ASSUME NEW u \in SUBSET T
      PROVE  value[u] = IF u = {} THEN 0 ELSE f[Chosen(u)] + value[u \ {Chosen(u)}]
  <2>1. CASE u = {}
    BY <1>0, <2>1
  <2>2. CASE u # {}
    <3>1. Chosen(u) \in u
      BY <2>2, ChosenInSet
    <3>2. u \ {Chosen(u)} \in SUBSET T /\ u \ {Chosen(u)} # T
      BY <3>1
    <3>3. value[u \ {Chosen(u)}] = Solution(f, u \ {Chosen(u)})[u \ {Chosen(u)}]
      BY <1>5, <3>2
    <3> QED
      BY <1>0, <2>2, <3>3
  <2> QED
    BY <2>1, <2>2
<1>7. Solves(f, T, value)
  BY <1>0, <1>6 DEF Solves
<1> QED
  BY <1>2, <1>7

-----------------------------------------------------------------------------
(* The sum. *)

(***************************************************************************)
(* Nothing sums to zero.                                                   *)
(***************************************************************************)
LEMMA SumEmpty ==
    ASSUME NEW f
    PROVE  SumFunctionOnSet(f, {}) = 0
  BY FS_EmptySet, SolutionExists, SolutionEmpty, SumIsSolution

(***************************************************************************)
(* The recursion, at its own choice of a member.                           *)
(***************************************************************************)
LEMMA SumAtChoice ==
    ASSUME NEW f, NEW S, IsFiniteSet(S), S # {}
    PROVE  /\ Chosen(S) \in S
           /\ SumFunctionOnSet(f, S) = f[Chosen(S)] + SumFunctionOnSet(f, S \ {Chosen(S)})
<1> DEFINE T == S \ {Chosen(S)}
<1>1. Chosen(S) \in S
  BY ChosenInSet
<1>2. IsFiniteSet(T) /\ T \in SUBSET S
  BY FS_Subset
<1>3. Solves(f, S, Solution(f, S)) /\ Solves(f, T, Solution(f, T))
  BY <1>2, SolutionExists
<1>4. Solution(f, T)[T] = Solution(f, S)[T]
  BY <1>2, <1>3, SolutionsAgree
<1>5. Solution(f, S)[S] = f[Chosen(S)] + Solution(f, S)[T]
  BY <1>3, SolutionStep
<1> QED
  BY <1>1, <1>4, <1>5, SumIsSolution

(***************************************************************************)
(* A sum of integers is an integer.                                        *)
(***************************************************************************)
LEMMA SumInt ==
    ASSUME NEW f, NEW S, IsFiniteSet(S), \A x \in S : f[x] \in Int
    PROVE  SumFunctionOnSet(f, S) \in Int
<1> DEFINE Bad == {t \in SUBSET S : SumFunctionOnSet(f, t) \notin Int}
<1> SUFFICES ASSUME Bad # {} PROVE FALSE
  OBVIOUS
<1>1. PICK t \in Bad : \A u \in SUBSET t : u \in Bad => u = t
  <2>1. Bad \in SUBSET (SUBSET S)
    OBVIOUS
  <2> HIDE DEF Bad
  <2> QED
    BY <2>1, SmallestSubset
<1>2. t \in SUBSET S /\ SumFunctionOnSet(f, t) \notin Int /\ IsFiniteSet(t)
  BY FS_Subset
<1>3. t # {}
  BY <1>2, SumEmpty
<1>4. /\ Chosen(t) \in t
      /\ SumFunctionOnSet(f, t) = f[Chosen(t)] + SumFunctionOnSet(f, t \ {Chosen(t)})
  BY <1>2, <1>3, SumAtChoice
<1>5. SumFunctionOnSet(f, t \ {Chosen(t)}) \in Int
  BY <1>1, <1>2, <1>4
<1> QED
  BY <1>2, <1>4, <1>5

(***************************************************************************)
(* Any member may be taken out first.                                      *)
(***************************************************************************)
LEMMA SumTakeOut ==
    ASSUME NEW f, NEW S, IsFiniteSet(S), \A x \in S : f[x] \in Int, NEW x \in S
    PROVE  SumFunctionOnSet(f, S) = f[x] + SumFunctionOnSet(f, S \ {x})
<1> DEFINE Fails(t) == \E y \in t : SumFunctionOnSet(f, t)
                                      # f[y] + SumFunctionOnSet(f, t \ {y})
           Bad == {t \in SUBSET S : Fails(t)}
<1> SUFFICES ASSUME Bad # {} PROVE FALSE
  OBVIOUS
<1>1. PICK t \in Bad : \A u \in SUBSET t : u \in Bad => u = t
  <2>1. Bad \in SUBSET (SUBSET S)
    OBVIOUS
  <2> HIDE DEF Bad
  <2> QED
    BY <2>1, SmallestSubset
<1>2. t \in SUBSET S /\ Fails(t) /\ IsFiniteSet(t)
  BY FS_Subset
<1>3. PICK y \in t : SumFunctionOnSet(f, t) # f[y] + SumFunctionOnSet(f, t \ {y})
  BY <1>2
<1> DEFINE a == Chosen(t)
           rest == (t \ {a}) \ {y}
<1>4. /\ a \in t
      /\ SumFunctionOnSet(f, t) = f[a] + SumFunctionOnSet(f, t \ {a})
  BY <1>2, <1>3, SumAtChoice
<1>5. a # y
  BY <1>3, <1>4
<1>6. SumFunctionOnSet(f, t \ {a}) = f[y] + SumFunctionOnSet(f, rest)
  <2>1. t \ {a} \notin Bad
    BY <1>1, <1>4
  <2> QED
    BY <1>2, <1>5, <2>1
<1>7. SumFunctionOnSet(f, t \ {y}) = f[a] + SumFunctionOnSet(f, rest)
  <2>1. t \ {y} \notin Bad
    BY <1>1, <1>3
  <2>2. (t \ {y}) \ {a} = rest
    OBVIOUS
  <2> QED
    BY <1>2, <1>4, <1>5, <2>1, <2>2
<1>8. /\ f[a] \in Int
      /\ f[y] \in Int
      /\ SumFunctionOnSet(f, rest) \in Int
  <2>1. IsFiniteSet(rest) /\ \A z \in rest : f[z] \in Int
    BY <1>2, FS_Subset
  <2> QED
    BY <1>2, <1>3, <1>4, <2>1, SumInt
<1> QED
  BY <1>3, <1>4, <1>6, <1>7, <1>8

(***************************************************************************)
(* The sum looks at the function on the set only.                          *)
(***************************************************************************)
LEMMA SumSame ==
    ASSUME NEW f, NEW g, NEW S, IsFiniteSet(S), \A x \in S : f[x] = g[x]
    PROVE  SumFunctionOnSet(f, S) = SumFunctionOnSet(g, S)
<1> DEFINE Bad == {t \in SUBSET S : SumFunctionOnSet(f, t) # SumFunctionOnSet(g, t)}
<1> SUFFICES ASSUME Bad # {} PROVE FALSE
  OBVIOUS
<1>1. PICK t \in Bad : \A u \in SUBSET t : u \in Bad => u = t
  <2>1. Bad \in SUBSET (SUBSET S)
    OBVIOUS
  <2> HIDE DEF Bad
  <2> QED
    BY <2>1, SmallestSubset
<1>2. /\ t \in SUBSET S
      /\ SumFunctionOnSet(f, t) # SumFunctionOnSet(g, t)
      /\ IsFiniteSet(t)
  BY FS_Subset
<1>3. t # {}
  BY <1>2, SumEmpty
<1>4. /\ Chosen(t) \in t
      /\ SumFunctionOnSet(f, t) = f[Chosen(t)] + SumFunctionOnSet(f, t \ {Chosen(t)})
      /\ SumFunctionOnSet(g, t) = g[Chosen(t)] + SumFunctionOnSet(g, t \ {Chosen(t)})
  BY <1>2, <1>3, SumAtChoice
<1>5. SumFunctionOnSet(f, t \ {Chosen(t)}) = SumFunctionOnSet(g, t \ {Chosen(t)})
  BY <1>1, <1>2, <1>4
<1> QED
  BY <1>2, <1>4, <1>5

(***************************************************************************)
(* One more member adds its value.                                         *)
(***************************************************************************)
LEMMA SumPutIn ==
    ASSUME NEW f, NEW S, IsFiniteSet(S), NEW x, x \notin S,
           f[x] \in Int, \A y \in S : f[y] \in Int
    PROVE  SumFunctionOnSet(f, S \cup {x}) = f[x] + SumFunctionOnSet(f, S)
<1>1. IsFiniteSet(S \cup {x})
  BY FS_AddElement
<1>2. (S \cup {x}) \ {x} = S
  OBVIOUS
<1> QED
  BY <1>1, <1>2, SumTakeOut

(***************************************************************************)
(* A function that changes at one member moves the sum by that change.     *)
(***************************************************************************)
LEMMA SumUpdate ==
    ASSUME NEW f, NEW g, NEW S, IsFiniteSet(S), NEW x \in S,
           \A y \in S : f[y] \in Int, g[x] \in Int,
           \A y \in S \ {x} : g[y] = f[y]
    PROVE  SumFunctionOnSet(g, S) = SumFunctionOnSet(f, S) - f[x] + g[x]
<1> DEFINE rest == S \ {x}
<1>1. IsFiniteSet(rest)
  BY FS_Subset
<1>2. SumFunctionOnSet(g, rest) = SumFunctionOnSet(f, rest)
  BY <1>1, SumSame
<1>3. SumFunctionOnSet(f, S) = f[x] + SumFunctionOnSet(f, rest)
  BY SumTakeOut
<1>4. SumFunctionOnSet(g, S) = g[x] + SumFunctionOnSet(g, rest)
  BY SumTakeOut
<1>5. SumFunctionOnSet(f, rest) \in Int
  BY <1>1, SumInt
<1> QED
  BY <1>2, <1>3, <1>4, <1>5

(***************************************************************************)
(* A sum is monotone in the function; a sum of naturals is a natural.      *)
(***************************************************************************)
LEMMA SumMonotone ==
    ASSUME NEW f, NEW g, NEW S, IsFiniteSet(S),
           \A x \in S : f[x] \in Int, \A x \in S : g[x] \in Int,
           \A x \in S : f[x] <= g[x]
    PROVE  SumFunctionOnSet(f, S) <= SumFunctionOnSet(g, S)
<1> DEFINE Bad == {t \in SUBSET S :
                     ~ (SumFunctionOnSet(f, t) <= SumFunctionOnSet(g, t))}
<1> SUFFICES ASSUME Bad # {} PROVE FALSE
  OBVIOUS
<1>1. PICK t \in Bad : \A u \in SUBSET t : u \in Bad => u = t
  <2>1. Bad \in SUBSET (SUBSET S)
    OBVIOUS
  <2> HIDE DEF Bad
  <2> QED
    BY <2>1, SmallestSubset
<1>2. /\ t \in SUBSET S
      /\ ~ (SumFunctionOnSet(f, t) <= SumFunctionOnSet(g, t))
      /\ IsFiniteSet(t)
  BY FS_Subset
<1>3. t # {}
  BY <1>2, SumEmpty
<1> DEFINE rest == t \ {Chosen(t)}
<1>4. /\ Chosen(t) \in t
      /\ SumFunctionOnSet(f, t) = f[Chosen(t)] + SumFunctionOnSet(f, rest)
      /\ SumFunctionOnSet(g, t) = g[Chosen(t)] + SumFunctionOnSet(g, rest)
  BY <1>2, <1>3, SumAtChoice
<1>5. SumFunctionOnSet(f, rest) <= SumFunctionOnSet(g, rest)
  BY <1>1, <1>2, <1>4
<1>6. IsFiniteSet(rest) /\ rest \in SUBSET S
  BY <1>2, FS_Subset
<1>7. SumFunctionOnSet(f, rest) \in Int /\ SumFunctionOnSet(g, rest) \in Int
  BY <1>6, SumInt
<1>8. f[Chosen(t)] \in Int /\ g[Chosen(t)] \in Int /\ f[Chosen(t)] <= g[Chosen(t)]
  BY <1>2, <1>4
<1> QED
  BY <1>2, <1>4, <1>5, <1>7, <1>8

LEMMA SumNat ==
    ASSUME NEW f, NEW S, IsFiniteSet(S), \A x \in S : f[x] \in Nat
    PROVE  SumFunctionOnSet(f, S) \in Nat
<1> DEFINE Bad == {t \in SUBSET S : SumFunctionOnSet(f, t) \notin Nat}
<1> SUFFICES ASSUME Bad # {} PROVE FALSE
  OBVIOUS
<1>1. PICK t \in Bad : \A u \in SUBSET t : u \in Bad => u = t
  <2>1. Bad \in SUBSET (SUBSET S)
    OBVIOUS
  <2> HIDE DEF Bad
  <2> QED
    BY <2>1, SmallestSubset
<1>2. t \in SUBSET S /\ SumFunctionOnSet(f, t) \notin Nat /\ IsFiniteSet(t)
  BY FS_Subset
<1>3. t # {}
  BY <1>2, SumEmpty
<1>4. /\ Chosen(t) \in t
      /\ SumFunctionOnSet(f, t) = f[Chosen(t)] + SumFunctionOnSet(f, t \ {Chosen(t)})
  BY <1>2, <1>3, SumAtChoice
<1>5. SumFunctionOnSet(f, t \ {Chosen(t)}) \in Nat
  BY <1>1, <1>2, <1>4
<1> QED
  BY <1>2, <1>4, <1>5

(***************************************************************************)
(* A sum of zeroes is zero.                                                *)
(***************************************************************************)
LEMMA SumZero ==
    ASSUME NEW f, NEW S, IsFiniteSet(S), \A x \in S : f[x] = 0
    PROVE  SumFunctionOnSet(f, S) = 0
<1> DEFINE Bad == {t \in SUBSET S : SumFunctionOnSet(f, t) # 0}
<1> SUFFICES ASSUME Bad # {} PROVE FALSE
  OBVIOUS
<1>1. PICK t \in Bad : \A u \in SUBSET t : u \in Bad => u = t
  <2>1. Bad \in SUBSET (SUBSET S)
    OBVIOUS
  <2> HIDE DEF Bad
  <2> QED
    BY <2>1, SmallestSubset
<1>2. t \in SUBSET S /\ SumFunctionOnSet(f, t) # 0 /\ IsFiniteSet(t)
  BY FS_Subset
<1>3. t # {}
  BY <1>2, SumEmpty
<1>4. /\ Chosen(t) \in t
      /\ SumFunctionOnSet(f, t) = f[Chosen(t)] + SumFunctionOnSet(f, t \ {Chosen(t)})
  BY <1>2, <1>3, SumAtChoice
<1>5. SumFunctionOnSet(f, t \ {Chosen(t)}) = 0
  BY <1>1, <1>2, <1>4
<1> QED
  BY <1>2, <1>4, <1>5

(***************************************************************************)
(* A sum of equal terms is a product.                                      *)
(***************************************************************************)
LEMMA SumConstant ==
    ASSUME NEW f, NEW S, IsFiniteSet(S), NEW c \in Nat, \A x \in S : f[x] = c
    PROVE  SumFunctionOnSet(f, S) = c * Cardinality(S)
<1> DEFINE Bad == {t \in SUBSET S : SumFunctionOnSet(f, t) # c * Cardinality(t)}
<1> SUFFICES ASSUME Bad # {} PROVE FALSE
  OBVIOUS
<1>1. PICK t \in Bad : \A u \in SUBSET t : u \in Bad => u = t
  <2>1. Bad \in SUBSET (SUBSET S)
    OBVIOUS
  <2> HIDE DEF Bad
  <2> QED
    BY <2>1, SmallestSubset
<1>2. /\ t \in SUBSET S
      /\ SumFunctionOnSet(f, t) # c * Cardinality(t)
      /\ IsFiniteSet(t)
  BY FS_Subset
<1>3. t # {}
  <2>1. c * 0 = 0
    OBVIOUS
  <2> QED
    BY <1>2, <2>1, SumEmpty, FS_EmptySet
<1> DEFINE rest == t \ {Chosen(t)}
<1>4. /\ Chosen(t) \in t
      /\ SumFunctionOnSet(f, t) = f[Chosen(t)] + SumFunctionOnSet(f, rest)
  BY <1>2, <1>3, SumAtChoice
<1>5. SumFunctionOnSet(f, rest) = c * Cardinality(rest)
  BY <1>1, <1>2, <1>4
<1>6. Cardinality(rest) = Cardinality(t) - 1 /\ Cardinality(t) \in Nat
  BY <1>2, <1>4, FS_RemoveElement, FS_CardinalityType
<1>7. c * (Cardinality(t) - 1) = c * Cardinality(t) - c
  BY <1>6
<1> QED
  <2>1. c * Cardinality(t) \in Int
    BY <1>6
  <2> QED
    BY <1>2, <1>4, <1>5, <1>6, <1>7, <2>1

(***************************************************************************)
(* The sums of two functions add up to the sum of their values.            *)
(***************************************************************************)
LEMMA SumAdd ==
    ASSUME NEW f, NEW g, NEW h, NEW S, IsFiniteSet(S),
           \A x \in S : f[x] \in Int, \A x \in S : g[x] \in Int,
           \A x \in S : h[x] = f[x] + g[x]
    PROVE  SumFunctionOnSet(h, S) = SumFunctionOnSet(f, S) + SumFunctionOnSet(g, S)
<1> DEFINE Bad == {t \in SUBSET S : SumFunctionOnSet(h, t)
                                      # SumFunctionOnSet(f, t) + SumFunctionOnSet(g, t)}
<1> SUFFICES ASSUME Bad # {} PROVE FALSE
  OBVIOUS
<1>1. PICK t \in Bad : \A u \in SUBSET t : u \in Bad => u = t
  <2>1. Bad \in SUBSET (SUBSET S)
    OBVIOUS
  <2> HIDE DEF Bad
  <2> QED
    BY <2>1, SmallestSubset
<1>2. /\ t \in SUBSET S
      /\ SumFunctionOnSet(h, t) # SumFunctionOnSet(f, t) + SumFunctionOnSet(g, t)
      /\ IsFiniteSet(t)
  BY FS_Subset
<1>3. t # {}
  BY <1>2, SumEmpty
<1> DEFINE rest == t \ {Chosen(t)}
<1>4. /\ Chosen(t) \in t
      /\ SumFunctionOnSet(f, t) = f[Chosen(t)] + SumFunctionOnSet(f, rest)
      /\ SumFunctionOnSet(g, t) = g[Chosen(t)] + SumFunctionOnSet(g, rest)
      /\ SumFunctionOnSet(h, t) = h[Chosen(t)] + SumFunctionOnSet(h, rest)
  BY <1>2, <1>3, SumAtChoice
<1>5. SumFunctionOnSet(h, rest) = SumFunctionOnSet(f, rest) + SumFunctionOnSet(g, rest)
  BY <1>1, <1>2, <1>4
<1>6. IsFiniteSet(rest) /\ rest \in SUBSET S
  BY <1>2, FS_Subset
<1>7. SumFunctionOnSet(f, rest) \in Int /\ SumFunctionOnSet(g, rest) \in Int
  BY <1>6, SumInt
<1>8. /\ f[Chosen(t)] \in Int /\ g[Chosen(t)] \in Int
      /\ h[Chosen(t)] = f[Chosen(t)] + g[Chosen(t)]
  BY <1>2, <1>4
<1> QED
  BY <1>2, <1>4, <1>5, <1>7, <1>8

(***************************************************************************)
(* A common factor.                                                        *)
(***************************************************************************)
LEMMA SumScale ==
    ASSUME NEW f, NEW h, NEW S, IsFiniteSet(S), NEW c \in Int,
           \A x \in S : f[x] \in Int, \A x \in S : h[x] = c * f[x]
    PROVE  SumFunctionOnSet(h, S) = c * SumFunctionOnSet(f, S)
<1> DEFINE Bad == {t \in SUBSET S : SumFunctionOnSet(h, t) # c * SumFunctionOnSet(f, t)}
<1> SUFFICES ASSUME Bad # {} PROVE FALSE
  OBVIOUS
<1>1. PICK t \in Bad : \A u \in SUBSET t : u \in Bad => u = t
  <2>1. Bad \in SUBSET (SUBSET S)
    OBVIOUS
  <2> HIDE DEF Bad
  <2> QED
    BY <2>1, SmallestSubset
<1>2. /\ t \in SUBSET S
      /\ SumFunctionOnSet(h, t) # c * SumFunctionOnSet(f, t)
      /\ IsFiniteSet(t)
  BY FS_Subset
<1>3. t # {}
  <2>1. c * 0 = 0
    OBVIOUS
  <2> QED
    BY <1>2, <2>1, SumEmpty
<1> DEFINE rest == t \ {Chosen(t)}
<1>4. /\ Chosen(t) \in t
      /\ SumFunctionOnSet(f, t) = f[Chosen(t)] + SumFunctionOnSet(f, rest)
      /\ SumFunctionOnSet(h, t) = h[Chosen(t)] + SumFunctionOnSet(h, rest)
  BY <1>2, <1>3, SumAtChoice
<1>5. SumFunctionOnSet(h, rest) = c * SumFunctionOnSet(f, rest)
  BY <1>1, <1>2, <1>4
<1>6. IsFiniteSet(rest) /\ rest \in SUBSET S
  BY <1>2, FS_Subset
<1>7. SumFunctionOnSet(f, rest) \in Int
  BY <1>6, SumInt
<1>8. f[Chosen(t)] \in Int /\ h[Chosen(t)] = c * f[Chosen(t)]
  BY <1>2, <1>4
<1>9. \A x, y \in Int : c * (x + y) = c * x + c * y
  BY SMT
<1> QED
  BY <1>2, <1>4, <1>5, <1>7, <1>8, <1>9

(***************************************************************************)
(* A sum over a part of a set is the sum over the set of a function that   *)
(* is zero elsewhere.                                                      *)
(***************************************************************************)
LEMMA SumWhere ==
    ASSUME NEW f, NEW g, NEW S, IsFiniteSet(S), NEW T \in SUBSET S,
           \A x \in T : f[x] \in Int, \A x \in T : g[x] = f[x],
           \A x \in S \ T : g[x] = 0
    PROVE  SumFunctionOnSet(f, T) = SumFunctionOnSet(g, S)
<1> DEFINE Bad == {t \in SUBSET S : SumFunctionOnSet(g, t)
                                      # SumFunctionOnSet(f, T \cap t)}
<1>0. T \cap S = T
  OBVIOUS
<1> SUFFICES ASSUME Bad # {} PROVE FALSE
  BY <1>0
<1>1. PICK t \in Bad : \A u \in SUBSET t : u \in Bad => u = t
  <2>1. Bad \in SUBSET (SUBSET S)
    OBVIOUS
  <2> HIDE DEF Bad
  <2> QED
    BY <2>1, SmallestSubset
<1>2. /\ t \in SUBSET S
      /\ SumFunctionOnSet(g, t) # SumFunctionOnSet(f, T \cap t)
      /\ IsFiniteSet(t)
  BY FS_Subset
<1>3. t # {}
  <2>1. T \cap {} = {}
    OBVIOUS
  <2> QED
    BY <1>2, <2>1, SumEmpty
<1> DEFINE a == Chosen(t)
           rest == t \ {a}
<1>4. /\ a \in t
      /\ SumFunctionOnSet(g, t) = g[a] + SumFunctionOnSet(g, rest)
  BY <1>2, <1>3, SumAtChoice
<1>5. SumFunctionOnSet(g, rest) = SumFunctionOnSet(f, T \cap rest)
  BY <1>1, <1>2, <1>4
<1>6. /\ IsFiniteSet(T \cap rest) /\ IsFiniteSet(T \cap t)
      /\ T \cap rest \in SUBSET S /\ T \cap t \in SUBSET S
  BY <1>2, FS_Subset
<1>7. SumFunctionOnSet(f, T \cap rest) \in Int
  BY <1>6, SumInt
<1>8. CASE a \in T
  <2>1. (T \cap t) \ {a} = T \cap rest /\ a \in T \cap t
    BY <1>4, <1>8
  <2>2. SumFunctionOnSet(f, T \cap t) = f[a] + SumFunctionOnSet(f, T \cap rest)
    BY <1>6, <2>1, SumTakeOut
  <2> QED
    BY <1>2, <1>4, <1>5, <1>8, <2>2
<1>9. CASE a \notin T
  <2>1. T \cap t = T \cap rest
    BY <1>4, <1>9
  <2>2. g[a] = 0
    BY <1>2, <1>4, <1>9
  <2>3. SumFunctionOnSet(f, T \cap t) = SumFunctionOnSet(f, T \cap rest)
    BY <2>1
  <2> HIDE DEF a, rest, Bad
  <2>4. SumFunctionOnSet(g, t) = 0 + SumFunctionOnSet(f, T \cap rest)
    BY <1>4, <1>5, <2>2
  <2>5. SumFunctionOnSet(g, t) = SumFunctionOnSet(f, T \cap rest)
    BY <1>7, <2>4
  <2> QED
    BY <1>2, <2>3, <2>5
<1> QED
  BY <1>8, <1>9

(***************************************************************************)
(* No member of a sum of naturals exceeds it.                              *)
(***************************************************************************)
LEMMA SumCovers ==
    ASSUME NEW f, NEW S, IsFiniteSet(S), \A x \in S : f[x] \in Nat, NEW x \in S
    PROVE  f[x] <= SumFunctionOnSet(f, S)
<1>1. IsFiniteSet(S \ {x})
  BY FS_Subset
<1>2. SumFunctionOnSet(f, S \ {x}) \in Nat
  BY <1>1, SumNat
<1>3. SumFunctionOnSet(f, S) = f[x] + SumFunctionOnSet(f, S \ {x})
  BY SumTakeOut
<1> QED
  BY <1>2, <1>3

(***************************************************************************)
(* A share of an amount, rounded down, is an amount and no more than it.   *)
(***************************************************************************)
LEMMA DivShare ==
    ASSUME NEW a \in Nat, NEW e \in Nat, NEW n \in Nat \ {0}, e <= n
    PROVE  (a * e) \div n \in 0 .. a
  <1> DEFINE q == (a * e) \div n
  <1>1. a * e <= a * n
    <2>1. n - e \in Nat
      OBVIOUS
    <2>2. a * (n - e) \in Nat
      BY <2>1
    <2>3. a * n = a * e + a * (n - e)
      BY SMT
    <2>4. a * e \in Nat /\ a * n \in Nat
      OBVIOUS
    <2>5. QED
      BY <2>2, <2>3, <2>4
  <1>2. a * e \in Nat /\ a * n \in Nat
    OBVIOUS
  <1>3. q \in Nat /\ q * n <= a * e
    <2>1. \A x \in Nat : x \div n \in Nat /\ (x \div n) * n <= x
      BY SMT
    <2>2. QED
      BY <1>2, <2>1
  <1> HIDE DEF q
  <1>4. q * n <= a * n
    BY <1>1, <1>2, <1>3
  <1>5. CASE q > a
    <2>1. q - a - 1 \in Nat
      BY <1>3, <1>5
    <2>2. (q - a - 1) * n \in Nat
      BY <2>1
    <2>3. q * n = a * n + n + (q - a - 1) * n
      BY <1>3, SMT
    <2>4. FALSE
      BY <1>2, <1>3, <1>4, <2>2, <2>3
    <2>5. QED
      BY <2>4
  <1>6. QED
    BY <1>3, <1>5 DEF q

=============================================================================
