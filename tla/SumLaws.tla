------------------------------ MODULE SumLaws -------------------------------
(***************************************************************************)
(* Laws of SumFunction over finite sets, which the ledger's theorems rest  *)
(* on.  The sum folds over an arbitrary order of its indices; the laws say *)
(* that the order does not matter.  Each is proved by looking at a smallest*)
(* set for which it fails.                                                 *)
(***************************************************************************)
EXTENDS Functions, FiniteSetTheorems, TLAPS

Pick(s) == CHOOSE x \in s : TRUE

\* g gives the sum of f over each subset of S
Adds(f, S, g) ==
    g = [s \in SUBSET S |-> IF s = {} THEN 0 ELSE f[Pick(s)] + g[s \ {Pick(s)}]]

IsInt(f, S) == \A x \in S : f[x] \in Int

\* A nonempty class of subsets of a finite set has a smallest member.
LEMMA SmallestSubset ==
    ASSUME NEW S, IsFiniteSet(S), NEW C, C \subseteq SUBSET S, C # {}
    PROVE  \E T \in C : \A U \in SUBSET T : U # T => U \notin C
<1>1. IsWellFoundedOn(StrictSubsetOrdering(S), SUBSET S)
  BY FS_StrictSubsetOrderingWellFounded, FS_FiniteSubsetsOfFinite
<1>2. PICK T \in C : \A U \in C : ~(<<U, T>> \in StrictSubsetOrdering(S))
  BY <1>1, WFMin
<1>3. ASSUME NEW U \in SUBSET T, U # T, U \in C PROVE FALSE
  <2>1. <<U, T>> \in StrictSubsetOrdering(S)
    BY <1>3 DEF StrictSubsetOrdering
  <2> QED  BY <1>2, <1>3, <2>1
<1> QED  BY <1>3

\* Induction over the subsets of a finite set, one element more at a time.
LEMMA SubsetInduction ==
    ASSUME NEW S, IsFiniteSet(S), NEW C, {} \in C,
           \A U \in SUBSET S : \A x \in U : U \ {x} \in C => U \in C
    PROVE  \A U \in SUBSET S : U \in C
<1> DEFINE Bad == {U \in SUBSET S : U \notin C}
<1>1. SUFFICES ASSUME Bad # {} PROVE FALSE
  OBVIOUS
<1>2. PICK U \in Bad : \A V \in SUBSET U : V # U => V \notin Bad
  <2> HIDE DEF Bad
  <2>1. Bad \subseteq SUBSET S
    BY DEF Bad
  <2> QED  BY <1>1, <2>1, SmallestSubset
<1>3. PICK x \in U : TRUE
  OBVIOUS
<1>4. U \ {x} \in SUBSET U /\ U \ {x} # U
  OBVIOUS
<1> QED  BY <1>2, <1>3, <1>4

\* The fold behind a sum is a function that satisfies the recursion, if there is one.
LEMMA SumChosen ==
    ASSUME NEW f, NEW S
    PROVE  SumFunctionOnSet(f, S) = (CHOOSE g : Adds(f, S, g))[S]
BY DEF SumFunctionOnSet, FoldFunctionOnSet, MapThenFoldSet, Adds, Pick

\* Functions that satisfy the recursion agree where both are defined.
LEMMA AddsAgree ==
    ASSUME NEW f, NEW S, IsFiniteSet(S), NEW T, NEW g, NEW h, Adds(f, S, g), Adds(f, T, h)
    PROVE  \A U \in SUBSET S : U \subseteq T => g[U] = h[U]
<1> DEFINE C == {U \in SUBSET S : U \subseteq T /\ g[U] # h[U]}
<1>1. SUFFICES ASSUME C # {} PROVE FALSE
  OBVIOUS
<1>2. PICK U \in C : \A V \in SUBSET U : V # U => V \notin C
  <2> HIDE DEF C
  <2>1. C \subseteq SUBSET S
    BY DEF C
  <2> QED  BY <1>1, <2>1, SmallestSubset
<1>3. U \in SUBSET S /\ U \in SUBSET T /\ g[U] # h[U]
  OBVIOUS
<1>4. /\ g[U] = IF U = {} THEN 0 ELSE f[Pick(U)] + g[U \ {Pick(U)}]
      /\ h[U] = IF U = {} THEN 0 ELSE f[Pick(U)] + h[U \ {Pick(U)}]
  BY <1>3 DEF Adds
<1>5. CASE U = {}
  BY <1>3, <1>4, <1>5
<1>6. CASE U # {}
  <2> DEFINE V == U \ {Pick(U)}
  <2>1. Pick(U) \in U
    BY <1>6 DEF Pick
  <2>2. V \in SUBSET U /\ V # U
    BY <2>1
  <2>3. V \notin C /\ V \in SUBSET S /\ V \subseteq T
    BY <1>2, <1>3, <2>2
  <2>4. g[V] = h[V]
    BY <2>3
  <2> QED  BY <1>3, <1>4, <1>6, <2>4
<1> QED  BY <1>5, <1>6

\* Some function satisfies the recursion.
LEMMA AddsExists ==
    ASSUME NEW f, NEW S, IsFiniteSet(S)
    PROVE  \E g : Adds(f, S, g)
<1> DEFINE C == {U \in SUBSET S : ~\E g : Adds(f, U, g)}
<1>1. SUFFICES ASSUME C # {} PROVE FALSE
  <2>1. S \in SUBSET S
    OBVIOUS
  <2> QED  BY <2>1
<1>2. PICK T \in C : \A V \in SUBSET T : V # T => V \notin C
  <2> HIDE DEF C
  <2>1. C \subseteq SUBSET S
    BY DEF C
  <2> QED  BY <1>1, <2>1, SmallestSubset
<1>3. T \in SUBSET S /\ ~\E g : Adds(f, T, g)
  OBVIOUS
<1> DEFINE G(U) == CHOOSE g : Adds(f, U, g)
<1>4. ASSUME NEW U \in SUBSET T, U # T PROVE Adds(f, U, G(U)) /\ IsFiniteSet(U)
  <2>1. U \in SUBSET S /\ U \notin C
    BY <1>2, <1>3, <1>4
  <2>2. \E g : Adds(f, U, g)
    BY <2>1
  <2>3. IsFiniteSet(U)
    BY <2>1, FS_Subset
  <2> HIDE DEF C
  <2> QED  BY <2>2, <2>3
<1> HIDE DEF G
<1> DEFINE before(s) == s \ {Pick(s)}
           value(s) == IF s = {} THEN 0 ELSE f[Pick(s)] + G(before(s))[before(s)]
           g == [s \in SUBSET T |-> value(s)]
<1>5. ASSUME NEW s \in SUBSET T, s # T PROVE G(s)[s] = value(s)
  <2>1. G(s)[s] = IF s = {} THEN 0 ELSE f[Pick(s)] + G(s)[before(s)]
    BY <1>4, <1>5 DEF Adds
  <2>2. CASE s # {}
    <3>1. Pick(s) \in s
      BY <2>2 DEF Pick
    <3>2. before(s) \in SUBSET s /\ before(s) \in SUBSET T /\ before(s) # T
      BY <1>5, <3>1
    <3>3. G(s)[before(s)] = G(before(s))[before(s)]
      BY <1>4, <1>5, <3>2, AddsAgree
    <3> QED  BY <2>1, <2>2, <3>3
  <2> QED  BY <2>1, <2>2
<1>6. ASSUME NEW s \in SUBSET T, s # {} PROVE G(before(s))[before(s)] = g[before(s)]
  <2>1. Pick(s) \in s
    BY <1>6 DEF Pick
  <2>2. before(s) \in SUBSET T /\ before(s) # T
    BY <2>1
  <2> QED  BY <1>5, <2>2
<1>7. Adds(f, T, g)
  <2> HIDE DEF G
  <2>1. \A s \in SUBSET T : value(s) = IF s = {} THEN 0 ELSE f[Pick(s)] + g[before(s)]
    BY <1>6
  <2>2. g = [s \in SUBSET T |-> IF s = {} THEN 0 ELSE f[Pick(s)] + g[before(s)]]
    BY <2>1
  <2> QED  BY <2>2 DEF Adds
<1> QED  BY <1>3, <1>7

\* The fold's equation, in the order the fold takes.
LEMMA SumPick ==
    ASSUME NEW f, NEW S, IsFiniteSet(S)
    PROVE  SumFunctionOnSet(f, S)
             = IF S = {} THEN 0 ELSE f[Pick(S)] + SumFunctionOnSet(f, S \ {Pick(S)})
<1> DEFINE G(U) == CHOOSE g : Adds(f, U, g)
<1>1. ASSUME NEW U, IsFiniteSet(U) PROVE Adds(f, U, G(U)) /\ SumFunctionOnSet(f, U) = G(U)[U]
  BY <1>1, AddsExists, SumChosen
<1> HIDE DEF G
<1>2. Adds(f, S, G(S)) /\ SumFunctionOnSet(f, S) = G(S)[S]
  BY <1>1
<1>3. G(S)[S] = IF S = {} THEN 0 ELSE f[Pick(S)] + G(S)[S \ {Pick(S)}]
  <2>1. S \in SUBSET S
    OBVIOUS
  <2> QED  BY <1>2, <2>1 DEF Adds
<1>4. CASE S # {}
  <2> DEFINE T == S \ {Pick(S)}
  <2>1. IsFiniteSet(T) /\ T \in SUBSET S
    BY FS_RemoveElement
  <2>2. Adds(f, T, G(T)) /\ SumFunctionOnSet(f, T) = G(T)[T]
    BY <1>1, <2>1
  <2>3. G(S)[T] = G(T)[T]
    BY <1>2, <2>1, <2>2, AddsAgree
  <2> QED  BY <1>2, <1>3, <1>4, <2>2, <2>3
<1> QED  BY <1>2, <1>3, <1>4

-----------------------------------------------------------------------------

\* The sum of nothing.
LEMMA SumEmpty == \A f : SumFunctionOnSet(f, {}) = 0
BY SumPick, FS_EmptySet

\* A sum of integers is an integer.
LEMMA SumInt ==
    ASSUME NEW f, NEW S, IsFiniteSet(S), IsInt(f, S)
    PROVE  SumFunctionOnSet(f, S) \in Int
<1> DEFINE C == {U \in SUBSET S : SumFunctionOnSet(f, U) \notin Int}
<1>1. SUFFICES ASSUME C # {} PROVE FALSE
  <2>1. S \in SUBSET S
    OBVIOUS
  <2> QED  BY <2>1
<1>2. PICK T \in C : \A V \in SUBSET T : V # T => V \notin C
  <2> HIDE DEF C
  <2>1. C \subseteq SUBSET S
    BY DEF C
  <2> QED  BY <1>1, <2>1, SmallestSubset
<1>3. T \in SUBSET S /\ SumFunctionOnSet(f, T) \notin Int /\ IsFiniteSet(T)
  BY FS_Subset
<1>4. T # {}
  BY <1>3, SumEmpty
<1>5. Pick(T) \in T
  BY <1>4 DEF Pick
<1>6. SumFunctionOnSet(f, T \ {Pick(T)}) \in Int
  BY <1>2, <1>3, <1>5
<1>7. f[Pick(T)] \in Int
  BY <1>3, <1>5 DEF IsInt
<1> QED  BY <1>3, <1>4, <1>6, <1>7, SumPick

\* Any element may be taken out first.
LEMMA SumRemove ==
    ASSUME NEW f, NEW S, IsFiniteSet(S), IsInt(f, S), NEW x \in S
    PROVE  SumFunctionOnSet(f, S) = f[x] + SumFunctionOnSet(f, S \ {x})
<1> DEFINE Out(U, y) == SumFunctionOnSet(f, U) = f[y] + SumFunctionOnSet(f, U \ {y})
           C == {U \in SUBSET S : \E y \in U : ~Out(U, y)}
<1>1. SUFFICES ASSUME C # {} PROVE FALSE
  <2>1. S \in SUBSET S
    OBVIOUS
  <2> QED  BY <2>1
<1>2. PICK T \in C : \A V \in SUBSET T : V # T => V \notin C
  <2> HIDE DEF C
  <2>1. C \subseteq SUBSET S
    BY DEF C
  <2> QED  BY <1>1, <2>1, SmallestSubset
<1>3. T \in SUBSET S /\ IsFiniteSet(T)
  BY FS_Subset
<1>4. PICK y \in T : ~Out(T, y)
  OBVIOUS
<1> DEFINE p == Pick(T)
<1>5. p \in T
  BY <1>4 DEF Pick
<1>6. \A V \in SUBSET T : V # T => \A z \in V : Out(V, z)
  BY <1>2, <1>3
<1> HIDE DEF C
<1>7. Out(T, p)
  BY <1>3, <1>4, SumPick
<1> HIDE DEF p
<1>8. p # y
  BY <1>4, <1>7
<1>9. Out(T \ {p}, y) /\ Out(T \ {y}, p)
  <2>1. /\ T \ {p} \in SUBSET T /\ T \ {p} # T /\ y \in T \ {p}
        /\ T \ {y} \in SUBSET T /\ T \ {y} # T /\ p \in T \ {y}
    BY <1>4, <1>5, <1>8
  <2> HIDE DEF Out
  <2> QED  BY <1>6, <2>1
<1>10. (T \ {p}) \ {y} = (T \ {y}) \ {p}
  OBVIOUS
<1>11. /\ f[p] \in Int /\ f[y] \in Int
       /\ SumFunctionOnSet(f, (T \ {p}) \ {y}) \in Int
  <2>1. IsFiniteSet((T \ {p}) \ {y})
    BY <1>3, FS_RemoveElement
  <2> QED  BY <1>3, <1>4, <1>5, <2>1, SumInt DEF IsInt
<1> DEFINE a == SumFunctionOnSet(f, (T \ {p}) \ {y})
<1>12. /\ SumFunctionOnSet(f, T) = f[p] + SumFunctionOnSet(f, T \ {p})
       /\ SumFunctionOnSet(f, T \ {p}) = f[y] + a
       /\ SumFunctionOnSet(f, T \ {y}) = f[p] + a
  BY <1>7, <1>9, <1>10
<1>13. a \in Int /\ SumFunctionOnSet(f, T) # f[y] + SumFunctionOnSet(f, T \ {y})
  BY <1>4, <1>11
<1> HIDE DEF a
<1> QED  BY <1>11, <1>12, <1>13

\* The same for every subset.
LEMMA SumTake ==
    ASSUME NEW f, NEW S, IsFiniteSet(S), IsInt(f, S)
    PROVE  \A U \in SUBSET S : \A x \in U :
              /\ SumFunctionOnSet(f, U) = f[x] + SumFunctionOnSet(f, U \ {x})
              /\ SumFunctionOnSet(f, U \ {x}) \in Int /\ f[x] \in Int
<1> SUFFICES ASSUME NEW U \in SUBSET S, NEW x \in U
             PROVE  /\ SumFunctionOnSet(f, U) = f[x] + SumFunctionOnSet(f, U \ {x})
                    /\ SumFunctionOnSet(f, U \ {x}) \in Int /\ f[x] \in Int
  OBVIOUS
<1>1. IsFiniteSet(U) /\ IsInt(f, U)
  BY FS_Subset DEF IsInt
<1>2. IsFiniteSet(U \ {x}) /\ IsInt(f, U \ {x})
  BY <1>1, FS_RemoveElement DEF IsInt
<1> QED  BY <1>1, <1>2, SumRemove, SumInt DEF IsInt

\* A sum bounds another when its terms do, weighted by factors.
LEMMA SumBound ==
    ASSUME NEW f, NEW g, NEW S, IsFiniteSet(S), IsInt(f, S), IsInt(g, S),
           NEW m \in Nat, NEW n \in Nat, \A x \in S : m * f[x] <= n * g[x]
    PROVE  m * SumFunctionOnSet(f, S) <= n * SumFunctionOnSet(g, S)
<1>0. \A U \in SUBSET S : \A x \in U :
         /\ SumFunctionOnSet(f, U) = f[x] + SumFunctionOnSet(f, U \ {x})
         /\ SumFunctionOnSet(g, U) = g[x] + SumFunctionOnSet(g, U \ {x})
         /\ SumFunctionOnSet(f, U \ {x}) \in Int /\ f[x] \in Int
         /\ SumFunctionOnSet(g, U \ {x}) \in Int /\ g[x] \in Int
  <2>1. \A U \in SUBSET S : \A x \in U :
           /\ SumFunctionOnSet(f, U) = f[x] + SumFunctionOnSet(f, U \ {x})
           /\ SumFunctionOnSet(f, U \ {x}) \in Int /\ f[x] \in Int
    BY SumTake
  <2>2. \A U \in SUBSET S : \A x \in U :
           /\ SumFunctionOnSet(g, U) = g[x] + SumFunctionOnSet(g, U \ {x})
           /\ SumFunctionOnSet(g, U \ {x}) \in Int /\ g[x] \in Int
    BY SumTake
  <2> QED  BY <2>1, <2>2
<1> DEFINE Good(U) == m * SumFunctionOnSet(f, U) <= n * SumFunctionOnSet(g, U)
           C == {U \in SUBSET S : Good(U)}
<1>1. {} \in C
  BY SumEmpty
<1>2. ASSUME NEW U \in SUBSET S, NEW x \in U, U \ {x} \in C PROVE U \in C
  <2> DEFINE V == U \ {x}
             a == SumFunctionOnSet(f, V)
             b == SumFunctionOnSet(g, V)
  <2>1. m * a <= n * b
    BY <1>2
  <2>2. /\ SumFunctionOnSet(f, U) = f[x] + a /\ SumFunctionOnSet(g, U) = g[x] + b
        /\ a \in Int /\ b \in Int /\ f[x] \in Int /\ g[x] \in Int
    BY <1>0
  <2>3. m * f[x] <= n * g[x]
    OBVIOUS
  <2> HIDE DEF a, b, C, V
  <2>4. m * (f[x] + a) = m * f[x] + m * a /\ n * (g[x] + b) = n * g[x] + n * b
    BY <2>2
  <2>5. m * f[x] \in Int /\ m * a \in Int /\ n * g[x] \in Int /\ n * b \in Int
    BY <2>2
  <2>6. m * (f[x] + a) <= n * (g[x] + b)
    BY <2>1, <2>3, <2>4, <2>5
  <2> QED  BY <2>2, <2>6 DEF C
<1> HIDE DEF C
<1>3. \A U \in SUBSET S : U \in C
  BY <1>1, <1>2, SubsetInduction
<1>4. S \in C
  BY <1>3
<1> QED  BY <1>4 DEF C

\* Sums of equal terms are equal.
LEMMA SumSame ==
    ASSUME NEW f, NEW g, NEW S, IsFiniteSet(S), IsInt(f, S), \A x \in S : f[x] = g[x]
    PROVE  SumFunctionOnSet(f, S) = SumFunctionOnSet(g, S)
<1>1. IsInt(g, S)
  BY DEF IsInt
<1>2. SumFunctionOnSet(f, S) \in Int /\ SumFunctionOnSet(g, S) \in Int
  BY <1>1, SumInt
<1>3. \A x \in S : 1 * f[x] <= 1 * g[x] /\ 1 * g[x] <= 1 * f[x]
  BY DEF IsInt
<1>4. /\ 1 * SumFunctionOnSet(f, S) <= 1 * SumFunctionOnSet(g, S)
      /\ 1 * SumFunctionOnSet(g, S) <= 1 * SumFunctionOnSet(f, S)
  BY <1>1, <1>3, SumBound
<1> QED  BY <1>2, <1>4

\* Adding term by term.
LEMMA SumAdd ==
    ASSUME NEW f, NEW g, NEW h, NEW S, IsFiniteSet(S), IsInt(f, S), IsInt(g, S),
           \A x \in S : h[x] = f[x] + g[x]
    PROVE  SumFunctionOnSet(h, S) = SumFunctionOnSet(f, S) + SumFunctionOnSet(g, S)
<1> DEFINE Good(U) == SumFunctionOnSet(h, U) = SumFunctionOnSet(f, U) + SumFunctionOnSet(g, U)
           C == {U \in SUBSET S : Good(U)}
<1>0. IsInt(h, S)
  BY DEF IsInt
<1>1. {} \in C
  BY SumEmpty
<1>2. ASSUME NEW U \in SUBSET S, NEW x \in U, U \ {x} \in C PROVE U \in C
  <2> DEFINE V == U \ {x}
  <2>1. Good(V)
    BY <1>2
  <2>2. /\ SumFunctionOnSet(f, U) = f[x] + SumFunctionOnSet(f, V)
        /\ SumFunctionOnSet(g, U) = g[x] + SumFunctionOnSet(g, V)
        /\ SumFunctionOnSet(h, U) = h[x] + SumFunctionOnSet(h, V)
        /\ SumFunctionOnSet(f, V) \in Int /\ SumFunctionOnSet(g, V) \in Int
        /\ f[x] \in Int /\ g[x] \in Int /\ h[x] = f[x] + g[x]
    BY <1>0, SumTake
  <2> HIDE DEF V
  <2> QED  BY <2>1, <2>2
<1> HIDE DEF C
<1>3. \A U \in SUBSET S : U \in C
  BY <1>1, <1>2, SubsetInduction
<1>4. S \in C
  BY <1>3
<1> QED  BY <1>4 DEF C

\* The sum over a part and the sum over the rest.
LEMMA SumSplit ==
    ASSUME NEW f, NEW S, IsFiniteSet(S), IsInt(f, S), NEW T \in SUBSET S
    PROVE  SumFunctionOnSet(f, S) = SumFunctionOnSet(f, T) + SumFunctionOnSet(f, S \ T)
<1>0. \A U \in SUBSET S : \A x \in U :
         /\ SumFunctionOnSet(f, U) = f[x] + SumFunctionOnSet(f, U \ {x})
         /\ SumFunctionOnSet(f, U \ {x}) \in Int /\ f[x] \in Int
  BY SumTake
<1> DEFINE Good(U) == SumFunctionOnSet(f, S) = SumFunctionOnSet(f, U) + SumFunctionOnSet(f, S \ U)
           C == {U \in SUBSET S : Good(U)}
<1>1. {} \in C
  <2>1. S \ {} = S /\ SumFunctionOnSet(f, S) \in Int
    BY SumInt
  <2> QED  BY <2>1, SumEmpty
<1>2. ASSUME NEW U \in SUBSET S, NEW x \in U, U \ {x} \in C PROVE U \in C
  <2> DEFINE V == U \ {x}
             W == S \ V
  <2>1. Good(V)
    BY <1>2
  <2>2. W \in SUBSET S /\ x \in W /\ W \ {x} = S \ U
    OBVIOUS
  <2>3. /\ SumFunctionOnSet(f, U) = f[x] + SumFunctionOnSet(f, V)
        /\ SumFunctionOnSet(f, V) \in Int /\ f[x] \in Int
    BY <1>0
  <2>4. /\ SumFunctionOnSet(f, W) = f[x] + SumFunctionOnSet(f, W \ {x})
        /\ SumFunctionOnSet(f, W \ {x}) \in Int
    BY <1>0, <2>2
  <2> HIDE DEF V, W
  <2>5. SumFunctionOnSet(f, S) = SumFunctionOnSet(f, V) + SumFunctionOnSet(f, W)
    BY <2>1 DEF W
  <2>6. SumFunctionOnSet(f, W \ {x}) = SumFunctionOnSet(f, S \ U)
    BY <2>2
  <2>7. Good(U)
    <3> DEFINE rest == SumFunctionOnSet(f, S \ U)
    <3>1. /\ SumFunctionOnSet(f, W) = f[x] + rest /\ rest \in Int
          /\ SumFunctionOnSet(f, S) = SumFunctionOnSet(f, V) + SumFunctionOnSet(f, W)
      BY <2>4, <2>5, <2>6
    <3> HIDE DEF rest
    <3>2. SumFunctionOnSet(f, S) = SumFunctionOnSet(f, U) + rest
      BY <2>3, <3>1
    <3> QED  BY <3>2 DEF rest
  <2> QED  BY <2>7 DEF C
<1> HIDE DEF C
<1>3. \A U \in SUBSET S : U \in C
  BY <1>1, <1>2, SubsetInduction
<1> QED  BY <1>3 DEF C

\* A sum of naturals is a natural, and no part of it is larger.
LEMMA SumPart ==
    ASSUME NEW f, NEW S, IsFiniteSet(S), \A x \in S : f[x] \in Nat, NEW T \in SUBSET S
    PROVE  /\ SumFunctionOnSet(f, S) \in Nat /\ SumFunctionOnSet(f, T) \in Nat
           /\ SumFunctionOnSet(f, T) <= SumFunctionOnSet(f, S)
<1>1. ASSUME NEW U \in SUBSET S PROVE SumFunctionOnSet(f, U) \in Nat
  <2>1. IsFiniteSet(U) /\ IsInt(f, U)
    BY FS_Subset DEF IsInt
  <2>2. \A x \in U : 0 * f[x] <= 1 * f[x]
    OBVIOUS
  <2>3. 0 * SumFunctionOnSet(f, U) <= 1 * SumFunctionOnSet(f, U)
    BY <2>1, <2>2, SumBound
  <2>4. SumFunctionOnSet(f, U) \in Int
    BY <2>1, SumInt
  <2> QED  BY <2>3, <2>4
<1>2. IsInt(f, S) /\ S \in SUBSET S /\ S \ T \in SUBSET S
  BY DEF IsInt
<1>3. SumFunctionOnSet(f, S) = SumFunctionOnSet(f, T) + SumFunctionOnSet(f, S \ T)
  BY <1>2, SumSplit
<1>4. /\ SumFunctionOnSet(f, S) \in Nat /\ SumFunctionOnSet(f, T) \in Nat
      /\ SumFunctionOnSet(f, S \ T) \in Nat
  BY <1>1, <1>2
<1> QED  BY <1>3, <1>4

\* Zeros add nothing.
LEMMA SumZero ==
    ASSUME NEW f, NEW S, IsFiniteSet(S), \A x \in S : f[x] = 0
    PROVE  SumFunctionOnSet(f, S) = 0
<1>1. IsInt(f, S)
  BY DEF IsInt
<1>2. (\A x \in S : 0 * f[x] <= 1 * f[x]) /\ (\A x \in S : 1 * f[x] <= 0 * f[x])
  OBVIOUS
<1>3. /\ 0 * SumFunctionOnSet(f, S) <= 1 * SumFunctionOnSet(f, S)
      /\ 1 * SumFunctionOnSet(f, S) <= 0 * SumFunctionOnSet(f, S)
  BY <1>1, <1>2, SumBound
<1>4. SumFunctionOnSet(f, S) \in Int
  BY <1>1, SumInt
<1> QED  BY <1>3, <1>4

\* A change of one term changes the sum by as much.
LEMMA SumChange ==
    ASSUME NEW f, NEW g, NEW S, IsFiniteSet(S), IsInt(f, S), NEW x \in S, NEW d \in Int,
           g[x] = f[x] + d, \A y \in S \ {x} : g[y] = f[y]
    PROVE  SumFunctionOnSet(g, S) = SumFunctionOnSet(f, S) + d
<1>1. IsInt(g, S)
  BY DEF IsInt
<1>2. /\ SumFunctionOnSet(f, S) = f[x] + SumFunctionOnSet(f, S \ {x})
      /\ SumFunctionOnSet(g, S) = g[x] + SumFunctionOnSet(g, S \ {x})
      /\ SumFunctionOnSet(f, S \ {x}) \in Int /\ f[x] \in Int
  BY <1>1, SumTake
<1>3. SumFunctionOnSet(f, S \ {x}) = SumFunctionOnSet(g, S \ {x})
  <2>1. IsFiniteSet(S \ {x}) /\ IsInt(f, S \ {x})
    BY FS_RemoveElement DEF IsInt
  <2> QED  BY <2>1, SumSame
<1> QED  BY <1>2, <1>3

\* Terms below a limit add up to at most as many times the limit.
LEMMA SumLimit ==
    ASSUME NEW f, NEW S, IsFiniteSet(S), IsInt(f, S), NEW n \in Int, \A x \in S : f[x] <= n
    PROVE  SumFunctionOnSet(f, S) <= Cardinality(S) * n
<1> DEFINE C == {U \in SUBSET S : SumFunctionOnSet(f, U) <= Cardinality(U) * n}
<1>1. {} \in C
  BY SumEmpty, FS_EmptySet
<1>2. ASSUME NEW U \in SUBSET S, NEW x \in U, U \ {x} \in C PROVE U \in C
  <2> DEFINE a == SumFunctionOnSet(f, U \ {x})
             k == Cardinality(U \ {x})
  <2>1. IsFiniteSet(U)
    BY FS_Subset
  <2>2. IsFiniteSet(U \ {x}) /\ Cardinality(U \ {x}) = Cardinality(U) - 1 /\ Cardinality(U) \in Nat
    BY <2>1, FS_RemoveElement, FS_CardinalityType
  <2>3. k \in Nat /\ Cardinality(U) = k + 1
    BY <2>2, FS_CardinalityType
  <2>4. SumFunctionOnSet(f, U) = f[x] + a /\ a \in Int /\ f[x] \in Int
    BY SumTake
  <2>5. a <= k * n /\ f[x] <= n
    BY <1>2
  <2> HIDE DEF a, k, C
  <2>6. (k + 1) * n = k * n + n /\ k * n \in Int
    BY <2>3
  <2>7. f[x] + a <= (k + 1) * n
    BY <2>4, <2>5, <2>6
  <2> QED  BY <2>3, <2>4, <2>7 DEF C
<1> HIDE DEF C
<1>3. \A U \in SUBSET S : U \in C
  BY <1>1, <1>2, SubsetInduction
<1>4. S \in C
  BY <1>3
<1> QED  BY <1>4 DEF C

\* f holds the sums of the rows of a matrix m over S and T
RowSums(f, m, S, T) ==
    \A x \in S : IsInt(m[x], T) /\ f[x] = SumFunctionOnSet(m[x], T)

\* g holds the sums of its columns c
ColumnSums(g, c, m, S, T) ==
    \A y \in T : /\ g[y] = SumFunctionOnSet(c[y], S)
                 /\ \A x \in S : c[y][x] = m[x][y]

\* A matrix adds up to the same by rows and by columns.
LEMMA SumSwap ==
    ASSUME NEW S, IsFiniteSet(S), NEW T, IsFiniteSet(T), NEW m, NEW c, NEW f, NEW g,
           RowSums(f, m, S, T), ColumnSums(g, c, m, S, T)
    PROVE  SumFunctionOnSet(f, S) = SumFunctionOnSet(g, T)
<1>0. /\ \A x \in S : IsInt(m[x], T) /\ f[x] = SumFunctionOnSet(m[x], T)
      /\ \A y \in T : g[y] = SumFunctionOnSet(c[y], S)
      /\ \A x \in S : \A y \in T : c[y][x] = m[x][y]
  BY DEF RowSums, ColumnSums
<1> DEFINE part(U) == [y \in T |-> SumFunctionOnSet(c[y], U)]
           C == {U \in SUBSET S : SumFunctionOnSet(f, U) = SumFunctionOnSet(part(U), T)}
<1>1. IsInt(f, S) /\ \A y \in T : IsInt(c[y], S)
  <2>1. \A y \in T : IsInt(c[y], S)
    BY <1>0 DEF IsInt
  <2>2. \A x \in S : f[x] \in Int
    BY <1>0, SumInt
  <2> QED  BY <2>1, <2>2 DEF IsInt
<1>2. ASSUME NEW U \in SUBSET S PROVE IsFiniteSet(U) /\ IsInt(part(U), T)
  <2>1. IsFiniteSet(U)
    BY FS_Subset
  <2>2. \A y \in T : IsInt(c[y], U)
    BY <1>1 DEF IsInt
  <2>3. \A y \in T : SumFunctionOnSet(c[y], U) \in Int
    BY <2>1, <2>2, SumInt
  <2> QED  BY <2>1, <2>3 DEF IsInt
<1>3. {} \in C
  <2>1. \A y \in T : part({})[y] = 0
    BY SumEmpty
  <2>2. SumFunctionOnSet(part({}), T) = 0
    BY <2>1, SumZero
  <2> QED  BY <2>2, SumEmpty
<1>4. ASSUME NEW U \in SUBSET S, NEW x \in U, U \ {x} \in C PROVE U \in C
  <2> DEFINE V == U \ {x}
  <2>1. SumFunctionOnSet(f, V) = SumFunctionOnSet(part(V), T)
    BY <1>4
  <2>2. SumFunctionOnSet(f, U) = SumFunctionOnSet(m[x], T) + SumFunctionOnSet(f, V)
    <3>1. SumFunctionOnSet(f, U) = f[x] + SumFunctionOnSet(f, V)
      BY <1>1, SumTake
    <3> QED  BY <1>0, <3>1
  <2>3. ASSUME NEW y \in T PROVE part(U)[y] = m[x][y] + part(V)[y]
    <3>1. SumFunctionOnSet(c[y], U) = c[y][x] + SumFunctionOnSet(c[y], V)
      BY <1>1, SumTake
    <3> QED  BY <1>0, <3>1
  <2>4. IsInt(m[x], T) /\ IsInt(part(V), T)
    BY <1>0, <1>2
  <2> HIDE DEF part, V
  <2>5. SumFunctionOnSet(part(U), T) = SumFunctionOnSet(m[x], T) + SumFunctionOnSet(part(V), T)
    BY <2>3, <2>4, SumAdd
  <2> QED  BY <2>1, <2>2, <2>5
<1>5. S \in C
  <2> HIDE DEF C
  <2>1. \A U \in SUBSET S : U \in C
    BY <1>3, <1>4, SubsetInduction
  <2> QED  BY <2>1
<1>6. SumFunctionOnSet(part(S), T) = SumFunctionOnSet(g, T)
  <2>1. IsInt(part(S), T)
    BY <1>2
  <2>2. \A y \in T : part(S)[y] = g[y]
    BY <1>0
  <2> HIDE DEF part
  <2> QED  BY <2>1, <2>2, SumSame
<1> QED  BY <1>5, <1>6

\* Raising the terms of a part raises the sum by what they are raised by.
LEMMA SumRaise ==
    ASSUME NEW f, NEW g, NEW c, NEW S, IsFiniteSet(S), IsInt(f, S),
           NEW T \in SUBSET S, IsInt(c, T),
           \A x \in T : g[x] = f[x] + c[x], \A x \in S \ T : g[x] = f[x]
    PROVE  SumFunctionOnSet(g, S) = SumFunctionOnSet(f, S) + SumFunctionOnSet(c, T)
<1>1. IsFiniteSet(T) /\ IsFiniteSet(S \ T)
  BY FS_Subset
<1>2. IsInt(f, T) /\ IsInt(f, S \ T)
  BY DEF IsInt
<1>3. IsInt(g, S)
  <2>1. \A x \in S : g[x] = f[x] \/ (x \in T /\ g[x] = f[x] + c[x])
    OBVIOUS
  <2> QED  BY <2>1 DEF IsInt
<1>4. SumFunctionOnSet(g, S) = SumFunctionOnSet(g, T) + SumFunctionOnSet(g, S \ T)
  BY <1>3, SumSplit
<1>5. SumFunctionOnSet(f, S) = SumFunctionOnSet(f, T) + SumFunctionOnSet(f, S \ T)
  BY SumSplit
<1>6. SumFunctionOnSet(g, T) = SumFunctionOnSet(f, T) + SumFunctionOnSet(c, T)
  BY <1>1, <1>2, SumAdd
<1>7. SumFunctionOnSet(f, S \ T) = SumFunctionOnSet(g, S \ T)
  BY <1>1, <1>2, SumSame
<1>8. /\ SumFunctionOnSet(f, T) \in Int /\ SumFunctionOnSet(f, S \ T) \in Int
      /\ SumFunctionOnSet(c, T) \in Int
  BY <1>1, <1>2, SumInt
<1> QED  BY <1>4, <1>5, <1>6, <1>7, <1>8

\* The sum of a function is the sum over its domain.
LEMMA SumTotal ==
    ASSUME NEW S, NEW X, NEW f \in [S -> X]
    PROVE  SumFunction(f) = SumFunctionOnSet(f, S)
<1>1. DOMAIN f = S
  OBVIOUS
<1>2. SumFunction(f) = SumFunctionOnSet(f, DOMAIN f)
  BY DEF SumFunction, SumFunctionOnSet, FoldFunction, FoldFunctionOnSet, MapThenFoldSet
<1> QED  BY <1>1, <1>2
=============================================================================
