------------------------------ MODULE SetLemmas ------------------------------
(***************************************************************************)
(* Facts about finite sets that several proofs need.  The library's        *)
(* theorems of induction take an operator, which cannot be given to them   *)
(* here: a proof by induction looks at a least number, or at a smallest    *)
(* set, of those that disobey.  So is shown that a fold over a finite set, *)
(* which the library defines by recursion, has a value at all.             *)
(***************************************************************************)
EXTENDS FiniteSetsExt, FiniteSetTheorems, WellFoundedInduction, TLAPS

\* A set of numbers has a least one.
LEMMA Least == ASSUME NEW T \in SUBSET Nat, T # {}
               PROVE  \E n \in T : \A m \in T : n <= m
  <1>1. \E n \in T : \A m \in T : ~(<<m, n>> \in OpToRel(<, Nat))
    BY WFMin, NatLessThanWellFounded, Zenon
  <1>2. PICK n \in T : \A m \in T : ~(<<m, n>> \in OpToRel(<, Nat))
    BY <1>1
  <1>3. ASSUME NEW m \in T PROVE n <= m
    <2>1. ~(m < n)
      <3>1. <<m, n>> \in Nat \X Nat
        OBVIOUS
      <3>2. m < n => <<m, n>> \in {ss \in Nat \X Nat : ss[1] < ss[2]}
        BY <3>1
      <3> QED BY <1>2, <3>2 DEF OpToRel
    <2>2. m \in Nat /\ n \in Nat
      OBVIOUS
    <2> QED BY <2>1, <2>2
  <1> QED BY <1>3

\* A set of finite sets has a smallest one.
LEMMA SmallestSet == ASSUME NEW S, IsFiniteSet(S), NEW T \in SUBSET SUBSET S, T # {}
                     PROVE  \E s \in T : \A t \in T : t \subseteq s => t = s
  <1> DEFINE N == {Cardinality(s) : s \in T}
  <1>1. \A s \in T : IsFiniteSet(s) /\ Cardinality(s) \in Nat
    BY FS_Subset, FS_CardinalityType
  <1>2. N \in SUBSET Nat /\ N # {}
    BY <1>1
  <1>3. PICK s \in T : \A t \in T : Cardinality(s) <= Cardinality(t)
    <2>1. PICK n \in N : \A m \in N : n <= m
      <3> HIDE DEF N
      <3> QED BY <1>2, Least
    <2> QED BY <2>1
  <1>4. ASSUME NEW t \in T, t \subseteq s PROVE t = s
    <2>1. Cardinality(t) <= Cardinality(s) /\ (Cardinality(t) = Cardinality(s) => t = s)
      BY <1>1, <1>4, FS_Subset
    <2> QED BY <1>1, <1>3, <2>1
  <1> QED BY <1>3, <1>4
\* The recursion in the definition of a fold: c says which element goes first, h
\* what it does to the result of the others.
FoldStep(b, c, h, g, s) == IF s = {} THEN b ELSE h[<<c[s], g[s \ {c[s]}]>>]
IsFold(b, c, h, S, g) == g = [s \in SUBSET S |-> FoldStep(b, c, h, g, s)]

\* Over a finite set there is a function that obeys it.
LEMMA FoldExists ==
    ASSUME NEW S, IsFiniteSet(S), NEW V, NEW b \in V, NEW h \in [S \X V -> V], NEW c,
           \A s \in SUBSET S : s # {} => c[s] \in s
    PROVE  \E g \in [SUBSET S -> V] : IsFold(b, c, h, S, g)
  <1> DEFINE Upto(n) == \E g \in [SUBSET S -> V] :
                          \A s \in SUBSET S : Cardinality(s) <= n => g[s] = FoldStep(b, c, h, g, s)
             Bad == {n \in Nat : ~Upto(n)}
  <1>1. \A s \in SUBSET S : IsFiniteSet(s) /\ Cardinality(s) \in Nat
                            /\ (Cardinality(s) = 0 <=> s = {})
    BY FS_Subset, FS_CardinalityType, FS_EmptySet
  <1>3. \A s \in SUBSET S : s # {} =>
           s \ {c[s]} \in SUBSET S /\ Cardinality(s \ {c[s]}) = Cardinality(s) - 1
    BY <1>1, FS_RemoveElement
  <1>4. Upto(0)
    <2>1. \A s \in SUBSET S : Cardinality(s) <= 0 => s = {}
      BY <1>1
    <2> DEFINE g == [s \in SUBSET S |-> b]
    <2>2. g \in [SUBSET S -> V] /\ FoldStep(b, c, h, g, {}) = b /\ g[{}] = b
      BY DEF FoldStep
    <2> QED BY <2>1, <2>2
  <1>5. ASSUME NEW n \in Nat, Upto(n) PROVE Upto(n + 1)
    <2>1. PICK g \in [SUBSET S -> V] :
            \A s \in SUBSET S : Cardinality(s) <= n => g[s] = FoldStep(b, c, h, g, s)
      BY <1>5
    <2> DEFINE e == [s \in SUBSET S |-> FoldStep(b, c, h, g, s)]
    <2>2. e \in [SUBSET S -> V]
      <3>1. ASSUME NEW s \in SUBSET S PROVE FoldStep(b, c, h, g, s) \in V
        <4>1. CASE s # {}
          <5>1. c[s] \in S /\ s \ {c[s]} \in SUBSET S
            BY <4>1
          <5>2. g[s \ {c[s]}] \in V
            BY <5>1
          <5>3. <<c[s], g[s \ {c[s]}]>> \in S \X V
            BY <5>1, <5>2
          <5> HIDE DEF Upto, Bad
          <5> QED BY <4>1, <5>3 DEF FoldStep
        <4> QED BY <4>1 DEF FoldStep
      <3> QED BY <3>1
    <2>3. ASSUME NEW s \in SUBSET S, Cardinality(s) <= n + 1 PROVE e[s] = FoldStep(b, c, h, e, s)
      <3>1. CASE s = {}
        BY <3>1 DEF FoldStep
      <3>2. CASE s # {}
        <4>1. s \ {c[s]} \in SUBSET S /\ Cardinality(s \ {c[s]}) <= n
          BY <1>1, <1>3, <2>3, <3>2
        <4>2. e[s \ {c[s]}] = g[s \ {c[s]}]
          BY <2>1, <4>1
        <4> QED BY <3>2, <4>2 DEF FoldStep
      <3> QED BY <3>1, <3>2
    <2> QED BY <2>2, <2>3
  <1>6. \A n \in Nat : Upto(n)
    <2> SUFFICES ASSUME Bad # {} PROVE FALSE
      OBVIOUS
    <2>1. PICK n \in Bad : \A m \in Bad : n <= m
      BY Least
    <2>2. n \in Nat /\ ~Upto(n)
      BY <2>1
    <2> HIDE DEF Upto
    <2>3. n # 0
      BY <1>4, <2>2
    <2>4. n - 1 \in Nat /\ ~(n <= n - 1)
      BY <2>2, <2>3
    <2>5. Upto(n - 1)
      BY <2>1, <2>4
    <2>6. Upto(n - 1 + 1)
      BY <1>5, <2>4, <2>5
    <2>7. n - 1 + 1 = n
      BY <2>2
    <2> QED BY <2>2, <2>6, <2>7
  <1>7. PICK g \in [SUBSET S -> V] :
          \A s \in SUBSET S : Cardinality(s) <= Cardinality(S) => g[s] = FoldStep(b, c, h, g, s)
    <2>1. Upto(Cardinality(S))
      <3> HIDE DEF Upto
      <3> QED BY <1>1, <1>6
    <2> QED BY <2>1
  <1>8. \A s \in SUBSET S : g[s] = FoldStep(b, c, h, g, s)
    BY <1>7, FS_Subset
  <1> QED BY <1>7, <1>8 DEF IsFold
-----------------------------------------------------------------------------
\* Sums over finite sets: the recursion in the definition of the library.
Chosen(s) == CHOOSE x \in s : TRUE
Term(f, g, s) == IF s = {} THEN 0 ELSE f[Chosen(s)] + g[s \ {Chosen(s)}]
Sums(f, S, g) == g = [s \in SUBSET S |-> Term(f, g, s)]

LEMMA SumDef == ASSUME NEW f, NEW S
                PROVE  SumFunctionOnSet(f, S) = (CHOOSE g : Sums(f, S, g))[S]
  BY DEF SumFunctionOnSet, FoldFunctionOnSet, MapThenFoldSet, Sums, Term, Chosen

LEMMA SumExists == ASSUME NEW S, IsFiniteSet(S), NEW f \in [S -> Int]
                   PROVE  \E g \in [SUBSET S -> Int] : Sums(f, S, g)
  <1> DEFINE c == [s \in SUBSET S |-> Chosen(s)]
             h == [p \in S \X Int |-> f[p[1]] + p[2]]
  <1>1. h \in [S \X Int -> Int]
    OBVIOUS
  <1>2. \A s \in SUBSET S : s # {} => c[s] \in s /\ c[s] = Chosen(s)
    BY DEF Chosen
  <1>3. PICK g \in [SUBSET S -> Int] : IsFold(0, c, h, S, g)
    <2> HIDE DEF c, h
    <2>1. 0 \in Int /\ \A s \in SUBSET S : s # {} => c[s] \in s
      BY <1>2
    <2> QED BY <1>1, <2>1, FoldExists, Zenon
  <1>4. ASSUME NEW s \in SUBSET S PROVE FoldStep(0, c, h, g, s) = Term(f, g, s)
    <2>1. CASE s # {}
      <3>1. Chosen(s) \in S /\ c[s] = Chosen(s) /\ s \ {Chosen(s)} \in SUBSET S
        BY <1>2, <2>1
      <3>2. g[s \ {Chosen(s)}] \in Int
        BY <3>1
      <3>3. h[<<Chosen(s), g[s \ {Chosen(s)}]>>] = f[Chosen(s)] + g[s \ {Chosen(s)}]
        BY <3>1, <3>2
      <3> QED BY <2>1, <3>1, <3>3 DEF FoldStep, Term
    <2> QED BY <2>1 DEF FoldStep, Term
  <1> QED BY <1>3, <1>4 DEF IsFold, Sums

\* Two sums agree on common sets whose terms are the same.
LEMMA SumsAgree == ASSUME NEW S, NEW f, NEW g, Sums(f, S, g),
                          NEW R, NEW e, NEW h, Sums(e, R, h),
                          NEW Q, IsFiniteSet(Q), Q \subseteq S, Q \subseteq R,
                          \A x \in Q : f[x] = e[x]
                   PROVE  g[Q] = h[Q]
  <1> DEFINE Bad == {s \in SUBSET Q : g[s] # h[s]}
  <1> SUFFICES ASSUME Bad # {} PROVE FALSE
    OBVIOUS
  <1>1. PICK s \in Bad : \A t \in Bad : t \subseteq s => t = s
    <2>1. Bad \in SUBSET SUBSET Q
      OBVIOUS
    <2> HIDE DEF Bad
    <2> QED BY <2>1, SmallestSet
  <1>2. g[s] = Term(f, g, s) /\ h[s] = Term(e, h, s)
    BY <1>1 DEF Sums
  <1>3. s # {}
    BY <1>1, <1>2 DEF Term
  <1>4. Chosen(s) \in s
    BY <1>3 DEF Chosen
  <1>5. s \ {Chosen(s)} \notin Bad
    BY <1>1, <1>4
  <1>6. g[s \ {Chosen(s)}] = h[s \ {Chosen(s)}] /\ f[Chosen(s)] = e[Chosen(s)]
    BY <1>1, <1>4, <1>5
  <1> QED BY <1>1, <1>2, <1>6 DEF Term

LEMMA SumIs == ASSUME NEW S, IsFiniteSet(S), NEW f, NEW R, NEW g, f \in [R -> Int], S \subseteq R
                 PROVE  \E h \in [SUBSET S -> Int] : Sums(f, S, h) /\ SumFunctionOnSet(f, S) = h[S]
  <1> DEFINE e == [x \in S |-> f[x]]
  <1>1. e \in [S -> Int]
    OBVIOUS
  <1>2. PICK h \in [SUBSET S -> Int] : Sums(e, S, h)
    BY <1>1, SumExists
  <1>3. \A s \in SUBSET S : s # {} => Chosen(s) \in S
    BY DEF Chosen
  <1>4. Sums(f, S, h)
    <2>1. \A s \in SUBSET S : Term(e, h, s) = Term(f, h, s)
      BY <1>3 DEF Term
    <2> QED BY <1>2, <2>1 DEF Sums
  <1>5. Sums(f, S, CHOOSE k : Sums(f, S, k))
    BY <1>4
  <1>6. (CHOOSE k : Sums(f, S, k))[S] = h[S]
    BY <1>4, <1>5, SumsAgree
  <1> QED BY <1>4, <1>6, SumDef

\* One function gives the sums over all parts of a set.
PartSums(f, S, g) ==
    g \in [SUBSET S -> Int] /\ Sums(f, S, g) /\ \A s \in SUBSET S : SumFunctionOnSet(f, s) = g[s]

LEMMA SumsOfParts == ASSUME NEW R, NEW f, f \in [R -> Int], NEW S, S \subseteq R, IsFiniteSet(S)
                     PROVE  \E g : PartSums(f, S, g)
  <1>1. PICK g \in [SUBSET S -> Int] : Sums(f, S, g)
    BY SumIs
  <1>2. ASSUME NEW s \in SUBSET S PROVE SumFunctionOnSet(f, s) = g[s]
    <2>1. IsFiniteSet(s) /\ s \subseteq R
      BY FS_Subset
    <2>2. PICK h \in [SUBSET s -> Int] : Sums(f, s, h) /\ SumFunctionOnSet(f, s) = h[s]
      BY <2>1, SumIs
    <2> QED BY <1>1, <2>1, <2>2, SumsAgree
  <1> QED BY <1>1, <1>2 DEF PartSums

LEMMA SumEmpty == ASSUME NEW R, NEW f, f \in [R -> Int] PROVE SumFunctionOnSet(f, {}) = 0
  <1>1. PICK g : PartSums(f, {}, g)
    BY SumsOfParts, FS_EmptySet
  <1> QED BY <1>1 DEF PartSums, Sums, Term

LEMMA SumType == ASSUME NEW R, NEW f, f \in [R -> Int], NEW S, S \subseteq R, IsFiniteSet(S)
                   PROVE  SumFunctionOnSet(f, S) \in Int
  <1>1. PICK g : PartSums(f, S, g)
    BY SumsOfParts
  <1> QED BY <1>1 DEF PartSums

LEMMA SumSame == ASSUME NEW R, NEW f, f \in [R -> Int], NEW Q, NEW e, e \in [Q -> Int],
                          NEW S, S \subseteq R, S \subseteq Q, IsFiniteSet(S),
                          \A x \in S : f[x] = e[x]
                   PROVE  SumFunctionOnSet(f, S) = SumFunctionOnSet(e, S)
  <1>1. PICK g \in [SUBSET S -> Int] : Sums(f, S, g) /\ SumFunctionOnSet(f, S) = g[S]
    BY SumIs
  <1>2. PICK h \in [SUBSET S -> Int] : Sums(e, S, h) /\ SumFunctionOnSet(e, S) = h[S]
    BY SumIs
  <1> QED BY <1>1, <1>2, SumsAgree

\* The sum does not depend on the element that the definition picks first.
LEMMA SumRemove == ASSUME NEW R, NEW f, f \in [R -> Int], NEW S, S \subseteq R, IsFiniteSet(S), NEW x \in S
                     PROVE  SumFunctionOnSet(f, S) = f[x] + SumFunctionOnSet(f, S \ {x})
  <1>0. PICK g : PartSums(f, S, g)
    BY SumsOfParts
  <1>1. g \in [SUBSET S -> Int] /\ Sums(f, S, g) /\ \A s \in SUBSET S : SumFunctionOnSet(f, s) = g[s]
    BY <1>0 DEF PartSums
  <1> DEFINE Bad == {s \in SUBSET S : \E y \in s : g[s] # f[y] + g[s \ {y}]}
  <1>2. Bad = {}
    <2> SUFFICES ASSUME Bad # {} PROVE FALSE
      OBVIOUS
    <2>1. PICK s \in Bad : \A t \in Bad : t \subseteq s => t = s
      <3>1. Bad \in SUBSET SUBSET S
        OBVIOUS
      <3> HIDE DEF Bad
      <3> QED BY <3>1, SmallestSet
    <2>2. PICK y \in s : g[s] # f[y] + g[s \ {y}]
      BY <2>1
    <2> DEFINE p == Chosen(s)
    <2>3. p \in s /\ g[s] = f[p] + g[s \ {p}]
      BY <1>1, <2>1, <2>2 DEF Sums, Term, Chosen
    <2> HIDE DEF p
    <2>4. p # y
      BY <2>2, <2>3
    <2>5. s \ {p} \notin Bad /\ s \ {y} \notin Bad
      <3>1. s \ {p} # s /\ s \ {y} # s
        BY <2>3
      <3> HIDE DEF Bad
      <3> QED BY <2>1, <3>1
    <2>6. g[s \ {p}] = f[y] + g[(s \ {p}) \ {y}]
      BY <2>1, <2>4, <2>5
    <2>7. g[s \ {y}] = f[p] + g[(s \ {y}) \ {p}]
      BY <2>1, <2>3, <2>4, <2>5
    <2>8. (s \ {y}) \ {p} = (s \ {p}) \ {y} /\ (s \ {y}) \ {p} \in SUBSET S
      BY <2>1
    <2>9. s \in SUBSET S
      BY <2>1
    <2>10. f[p] \in Int /\ f[y] \in Int /\ g[(s \ {y}) \ {p}] \in Int
      BY <1>1, <2>3, <2>8, <2>9
    <2> HIDE DEF Bad
    <2>11. f[p] + (f[y] + g[(s \ {y}) \ {p}]) = f[y] + (f[p] + g[(s \ {y}) \ {p}])
      BY <2>10
    <2> QED BY <2>2, <2>3, <2>6, <2>7, <2>8, <2>11
  <1>3. g[S] = f[x] + g[S \ {x}]
    BY <1>2
  <1> QED BY <1>1, <1>3

LEMMA SumAdd == ASSUME NEW R, NEW f, f \in [R -> Int], NEW S, S \subseteq R, IsFiniteSet(S), NEW x \in R, x \notin S
                  PROVE  SumFunctionOnSet(f, S \cup {x}) = f[x] + SumFunctionOnSet(f, S)
  <1>1. (S \cup {x}) \ {x} = S /\ IsFiniteSet(S \cup {x})
    BY FS_AddElement
  <1> QED BY <1>1, SumRemove

\* More terms that are not negative make no smaller sum.
LEMMA SumMonotone == ASSUME NEW R, NEW f, f \in [R -> Int], NEW T, T \subseteq R, IsFiniteSet(T),
                            NEW S, S \subseteq T, \A x \in T \ S : f[x] >= 0
                     PROVE  SumFunctionOnSet(f, S) <= SumFunctionOnSet(f, T)
  <1> DEFINE Bad == {s \in SUBSET T : S \subseteq s /\ ~(SumFunctionOnSet(f, S) <= SumFunctionOnSet(f, s))}
  <1> SUFFICES ASSUME Bad # {} PROVE FALSE
    OBVIOUS
  <1>1. PICK s \in Bad : \A t \in Bad : t \subseteq s => t = s
    <2>1. Bad \in SUBSET SUBSET T
      OBVIOUS
    <2> HIDE DEF Bad
    <2> QED BY <2>1, SmallestSet
  <1>2. /\ s \subseteq T /\ S \subseteq s /\ IsFiniteSet(s) /\ IsFiniteSet(S)
        /\ ~(SumFunctionOnSet(f, S) <= SumFunctionOnSet(f, s))
    BY <1>1, FS_Subset
  <1>3. SumFunctionOnSet(f, S) \in Int
    BY <1>2, SumType
  <1>4. PICK x \in s : x \notin S
    <2>1. s # S
      BY <1>2, <1>3
    <2> QED BY <1>2, <2>1
  <1>5. SumFunctionOnSet(f, s) = f[x] + SumFunctionOnSet(f, s \ {x})
    BY <1>2, SumRemove
  <1>6. s \ {x} \notin Bad /\ S \subseteq s \ {x} /\ s \ {x} \in SUBSET T
    <2>1. s \ {x} # s
      BY <1>4
    <2> HIDE DEF Bad
    <2> QED BY <1>1, <1>2, <1>4, <2>1
  <1>7. SumFunctionOnSet(f, S) <= SumFunctionOnSet(f, s \ {x})
    BY <1>6
  <1>8. SumFunctionOnSet(f, s \ {x}) \in Int /\ f[x] \in Int /\ f[x] >= 0
    <2>1. IsFiniteSet(s \ {x}) /\ s \ {x} \subseteq R /\ x \in T \ S
      BY <1>2, <1>4, FS_Subset
    <2> QED BY <2>1, SumType
  <1> HIDE DEF Bad
  <1> QED BY <1>2, <1>3, <1>5, <1>7, <1>8

LEMMA SumNat == ASSUME NEW R, NEW f, f \in [R -> Int], NEW S, S \subseteq R, IsFiniteSet(S),
                       \A x \in S : f[x] >= 0
                PROVE  SumFunctionOnSet(f, S) >= 0
  <1>1. SumFunctionOnSet(f, {}) = 0 /\ SumFunctionOnSet(f, S) \in Int
    BY SumEmpty, SumType
  <1>2. SumFunctionOnSet(f, {}) <= SumFunctionOnSet(f, S)
    BY SumMonotone
  <1> QED BY <1>1, <1>2

LEMMA SumZero == ASSUME NEW R, NEW f, f \in [R -> Int], NEW S, S \subseteq R, IsFiniteSet(S),
                          \A x \in S : f[x] = 0
                   PROVE  SumFunctionOnSet(f, S) = 0
  <1> DEFINE Bad == {s \in SUBSET S : SumFunctionOnSet(f, s) # 0}
  <1> SUFFICES ASSUME Bad # {} PROVE FALSE
    OBVIOUS
  <1>1. PICK s \in Bad : \A t \in Bad : t \subseteq s => t = s
    <2>1. Bad \in SUBSET SUBSET S
      OBVIOUS
    <2> HIDE DEF Bad
    <2> QED BY <2>1, SmallestSet
  <1>2. PICK x : x \in s
    <2>1. SumFunctionOnSet(f, {}) = 0
      BY SumEmpty
    <2>2. SumFunctionOnSet(f, s) # 0
      BY <1>1
    <2> QED BY <2>1, <2>2
  <1>3. IsFiniteSet(s)
    BY <1>1, FS_Subset
  <1>4. SumFunctionOnSet(f, s) = f[x] + SumFunctionOnSet(f, s \ {x})
    BY <1>1, <1>2, <1>3, SumRemove
  <1>5. s \ {x} \notin Bad
    <2>1. s \ {x} # s
      BY <1>2
    <2> HIDE DEF Bad
    <2> QED BY <1>1, <2>1
  <1>6. SumFunctionOnSet(f, s \ {x}) = 0 /\ f[x] = 0
    BY <1>1, <1>2, <1>5
  <1> QED BY <1>1, <1>4, <1>6

\* Another term for one element.
LEMMA SumUpdate == ASSUME NEW R, NEW f, f \in [R -> Int], NEW S, S \subseteq R, IsFiniteSet(S), NEW x \in R, NEW v \in Int
                     PROVE  SumFunctionOnSet([f EXCEPT ![x] = v], S) =
                               IF x \in S THEN SumFunctionOnSet(f, S) - f[x] + v ELSE SumFunctionOnSet(f, S)
  <1> DEFINE e == [f EXCEPT ![x] = v]
  <1>1. e \in [R -> Int] /\ e[x] = v /\ \A y \in R \ {x} : e[y] = f[y]
    OBVIOUS
  <1> HIDE DEF e
  <1>2. CASE x \notin S
    <2>1. SumFunctionOnSet(e, S) = SumFunctionOnSet(f, S)
      BY <1>1, <1>2, SumSame
    <2> QED BY <1>2, <2>1 DEF e
  <1>3. CASE x \in S
    <2>1. IsFiniteSet(S \ {x}) /\ S \ {x} \in SUBSET R
      BY FS_Subset
    <2>2. SumFunctionOnSet(e, S \ {x}) = SumFunctionOnSet(f, S \ {x})
      BY <1>1, <2>1, SumSame
    <2>3. SumFunctionOnSet(e, S) = e[x] + SumFunctionOnSet(e, S \ {x}) /\ SumFunctionOnSet(f, S) = f[x] + SumFunctionOnSet(f, S \ {x})
      BY <1>1, <1>3, SumRemove
    <2>4. SumFunctionOnSet(f, S \ {x}) \in Int /\ f[x] \in Int
      BY <2>1, SumType
    <2>5. SumFunctionOnSet(e, S) = SumFunctionOnSet(f, S) - f[x] + v
      BY <1>1, <2>2, <2>3, <2>4
    <2> QED BY <1>3, <2>5 DEF e
  <1> QED BY <1>2, <1>3
=============================================================================
