----------------------------- MODULE FiniteSums -----------------------------
(***************************************************************************)
(* Facts about the sums and folds over finite sets that the models use:    *)
(* that the recursion in them is well-founded, that the order of summation *)
(* does not matter, and how sums compare.  The induction in these proofs   *)
(* is the choice of a smallest set without the property.                   *)
(***************************************************************************)
EXTENDS Integers, FiniteSets, Functions, FiniteSetTheorems, TLAPS

(* A nonempty family of subsets of a finite set has a smallest member.     *)
LEMMA SmallestSubset ==
  ASSUME NEW S, IsFiniteSet(S), NEW T, T \subseteq SUBSET S, T # {}
  PROVE  \E x \in T : \A y \in T : y \subseteq x => y = x
<1> DEFINE R == StrictSubsetOrdering(S)
<1>1. IsWellFoundedOn(R, SUBSET S)
  BY FS_StrictSubsetOrderingWellFounded, FS_FiniteSubsetsOfFinite
<1> HIDE DEF R
<1>2. PICK x \in T : \A y \in T : ~(<<y, x>> \in R)
  BY <1>1, WFMin, Zenon
<1>3. ASSUME NEW y \in T, y \subseteq x, y # x PROVE <<y, x>> \in R
  <2>1. <<y, x>> \in (SUBSET S) \X (SUBSET S)
    OBVIOUS
  <2> QED
    BY <1>3, <2>1 DEF R, StrictSubsetOrdering
<1>4. \A y \in T : y \subseteq x => y = x
  BY <1>2, <1>3, Zenon
<1> QED
  BY <1>4

-----------------------------------------------------------------------------
(***************************************************************************)
(* The recursion over the subsets of a finite set.                         *)
(***************************************************************************)

Pick(s) == CHOOSE x \in s : TRUE

(* g is the fold with the step functions G over the subsets of S. *)
IsFold(g, G, S) ==
  /\ g \in [SUBSET S -> Int]
  /\ \A s \in SUBSET S : g[s] = IF s = {} THEN 0 ELSE G[Pick(s)][g[s \ {Pick(s)}]]

(* A nonempty set has the element that is picked from it.                  *)
LEMMA PickIn ==
  ASSUME NEW s, s # {}
  PROVE  Pick(s) \in s
BY DEF Pick

(* Two folds with the same steps agree where both are defined.             *)
LEMMA FoldUnique ==
  ASSUME NEW S, IsFiniteSet(S), NEW T, NEW G, NEW g, NEW h,
         IsFold(g, G, S), IsFold(h, G, T), NEW u \in SUBSET S, u \in SUBSET T
  PROVE  g[u] = h[u]
<1> DEFINE Bad == {s \in SUBSET S : s \in SUBSET T /\ g[s] # h[s]}
<1> SUFFICES ASSUME Bad # {} PROVE FALSE
  OBVIOUS
<1>1. PICK s \in Bad : \A y \in Bad : y \subseteq s => y = s
  <2>1. Bad \subseteq SUBSET S
    OBVIOUS
  <2> HIDE DEF Bad
  <2> QED
    BY <2>1, SmallestSubset
<1>2. s # {}
  BY Zenon DEF IsFold
<1>3. Pick(s) \in s
  BY <1>2, PickIn
<1>4. g[s \ {Pick(s)}] = h[s \ {Pick(s)}]
  BY <1>1, <1>3
<1> QED
  BY <1>1, <1>2, <1>4 DEF IsFold

(* The fold exists, for every finite set.                                  *)
LEMMA FoldExists ==
  ASSUME NEW S, IsFiniteSet(S), NEW G \in [S -> [Int -> Int]]
  PROVE  \E g : IsFold(g, G, S)
<1> DEFINE Bad == {s \in SUBSET S : ~\E g : IsFold(g, G, s)}
<1> SUFFICES ASSUME Bad # {} PROVE FALSE
  OBVIOUS
<1>1. PICK t \in Bad : \A y \in Bad : y \subseteq t => y = t
  <2>1. Bad \subseteq SUBSET S
    OBVIOUS
  <2> HIDE DEF Bad
  <2> QED
    BY <2>1, SmallestSubset
<1> DEFINE F(u) == CHOOSE g : IsFold(g, G, u)
           V(u) == F(u)[u]
           whole == IF t = {} THEN 0 ELSE G[Pick(t)][V(t \ {Pick(t)})]
           h == [u \in SUBSET t |-> IF u = t THEN whole ELSE V(u)]
<1>2. ASSUME NEW u \in SUBSET t, u # t PROVE IsFold(F(u), G, u)
  <2>1. \E g : IsFold(g, G, u)
    BY <1>1, <1>2, Zenon
  <2> QED
    BY <2>1, Zenon
<1> HIDE DEF F
<1>3. ASSUME NEW u \in SUBSET t, u # t PROVE V(u) \in Int
  BY <1>2, <1>3, ZenonT(60) DEF IsFold
<1>4. ASSUME NEW u \in SUBSET t, u # t, u # {}
      PROVE  V(u) = G[Pick(u)][V(u \ {Pick(u)})]
  <2> DEFINE w == u \ {Pick(u)}
  <2>1. Pick(u) \in u
    BY <1>4, PickIn
  <2>2. w \in SUBSET t /\ w # t /\ w \in SUBSET u
    BY <2>1
  <2>3. IsFold(F(u), G, u) /\ IsFold(F(w), G, w)
    BY <1>2, <1>4, <2>2
  <2>4. IsFiniteSet(u)
    <3>1. u \in SUBSET S
      BY <1>1
    <3> QED
      BY <3>1, FS_Subset
  <2>5. F(u)[w] = F(w)[w]
    <3>1. w \in SUBSET w
      OBVIOUS
    <3> HIDE DEF w
    <3> QED
      BY <2>2, <2>3, <2>4, <3>1, FoldUnique
  <2>6. F(u)[u] = G[Pick(u)][F(u)[w]]
    BY <2>3, <1>4 DEF IsFold
  <2> QED
    BY <2>5, <2>6
<1>5. ASSUME {} # t PROVE V({}) = 0
  BY <1>2, <1>5, Zenon DEF IsFold
<1>6. whole \in Int
  <2>1. CASE t # {}
    <3>1. Pick(t) \in t /\ Pick(t) \in S
      BY <2>1, PickIn, <1>1
    <3>2. V(t \ {Pick(t)}) \in Int
      BY <3>1, <1>3
    <3> QED
      BY <2>1, <3>1, <3>2
  <2> QED
    BY <2>1
<1>7. h \in [SUBSET t -> Int]
  BY <1>3, <1>6, Zenon
<1>8. ASSUME NEW s \in SUBSET t
      PROVE  h[s] = IF s = {} THEN 0 ELSE G[Pick(s)][h[s \ {Pick(s)}]]
  <2>1. CASE s = {}
    BY <2>1, <1>5
  <2>2. CASE s # {}
    <3>1. Pick(s) \in s
      BY <2>2, PickIn
    <3>2. s \ {Pick(s)} \in SUBSET t /\ s \ {Pick(s)} # t
      BY <3>1
    <3>3. h[s \ {Pick(s)}] = V(s \ {Pick(s)})
      BY <3>2
    <3>4. h[s] = G[Pick(s)][V(s \ {Pick(s)})]
      BY <2>2, <1>4, Zenon
    <3> QED
      BY <2>2, <3>3, <3>4, Zenon
  <2> QED
    BY <2>1, <2>2, Zenon
<1>9. IsFold(h, G, t)
  BY <1>7, <1>8, Zenon DEF IsFold
<1> QED
  BY <1>1, <1>9

-----------------------------------------------------------------------------
(***************************************************************************)
(* Sums of the values of a function.                                       *)
(***************************************************************************)

(* Adding the values of a function, one after the other. *)
Adding(f, S) == [x \in S |-> [v \in Int |-> v + f[x]]]

(* The recursion in a sum has its function, the values of which are the    *)
(* sums over the subsets.                                                  *)
LEMMA SumIsFold ==
  ASSUME NEW S, IsFiniteSet(S), NEW f, \A x \in S : f[x] \in Int,
         NEW g, IsFold(g, Adding(f, S), S), NEW T \in SUBSET S
  PROVE  SumFunctionOnSet(f, T) = g[T]
<1> DEFINE Body(iter) ==
             [s \in SUBSET T |->
                IF s = {} THEN 0
                ELSE f[CHOOSE x \in s : TRUE] + iter[s \ {CHOOSE x \in s : TRUE}]]
           sums == CHOOSE iter : iter = Body(iter)
           h == [s \in SUBSET T |-> g[s]]
<1>1. SumFunctionOnSet(f, T) = sums[T]
  BY DEF SumFunctionOnSet, FoldFunctionOnSet, MapThenFoldSet
<1>2. ASSUME NEW s \in SUBSET T, s # {}
      PROVE  /\ Pick(s) \in s /\ s \ {Pick(s)} \in SUBSET T
             /\ g[s] = f[Pick(s)] + g[s \ {Pick(s)}]
  <2>1. Pick(s) \in s
    BY <1>2, PickIn
  <2>2. s \in SUBSET S /\ s \ {Pick(s)} \in SUBSET S /\ Pick(s) \in S
    BY <2>1
  <2>3. g[s \ {Pick(s)}] \in Int /\ f[Pick(s)] \in Int
    BY <2>2 DEF IsFold
  <2>4. g[s] = Adding(f, S)[Pick(s)][g[s \ {Pick(s)}]]
    BY <1>2, <2>2 DEF IsFold
  <2> QED
    BY <2>1, <2>2, <2>3, <2>4 DEF Adding
<1>3. g[{}] = 0
  BY Zenon DEF IsFold
<1>4. \E iter : iter = Body(iter)
  <2>1. ASSUME NEW s \in SUBSET T PROVE h[s] = Body(h)[s]
    <3>1. CASE s = {}
      BY <3>1, <1>3
    <3>2. CASE s # {}
      BY <3>2, <1>2, Zenon DEF Pick
    <3> QED
      BY <3>1, <3>2
  <2>2. h = Body(h)
    BY <2>1, Zenon
  <2> HIDE DEF h, Body
  <2> QED
    BY <2>2
<1>5. sums = Body(sums)
  <2> HIDE DEF Body
  <2> QED
    BY <1>4
<1> HIDE DEF sums
<1>6. \A s \in SUBSET T : sums[s] = IF s = {} THEN 0 ELSE f[Pick(s)] + sums[s \ {Pick(s)}]
  BY <1>5 DEF Pick
<1> DEFINE Bad == {s \in SUBSET T : sums[s] # g[s]}
<1>7. ASSUME Bad # {} PROVE FALSE
  <2>1. PICK s \in Bad : \A y \in Bad : y \subseteq s => y = s
    <3>1. Bad \subseteq SUBSET T /\ IsFiniteSet(T)
      BY FS_Subset
    <3> HIDE DEF Bad
    <3> QED
      BY <1>7, <3>1, SmallestSubset
  <2>2. s # {}
    BY <1>3, <1>6, Zenon
  <2>3. sums[s \ {Pick(s)}] = g[s \ {Pick(s)}]
    BY <2>1, <2>2, <1>2
  <2> QED
    BY <2>1, <2>2, <2>3, <1>2, <1>6
<1> QED
  BY <1>1, <1>7

(* The sums over the subsets of a finite set are integers, and removing    *)
(* the picked element takes its value away.                                *)
LEMMA SumOfPicked ==
  ASSUME NEW S, IsFiniteSet(S), NEW f, \A x \in S : f[x] \in Int
  PROVE  /\ SumFunctionOnSet(f, S) \in Int
         /\ S # {} => /\ Pick(S) \in S
                     /\ SumFunctionOnSet(f, S)
                          = f[Pick(S)] + SumFunctionOnSet(f, S \ {Pick(S)})
<1>1. Adding(f, S) \in [S -> [Int -> Int]]
  BY DEF Adding
<1>2. PICK g : IsFold(g, Adding(f, S), S)
  BY <1>1, FoldExists
<1>3. SumFunctionOnSet(f, S) = g[S]
      /\ SumFunctionOnSet(f, S \ {Pick(S)}) = g[S \ {Pick(S)}]
  BY <1>2, SumIsFold
<1>4. g[S] \in Int /\ g[S \ {Pick(S)}] \in Int
  BY <1>2 DEF IsFold
<1>5. ASSUME S # {}
      PROVE  Pick(S) \in S /\ g[S] = f[Pick(S)] + g[S \ {Pick(S)}]
  <2>1. Pick(S) \in S
    BY <1>5, PickIn
  <2>2. g[S] = Adding(f, S)[Pick(S)][g[S \ {Pick(S)}]]
    BY <1>2, <1>5 DEF IsFold
  <2> QED
    BY <1>4, <2>1, <2>2 DEF Adding
<1> QED
  BY <1>3, <1>4, <1>5

(* Nothing adds up to 0.                                                   *)
LEMMA SumEmpty ==
  ASSUME NEW f
  PROVE  SumFunctionOnSet(f, {}) = 0
<1>1. Adding(f, {}) \in [{} -> [Int -> Int]] /\ IsFiniteSet({})
  BY FS_EmptySet DEF Adding
<1>2. PICK g : IsFold(g, Adding(f, {}), {})
  BY <1>1, FoldExists
<1>3. SumFunctionOnSet(f, {}) = g[{}]
  BY <1>1, <1>2, SumIsFold
<1> QED
  BY <1>2, <1>3, Zenon DEF IsFold

(* A sum of integers is an integer.                                        *)
LEMMA SumInt ==
  ASSUME NEW S, IsFiniteSet(S), NEW f, \A x \in S : f[x] \in Int
  PROVE  SumFunctionOnSet(f, S) \in Int
BY SumOfPicked, Zenon

(* Removing any element takes its value away: the order of summation does  *)
(* not matter.                                                             *)
LEMMA SumRemove ==
  ASSUME NEW S, IsFiniteSet(S), NEW f, \A x \in S : f[x] \in Int, NEW e \in S
  PROVE  SumFunctionOnSet(f, S) = f[e] + SumFunctionOnSet(f, S \ {e})
<1> DEFINE Sum(s) == SumFunctionOnSet(f, s)
           Bad == {s \in SUBSET S : \E x \in s : Sum(s) # f[x] + Sum(s \ {x})}
<1> SUFFICES ASSUME Bad # {} PROVE FALSE
  OBVIOUS
<1>1. PICK s \in Bad : \A y \in Bad : y \subseteq s => y = s
  <2>1. Bad \subseteq SUBSET S
    OBVIOUS
  <2> HIDE DEF Bad
  <2> QED
    BY <2>1, SmallestSubset
<1>2. PICK x \in s : Sum(s) # f[x] + Sum(s \ {x})
  BY <1>1
<1>3. ASSUME NEW t \in SUBSET S
      PROVE  /\ Sum(t) \in Int
             /\ t # {} => Pick(t) \in t /\ Sum(t) = f[Pick(t)] + Sum(t \ {Pick(t)})
  <2>1. IsFiniteSet(t) /\ \A y \in t : f[y] \in Int
    BY FS_Subset
  <2> QED
    BY <2>1, SumOfPicked, Zenon
<1> DEFINE p == Pick(s)
<1>4. p \in s /\ Sum(s) = f[p] + Sum(s \ {p})
  BY <1>1, <1>2, <1>3
<1> HIDE DEF p
<1>5. x # p
  BY <1>2, <1>4, Zenon
<1>6. Sum(s \ {p}) = f[x] + Sum((s \ {p}) \ {x})
  <2>1. s \ {p} \in SUBSET S /\ s \ {p} \subseteq s /\ s \ {p} # s /\ x \in s \ {p}
    BY <1>1, <1>2, <1>4, <1>5
  <2> QED
    BY <1>1, <2>1, Zenon
<1>7. Sum(s \ {x}) = f[p] + Sum((s \ {x}) \ {p})
  <2>1. s \ {x} \in SUBSET S /\ s \ {x} \subseteq s /\ s \ {x} # s /\ p \in s \ {x}
    BY <1>1, <1>2, <1>4, <1>5
  <2> QED
    BY <1>1, <2>1, Zenon
<1>8. (s \ {p}) \ {x} = (s \ {x}) \ {p}
  OBVIOUS
<1>9. f[x] \in Int /\ f[p] \in Int /\ Sum((s \ {x}) \ {p}) \in Int
  <2>1. (s \ {x}) \ {p} \in SUBSET S /\ x \in S /\ p \in S
    BY <1>1, <1>2, <1>4
  <2> QED
    BY <1>3, <2>1, Zenon
<1> DEFINE rest == Sum((s \ {x}) \ {p})
<1>10. Sum(s) = f[p] + (f[x] + rest) /\ Sum(s \ {x}) = f[p] + rest
  BY <1>4, <1>6, <1>7, <1>8, Zenon
<1>11. rest \in Int
  BY <1>9
<1> HIDE DEF rest
<1>12. f[p] + (f[x] + rest) = f[x] + (f[p] + rest)
  BY <1>9, <1>11
<1> QED
  BY <1>2, <1>10, <1>12

(* Functions that agree on a set have the same sum over it.                *)
LEMMA SumAgree ==
  ASSUME NEW S, IsFiniteSet(S), NEW f, NEW g,
         \A x \in S : f[x] \in Int /\ g[x] = f[x]
  PROVE  SumFunctionOnSet(g, S) = SumFunctionOnSet(f, S)
<1>1. \A x \in S : g[x] \in Int
  OBVIOUS
<1>2. Adding(g, S) = Adding(f, S)
  BY DEF Adding
<1>3. Adding(f, S) \in [S -> [Int -> Int]]
  BY DEF Adding
<1>4. PICK h : IsFold(h, Adding(f, S), S)
  BY <1>3, FoldExists
<1> QED
  BY <1>1, <1>2, <1>4, SumIsFold

(* Where no value is larger, the sum is not either.                        *)
LEMMA SumMonotone ==
  ASSUME NEW S, IsFiniteSet(S), NEW f, NEW g,
         \A x \in S : f[x] \in Int /\ g[x] \in Int /\ f[x] <= g[x]
  PROVE  SumFunctionOnSet(f, S) <= SumFunctionOnSet(g, S)
<1> DEFINE F(s) == SumFunctionOnSet(f, s)
           G(s) == SumFunctionOnSet(g, s)
           Bad == {s \in SUBSET S : ~(F(s) <= G(s))}
<1> SUFFICES ASSUME Bad # {} PROVE FALSE
  OBVIOUS
<1>1. PICK s \in Bad : \A y \in Bad : y \subseteq s => y = s
  <2>1. Bad \subseteq SUBSET S
    OBVIOUS
  <2> HIDE DEF Bad
  <2> QED
    BY <2>1, SmallestSubset
<1>2. PICK x \in s : TRUE
  <2>1. s # {}
    BY SumEmpty
  <2> QED
    BY <2>1
<1>3. IsFiniteSet(s) /\ IsFiniteSet(s \ {x}) /\ s \ {x} \in SUBSET S /\ x \in S
  BY FS_Subset
<1>4. F(s) = f[x] + F(s \ {x}) /\ G(s) = g[x] + G(s \ {x})
  BY <1>3, SumRemove
<1>5. F(s \ {x}) \in Int /\ G(s \ {x}) \in Int
  BY <1>3, SumInt
<1>6. F(s \ {x}) <= G(s \ {x})
  BY <1>1, <1>2, <1>3
<1>7. ~(F(s) <= G(s))
  BY <1>1
<1> DEFINE a == F(s \ {x})
           b == G(s \ {x})
<1>8. ~(f[x] + a <= g[x] + b) /\ a <= b /\ a \in Int /\ b \in Int
  BY <1>4, <1>5, <1>6, <1>7
<1> HIDE DEF a, b
<1> QED
  BY <1>3, <1>8

(* A sum of naturals is a natural.                                         *)
LEMMA SumNat ==
  ASSUME NEW S, IsFiniteSet(S), NEW f, \A x \in S : f[x] \in Nat
  PROVE  SumFunctionOnSet(f, S) \in Nat
<1> DEFINE Sum(s) == SumFunctionOnSet(f, s)
           Bad == {s \in SUBSET S : Sum(s) \notin Nat}
<1> SUFFICES ASSUME Bad # {} PROVE FALSE
  OBVIOUS
<1>1. PICK s \in Bad : \A y \in Bad : y \subseteq s => y = s
  <2>1. Bad \subseteq SUBSET S
    OBVIOUS
  <2> HIDE DEF Bad
  <2> QED
    BY <2>1, SmallestSubset
<1>2. PICK x \in s : TRUE
  <2>1. s # {}
    BY SumEmpty
  <2> QED
    BY <2>1
<1>3. IsFiniteSet(s) /\ s \ {x} \in SUBSET S /\ x \in S
  BY FS_Subset
<1>4. Sum(s) = f[x] + Sum(s \ {x})
  BY <1>3, SumRemove
<1>5. Sum(s \ {x}) \in Nat
  BY <1>1, <1>2, <1>3
<1> QED
  BY <1>1, <1>3, <1>4, <1>5

(* The sum over one element is its value.                                  *)
LEMMA SumSingleton ==
  ASSUME NEW e, NEW f, f[e] \in Int
  PROVE  SumFunctionOnSet(f, {e}) = f[e]
<1>1. IsFiniteSet({e}) /\ {e} \ {e} = {}
  BY FS_Singleton, Zenon
<1>2. SumFunctionOnSet(f, {e}) = f[e] + SumFunctionOnSet(f, {e} \ {e})
  BY <1>1, SumRemove
<1>3. SumFunctionOnSet(f, {e} \ {e}) = 0
  BY <1>1, SumEmpty
<1> QED
  BY <1>2, <1>3

(* Changing one value changes the sum by the difference.                   *)
LEMMA SumUpdate ==
  ASSUME NEW S, IsFiniteSet(S), NEW f, NEW g, \A x \in S : f[x] \in Int /\ g[x] \in Int,
         NEW e \in S, \A x \in S \ {e} : g[x] = f[x]
  PROVE  SumFunctionOnSet(g, S) = SumFunctionOnSet(f, S) + (g[e] - f[e])
<1>1. IsFiniteSet(S \ {e})
  BY FS_RemoveElement
<1>2. SumFunctionOnSet(g, S \ {e}) = SumFunctionOnSet(f, S \ {e})
  BY <1>1, SumAgree
<1>3. SumFunctionOnSet(f, S \ {e}) \in Int
  BY <1>1, SumInt
<1>4. SumFunctionOnSet(g, S) = g[e] + SumFunctionOnSet(g, S \ {e})
  BY SumRemove
<1>5. SumFunctionOnSet(f, S) = f[e] + SumFunctionOnSet(f, S \ {e})
  BY SumRemove
<1> QED
  BY <1>2, <1>3, <1>4, <1>5

(* The sum over two disjoint sets is the sum of the sums.                  *)
LEMMA SumUnion ==
  ASSUME NEW A, IsFiniteSet(A), NEW B, IsFiniteSet(B), A \cap B = {},
         NEW f, \A x \in A \cup B : f[x] \in Int
  PROVE  SumFunctionOnSet(f, A \cup B) = SumFunctionOnSet(f, A) + SumFunctionOnSet(f, B)
<1> DEFINE Sum(s) == SumFunctionOnSet(f, s)
           Bad == {s \in SUBSET B : Sum(A \cup s) # Sum(A) + Sum(s)}
<1> SUFFICES ASSUME Bad # {} PROVE FALSE
  OBVIOUS
<1>1. PICK s \in Bad : \A y \in Bad : y \subseteq s => y = s
  <2>1. Bad \subseteq SUBSET B
    OBVIOUS
  <2> HIDE DEF Bad
  <2> QED
    BY <2>1, SmallestSubset
<1>2. Sum(A) \in Int
  BY SumInt
<1>3. PICK x \in s : TRUE
  <2>1. A \cup {} = A
    OBVIOUS
  <2>2. Sum(A) + 0 = Sum(A)
    BY <1>2
  <2>3. s # {}
    BY <2>1, <2>2, SumEmpty, Zenon
  <2> QED
    BY <2>3
<1> DEFINE t == s \ {x}
<1>4. IsFiniteSet(s) /\ IsFiniteSet(t) /\ IsFiniteSet(A \cup s)
      /\ t \in SUBSET B /\ x \in B
  BY FS_Subset, FS_Union, Zenon
<1>5. Sum(s) = f[x] + Sum(t)
  BY <1>4, SumRemove
<1>6. Sum(A \cup s) = f[x] + Sum(A \cup t)
  <2>1. (A \cup s) \ {x} = A \cup t /\ x \in A \cup s
    BY <1>4
  <2>2. \A y \in A \cup s : f[y] \in Int
    OBVIOUS
  <2> QED
    BY <1>4, <2>1, <2>2, SumRemove
<1>7. Sum(A \cup t) = Sum(A) + Sum(t)
  BY <1>1, <1>3, <1>4
<1>8. Sum(t) \in Int /\ f[x] \in Int
  BY <1>4, SumInt
<1>9. Sum(A \cup s) # Sum(A) + Sum(s)
  BY <1>1
<1> DEFINE a == Sum(A)
           b == Sum(t)
<1>10. f[x] + (a + b) # a + (f[x] + b) /\ a \in Int /\ b \in Int
  BY <1>2, <1>5, <1>6, <1>7, <1>8, <1>9
<1> HIDE DEF a, b
<1> QED
  BY <1>8, <1>10

(* Naturals over a smaller set do not add up to more.                      *)
LEMMA SumSubset ==
  ASSUME NEW S, IsFiniteSet(S), NEW T \in SUBSET S, NEW f, \A x \in S : f[x] \in Nat
  PROVE  SumFunctionOnSet(f, T) <= SumFunctionOnSet(f, S)
<1>1. IsFiniteSet(T) /\ IsFiniteSet(S \ T) /\ T \cap (S \ T) = {} /\ T \cup (S \ T) = S
  BY FS_Subset
<1>2. SumFunctionOnSet(f, S) = SumFunctionOnSet(f, T) + SumFunctionOnSet(f, S \ T)
  BY <1>1, SumUnion
<1>3. SumFunctionOnSet(f, T) \in Nat /\ SumFunctionOnSet(f, S \ T) \in Nat
  BY <1>1, SumNat
<1> QED
  BY <1>2, <1>3

(* A common factor can be taken out of a sum.                              *)
LEMMA SumScale ==
  ASSUME NEW S, IsFiniteSet(S), NEW f, \A x \in S : f[x] \in Int, NEW c \in Int,
         NEW g, \A x \in S : g[x] = c * f[x]
  PROVE  SumFunctionOnSet(g, S) = c * SumFunctionOnSet(f, S)
<1> DEFINE F(s) == SumFunctionOnSet(f, s)
           G(s) == SumFunctionOnSet(g, s)
           Bad == {s \in SUBSET S : G(s) # c * F(s)}
<1> SUFFICES ASSUME Bad # {} PROVE FALSE
  OBVIOUS
<1>1. PICK s \in Bad : \A y \in Bad : y \subseteq s => y = s
  <2>1. Bad \subseteq SUBSET S
    OBVIOUS
  <2> HIDE DEF Bad
  <2> QED
    BY <2>1, SmallestSubset
<1>2. PICK x \in s : TRUE
  <2>1. c * 0 = 0
    OBVIOUS
  <2>2. s # {}
    BY <2>1, SumEmpty
  <2> QED
    BY <2>2
<1>3. IsFiniteSet(s) /\ IsFiniteSet(s \ {x}) /\ s \ {x} \in SUBSET S /\ x \in S
  BY FS_Subset
<1>4. \A y \in s : g[y] \in Int
  OBVIOUS
<1>5. F(s) = f[x] + F(s \ {x}) /\ G(s) = g[x] + G(s \ {x})
  BY <1>3, <1>4, SumRemove
<1>6. F(s \ {x}) \in Int
  BY <1>3, SumInt
<1>7. G(s \ {x}) = c * F(s \ {x})
  BY <1>1, <1>2, <1>3
<1>8. G(s) # c * F(s)
  BY <1>1
<1> DEFINE a == F(s \ {x})
<1>9. c * f[x] + c * a # c * (f[x] + a) /\ a \in Int
  BY <1>3, <1>5, <1>6, <1>7, <1>8
<1> HIDE DEF a
<1> QED
  BY <1>3, <1>9

(* A sum over the values of a one-to-one function is a sum over its        *)
(* arguments.                                                              *)
LEMMA SumReindex ==
  ASSUME NEW I, IsFiniteSet(I), NEW e, \A i, k \in I : e[i] = e[k] => i = k,
         NEW h, \A i \in I : h[e[i]] \in Int,
         NEW g, \A i \in I : g[i] = h[e[i]]
  PROVE  /\ IsFiniteSet({e[i] : i \in I})
         /\ SumFunctionOnSet(h, {e[i] : i \in I}) = SumFunctionOnSet(g, I)
<1> DEFINE Image(s) == {e[i] : i \in s}
           H(s) == SumFunctionOnSet(h, Image(s))
           G(s) == SumFunctionOnSet(g, s)
           Bad == {s \in SUBSET I : H(s) # G(s)}
<1>0. ASSUME NEW s \in SUBSET I PROVE IsFiniteSet(Image(s))
  <2> DEFINE b == [i \in s |-> e[i]]
  <2>1. b \in Surjection(s, Image(s)) /\ IsFiniteSet(s)
    BY FS_Subset DEF Surjection
  <2> QED
    BY <2>1, FS_Surjection
<1> SUFFICES ASSUME Bad # {} PROVE FALSE
  BY <1>0
<1>1. PICK s \in Bad : \A y \in Bad : y \subseteq s => y = s
  <2>1. Bad \subseteq SUBSET I
    OBVIOUS
  <2> HIDE DEF Bad
  <2> QED
    BY <2>1, SmallestSubset
<1>2. PICK x \in s : TRUE
  <2>1. Image({}) = {}
    OBVIOUS
  <2>2. H({}) = G({})
    BY <2>1, SumEmpty
  <2>3. s # {}
    BY <2>2
  <2> QED
    BY <2>3
<1>3. IsFiniteSet(s) /\ IsFiniteSet(Image(s)) /\ s \ {x} \in SUBSET I /\ x \in I
  BY FS_Subset, <1>0
<1>4. G(s) = g[x] + G(s \ {x})
  BY <1>3, SumRemove
<1>5. H(s) = h[e[x]] + H(s \ {x})
  <2>1. e[x] \in Image(s) /\ Image(s) \ {e[x]} = Image(s \ {x})
    OBVIOUS
  <2>2. \A y \in Image(s) : h[y] \in Int
    OBVIOUS
  <2> DEFINE whole == Image(s)
  <2>3. SumFunctionOnSet(h, whole) = h[e[x]] + SumFunctionOnSet(h, whole \ {e[x]})
    <3>1. IsFiniteSet(whole) /\ e[x] \in whole /\ \A y \in whole : h[y] \in Int
      BY <1>3, <2>1, <2>2
    <3> HIDE DEF whole
    <3> QED
      BY <3>1, SumRemove
  <2> QED
    BY <2>1, <2>3, Zenon
<1>6. H(s \ {x}) = G(s \ {x})
  BY <1>1, <1>2, <1>3
<1>7. H(s) # G(s)
  BY <1>1
<1> HIDE DEF H, G
<1> QED
  BY <1>3, <1>4, <1>5, <1>6, <1>7

(* The same, with a name for the set of values of e.                       *)
LEMMA SumOverImage ==
  ASSUME NEW I, IsFiniteSet(I), NEW e, \A i, k \in I : e[i] = e[k] => i = k,
         NEW T, T = {e[i] : i \in I}, NEW h, \A x \in T : h[x] \in Int,
         NEW g, \A i \in I : g[i] = h[e[i]]
  PROVE  IsFiniteSet(T) /\ SumFunctionOnSet(h, T) = SumFunctionOnSet(g, I)
BY SumReindex

(* Summing group by group gives the sum over everything that is in one of  *)
(* the groups.                                                             *)
LEMMA SumGroups ==
  ASSUME NEW A, IsFiniteSet(A), NEW f, \A a \in A : f[a] \in Int, NEW d,
         NEW V, IsFiniteSet(V), NEW group,
         \A v \in V : group[v] \subseteq A /\ \A a \in A : a \in group[v] <=> d[a] = v,
         NEW g, \A v \in V : g[v] = SumFunctionOnSet(f, group[v]),
         NEW U, U \subseteq A, \A a \in A : a \in U <=> d[a] \in V
  PROVE  SumFunctionOnSet(g, V) = SumFunctionOnSet(f, U)
<1> DEFINE Of(s) == {a \in A : d[a] \in s}
           F(s) == SumFunctionOnSet(f, Of(s))
           G(s) == SumFunctionOnSet(g, s)
           Bad == {s \in SUBSET V : G(s) # F(s)}
<1> SUFFICES ASSUME Bad # {} PROVE FALSE
  <2>1. Of(V) = U
    OBVIOUS
  <2> QED
    BY <2>1
<1>0. ASSUME NEW s PROVE Of(s) \in SUBSET A /\ IsFiniteSet(Of(s)) /\ F(s) \in Int
  <2>1. Of(s) \in SUBSET A
    OBVIOUS
  <2>2. IsFiniteSet(Of(s))
    BY <2>1, FS_Subset
  <2> QED
    BY <2>1, <2>2, SumInt
<1>1. PICK s \in Bad : \A y \in Bad : y \subseteq s => y = s
  <2>1. Bad \subseteq SUBSET V
    OBVIOUS
  <2> HIDE DEF Bad
  <2> QED
    BY <2>1, SmallestSubset
<1>2. PICK x \in s : TRUE
  <2>1. Of({}) = {}
    OBVIOUS
  <2>2. F({}) = G({})
    BY <2>1, SumEmpty, Zenon
  <2>3. s # {}
    BY <2>2
  <2> QED
    BY <2>3
<1>3. ASSUME NEW v \in V PROVE g[v] = F({v}) /\ g[v] \in Int
  <2>1. Of({v}) = group[v]
    OBVIOUS
  <2>2. g[v] = F({v})
    BY <2>1, Zenon
  <2>3. F({v}) \in Int
    <3> HIDE DEF F, Of
    <3> QED
      BY <1>0
  <2> QED
    BY <2>2, <2>3, Zenon
<1>4. IsFiniteSet(s) /\ s \ {x} \in SUBSET V /\ x \in V
  BY FS_Subset
<1>5. G(s) = g[x] + G(s \ {x})
  <2>1. \A v \in s : g[v] \in Int
    BY <1>3, <1>4
  <2> HIDE DEF F, Of
  <2> QED
    BY <2>1, <1>4, SumRemove
<1>6. F(s) = F({x}) + F(s \ {x})
  <2>1. Of(s) = Of({x}) \cup Of(s \ {x}) /\ Of({x}) \cap Of(s \ {x}) = {}
    OBVIOUS
  <2>2. \A y \in Of({x}) \cup Of(s \ {x}) : f[y] \in Int
    OBVIOUS
  <2>3. IsFiniteSet(Of({x})) /\ IsFiniteSet(Of(s \ {x}))
    BY <1>0, Zenon
  <2>4. SumFunctionOnSet(f, Of({x}) \cup Of(s \ {x})) = F({x}) + F(s \ {x})
    <3> DEFINE p == Of({x})
               q == Of(s \ {x})
    <3>1. p \cap q = {} /\ IsFiniteSet(p) /\ IsFiniteSet(q) /\ \A y \in p \cup q : f[y] \in Int
      BY <2>1, <2>2, <2>3, Zenon
    <3>2. SumFunctionOnSet(f, p \cup q) = SumFunctionOnSet(f, p) + SumFunctionOnSet(f, q)
      <4> HIDE DEF p, q
      <4> QED
        BY <3>1, SumUnion
    <3> QED
      BY <3>2, Zenon
  <2> QED
    BY <2>1, <2>4, Zenon
<1>7. G(s \ {x}) = F(s \ {x})
  BY <1>1, <1>2, <1>4
<1>8. G(s) # F(s)
  BY <1>1
<1> HIDE DEF F, G
<1> QED
  BY <1>3, <1>4, <1>5, <1>6, <1>7, <1>8

-----------------------------------------------------------------------------
(* A bounded nonempty set of naturals has a largest element.               *)
LEMMA LargestExists ==
  ASSUME NEW T \in SUBSET Nat, T # {}, NEW b \in Nat, \A x \in T : x <= b
  PROVE  \E m \in T : \A x \in T : m >= x
<1> DEFINE Bounds == {k \in Nat : \A x \in T : x <= k}
           R == OpToRel(<, Nat)
<1>1. Bounds \subseteq Nat /\ Bounds # {}
  OBVIOUS
<1>2. PICK m \in Bounds : \A y \in Bounds : ~(<<y, m>> \in R)
  <2>1. IsWellFoundedOn(R, Nat)
    BY NatLessThanWellFounded
  <2> HIDE DEF Bounds, R
  <2> QED
    BY <1>1, <2>1, WFMin, Zenon
<1>3. m \in T
  <2> SUFFICES ASSUME m \notin T PROVE FALSE
    OBVIOUS
  <2>1. m > 0 /\ m - 1 \in Bounds
    <3>1. m \in Nat /\ \A x \in T : x \in Nat /\ x <= m /\ x # m
      OBVIOUS
    <3>2. PICK x \in T : TRUE
      OBVIOUS
    <3>3. m > 0
      BY <3>1, <3>2
    <3>4. \A y \in T : y <= m - 1
      BY <3>1
    <3> QED
      BY <3>1, <3>3, <3>4
  <2>2. <<m - 1, m>> \in R
    BY <2>1 DEF OpToRel
  <2> QED
    BY <1>2, <2>1, <2>2
<1> QED
  BY <1>3
=============================================================================
