---------------------------- MODULE CommonLemmas ----------------------------
(* Facts the proofs of several modules use: least elements, which stand in *)
(* for induction, sums over finite sets, and sequences as functions.         *)
EXTENDS Integers, Sequences, Functions, FiniteSetTheorems, WellFoundedInduction, TLAPS

\* A set of natural numbers has a least one.
LEMMA LeastNatural ==
    ASSUME NEW T, T \subseteq Nat, T # {}
    PROVE  \E x \in T : \A y \in T : x <= y
  <1> DEFINE R == {ss \in Nat \X Nat : ss[1] < ss[2]}
  <1>1. IsWellFoundedOn(R, Nat)
    BY NatLessThanWellFounded DEF OpToRel
  <1>2. PICK x \in T : \A y \in T : ~(<<y, x>> \in R)
    <2> HIDE DEF R
    <2> QED
      BY <1>1, WFMin
  <1>3. \A y \in T : ~(y < x)
    BY <1>2
  <1> QED
    BY <1>3

\* A set of natural numbers with an upper bound has a greatest one.
LEMMA GreatestNatural ==
    ASSUME NEW M, NEW b \in Nat, M \subseteq 0 .. b, M # {}
    PROVE  \E m \in M : \A n \in M : n <= m
  <1> DEFINE T == {b - m : m \in M}
  <1>1. T \subseteq Nat
    <2>1. \A m \in M : m \in 0 .. b
      OBVIOUS
    <2> QED
      BY <2>1
  <1>2. T # {}
    OBVIOUS
  <1>3. PICK x \in T : \A y \in T : x <= y
    <2> HIDE DEF T
    <2> QED
      BY <1>1, <1>2, LeastNatural
  <1>4. PICK m \in M : x = b - m
    BY <1>3
  <1>5. ASSUME NEW n \in M PROVE n <= m
    <2>1. b - n \in T
      OBVIOUS
    <2>2. m \in Int /\ n \in Int
      OBVIOUS
    <2>3. b - m <= b - n
      BY <1>3, <1>4, <2>1
    <2> QED
      BY <2>2, <2>3
  <1> QED
    BY <1>5

\* A set of subsets of a finite set has a minimal one.
LEMMA MinimalSubset ==
    ASSUME NEW S, IsFiniteSet(S), NEW X, X \subseteq SUBSET S, X # {}
    PROVE  \E T \in X : IsFiniteSet(T) /\ \A U \in X : U \subseteq T => U = T
  <1> DEFINE R == StrictSubsetOrdering(S)
  <1>1. IsWellFoundedOn(R, SUBSET S)
    BY FS_StrictSubsetOrderingWellFounded, FS_FiniteSubsetsOfFinite
  <1>2. PICK T \in X : \A U \in X : ~(<<U, T>> \in R)
    <2> HIDE DEF R
    <2> QED
      BY <1>1, WFMin
  <1>3. IsFiniteSet(T)
    BY FS_Subset
  <1>4. \A U \in X : U \subseteq T => U = T
    BY <1>2 DEF StrictSubsetOrdering
  <1> QED
    BY <1>3, <1>4

-----------------------------------------------------------------------------
(* SumFunctionOnSet.                                                       *)

\* The element the fold takes next, and what is left.
Chosen(S) == CHOOSE x \in S : TRUE
Remaining(S) == S \ {Chosen(S)}

\* g holds the sum of f on each subset of S.
SumsUp(f, S, g) ==
    g = [s \in SUBSET S |-> IF s = {} THEN 0 ELSE f[Chosen(s)] + g[Remaining(s)]]

\* The definition of the sum, unfolded.
LEMMA SumUnfolded ==
    ASSUME NEW f, NEW S
    PROVE  SumFunctionOnSet(f, S) = (CHOOSE g : SumsUp(f, S, g))[S]
  BY DEF SumsUp, Chosen, Remaining, SumFunctionOnSet, FoldFunctionOnSet, MapThenFoldSet

\* What is left is smaller.
LEMMA RemainingIsSmaller ==
    ASSUME NEW S, S # {}
    PROVE  Chosen(S) \in S /\ Remaining(S) \subseteq S /\ Remaining(S) # S
  BY DEF Chosen, Remaining

\* What such functions say of one set agrees.
LEMMA SumsAgree ==
    ASSUME NEW f, NEW S, NEW T, NEW g, NEW h, IsFiniteSet(S),
           SumsUp(f, S, g), SumsUp(f, T, h), NEW U, U \subseteq S, U \subseteq T
    PROVE  g[U] = h[U]
  <1> DEFINE X == {V \in SUBSET S : V \subseteq T /\ g[V] # h[V]}
  <1> SUFFICES ASSUME X # {} PROVE FALSE
    OBVIOUS
  <1>1. PICK V \in X : \A W \in X : W \subseteq V => W = V
    <2>1. X \subseteq SUBSET S
      OBVIOUS
    <2> HIDE DEF X
    <2> QED
      BY <2>1, MinimalSubset
  <1>2. V \in SUBSET S /\ V \in SUBSET T
    OBVIOUS
  <1>3. /\ g[V] = IF V = {} THEN 0 ELSE f[Chosen(V)] + g[Remaining(V)]
        /\ h[V] = IF V = {} THEN 0 ELSE f[Chosen(V)] + h[Remaining(V)]
    BY <1>2 DEF SumsUp
  <1>4. V # {} /\ g[Remaining(V)] # h[Remaining(V)]
    BY <1>3
  <1>5. Remaining(V) \in X
    BY <1>4, <1>2, RemainingIsSmaller
  <1> QED
    BY <1>1, <1>4, <1>5, RemainingIsSmaller

\* Every finite set has such a function.
LEMMA SumsExist ==
    ASSUME NEW f, NEW S, IsFiniteSet(S)
    PROVE  \E g : SumsUp(f, S, g)
  <1> DEFINE X == {T \in SUBSET S : ~\E g : SumsUp(f, T, g)}
  <1> SUFFICES ASSUME X # {} PROVE FALSE
    OBVIOUS
  <1>1. PICK T \in X : IsFiniteSet(T) /\ \A U \in X : U \subseteq T => U = T
    <2>1. X \subseteq SUBSET S
      OBVIOUS
    <2> HIDE DEF X
    <2> QED
      BY <2>1, MinimalSubset
  <1> DEFINE G(U) == CHOOSE g : SumsUp(f, U, g)
             k == [s \in SUBSET T |-> IF s = {} THEN 0 ELSE f[Chosen(s)] + G(Remaining(s))[Remaining(s)]]
  <1>2. ASSUME NEW U, U \subseteq T, U # T
        PROVE  SumsUp(f, U, G(U))
    <2>1. U \in SUBSET S /\ U \notin X
      BY <1>1, <1>2
    <2> QED
      BY <2>1
  <1>3. ASSUME NEW u, u \subseteq T, u # T
        PROVE  k[u] = G(u)[u]
    <2>1. SumsUp(f, u, G(u)) /\ u \in SUBSET T
      BY <1>2, <1>3
    <2> HIDE DEF G
    <2>2. G(u)[u] = IF u = {} THEN 0 ELSE f[Chosen(u)] + G(u)[Remaining(u)]
      BY <2>1 DEF SumsUp
    <2>3. k[u] = IF u = {} THEN 0 ELSE f[Chosen(u)] + G(Remaining(u))[Remaining(u)]
      BY <2>1
    <2>4. ASSUME u # {} PROVE G(u)[Remaining(u)] = G(Remaining(u))[Remaining(u)]
      <3>1. Remaining(u) \subseteq u /\ Remaining(u) \subseteq T /\ Remaining(u) # T /\ IsFiniteSet(u)
        BY <1>1, <1>3, <2>4, RemainingIsSmaller, FS_Subset
      <3>2. SumsUp(f, Remaining(u), G(Remaining(u)))
        BY <3>1, <1>2
      <3> QED
        BY <2>1, <3>1, <3>2, SumsAgree
    <2> QED
      BY <2>2, <2>3, <2>4
  <1>4. ASSUME NEW s \in SUBSET T, s # {}
        PROVE  Remaining(s) \subseteq T /\ Remaining(s) # T
    BY <1>4, RemainingIsSmaller
  <1>5. \A s \in SUBSET T : s # {} => G(Remaining(s))[Remaining(s)] = k[Remaining(s)]
    BY <1>3, <1>4
  <1>6. SumsUp(f, T, k)
    <2> HIDE DEF G
    <2> QED
      BY <1>5 DEF SumsUp
  <1> QED
    BY <1>6, <1>1

\* The sum over a finite set, element by element.
LEMMA SumStep ==
    ASSUME NEW f, NEW S, IsFiniteSet(S)
    PROVE  SumFunctionOnSet(f, S) =
               IF S = {} THEN 0 ELSE f[Chosen(S)] + SumFunctionOnSet(f, Remaining(S))
  <1> DEFINE g == CHOOSE g : SumsUp(f, S, g)
             h == CHOOSE h : SumsUp(f, Remaining(S), h)
  <1>1. SumsUp(f, S, g) /\ SumFunctionOnSet(f, S) = g[S]
    BY SumsExist, SumUnfolded
  <1>2. SumsUp(f, Remaining(S), h) /\ SumFunctionOnSet(f, Remaining(S)) = h[Remaining(S)]
    BY SumsExist, SumUnfolded, FS_Subset DEF Remaining
  <1> HIDE DEF g, h
  <1>3. g[S] = IF S = {} THEN 0 ELSE f[Chosen(S)] + g[Remaining(S)]
    BY <1>1 DEF SumsUp
  <1>4. g[Remaining(S)] = h[Remaining(S)]
    BY <1>1, <1>2, SumsAgree DEF Remaining
  <1> QED
    BY <1>1, <1>2, <1>3, <1>4

\* A sum of integers is one.
LEMMA SumIsInteger ==
    ASSUME NEW f, NEW S, IsFiniteSet(S), \A x \in S : f[x] \in Int
    PROVE  SumFunctionOnSet(f, S) \in Int
  <1> DEFINE X == {T \in SUBSET S : SumFunctionOnSet(f, T) \notin Int}
  <1> SUFFICES ASSUME X # {} PROVE FALSE
    OBVIOUS
  <1>1. PICK T \in X : IsFiniteSet(T) /\ \A U \in X : U \subseteq T => U = T
    <2>1. X \subseteq SUBSET S
      OBVIOUS
    <2> HIDE DEF X
    <2> QED
      BY <2>1, MinimalSubset
  <1>2. T # {} /\ SumFunctionOnSet(f, T) = f[Chosen(T)] + SumFunctionOnSet(f, Remaining(T))
    BY <1>1, SumStep
  <1>3. Chosen(T) \in S /\ Remaining(T) \in SUBSET S /\ Remaining(T) \notin X
    BY <1>1, <1>2, RemainingIsSmaller
  <1> QED
    BY <1>2, <1>3

\* The element to add may be any.
LEMMA SumRemove ==
    ASSUME NEW f, NEW S, IsFiniteSet(S), \A x \in S : f[x] \in Int, NEW e \in S
    PROVE  SumFunctionOnSet(f, S) = f[e] + SumFunctionOnSet(f, S \ {e})
  <1> DEFINE Sum(T) == SumFunctionOnSet(f, T)
             X == {T \in SUBSET S : \E x \in T : Sum(T) # f[x] + Sum(T \ {x})}
  <1> SUFFICES ASSUME X # {} PROVE FALSE
    OBVIOUS
  <1>1. PICK T \in X : IsFiniteSet(T) /\ \A U \in X : U \subseteq T => U = T
    <2>1. X \subseteq SUBSET S
      OBVIOUS
    <2> HIDE DEF X
    <2> QED
      BY <2>1, MinimalSubset
  <1>2. PICK x \in T : Sum(T) # f[x] + Sum(T \ {x})
    OBVIOUS
  <1>3. T \in SUBSET S
    OBVIOUS
  <1> DEFINE y == Chosen(T)
  <1>4. y \in T /\ Sum(T) = f[y] + Sum(T \ {y})
    BY <1>1, <1>2, SumStep, RemainingIsSmaller DEF Remaining
  <1>5. x # y
    BY <1>2, <1>4
  <1>6. T \ {y} \notin X /\ T \ {x} \notin X
    BY <1>1, <1>2, <1>4
  <1> HIDE DEF y
  <1> DEFINE W == (T \ {y}) \ {x}
  <1>7. Sum(T \ {y}) = f[x] + Sum(W)
    BY <1>2, <1>3, <1>5, <1>6
  <1>8. Sum(T \ {x}) = f[y] + Sum(W)
    <2>1. W = (T \ {x}) \ {y}
      OBVIOUS
    <2>2. Sum(T \ {x}) = f[y] + Sum((T \ {x}) \ {y})
      BY <1>3, <1>4, <1>5, <1>6
    <2> QED
      BY <2>1, <2>2
  <1>9. Sum(W) \in Int /\ f[x] \in Int /\ f[y] \in Int
    <2>1. IsFiniteSet(W) /\ W \subseteq S
      BY <1>3, FS_Subset
    <2>2. \A z \in W : f[z] \in Int
      BY <2>1
    <2> HIDE DEF X, W
    <2>3. Sum(W) \in Int
      BY <2>1, <2>2, SumIsInteger
    <2> QED
      BY <2>3, <1>2, <1>3, <1>4
  <1> HIDE DEF W
  <1>10. f[x] + (f[y] + Sum(W)) = f[y] + (f[x] + Sum(W))
    BY <1>9
  <1> QED
    BY <1>2, <1>4, <1>7, <1>8, <1>10

\* The sum of two functions is the sum of their sums.
LEMMA SumAdd ==
    ASSUME NEW f, NEW g, NEW h, NEW S, IsFiniteSet(S),
           \A x \in S : f[x] \in Int /\ g[x] \in Int /\ h[x] = f[x] + g[x]
    PROVE  SumFunctionOnSet(h, S) = SumFunctionOnSet(f, S) + SumFunctionOnSet(g, S)
  <1> DEFINE Sum(F, T) == SumFunctionOnSet(F, T)
             X == {T \in SUBSET S : Sum(h, T) # Sum(f, T) + Sum(g, T)}
  <1> SUFFICES ASSUME X # {} PROVE FALSE
    OBVIOUS
  <1>1. PICK T \in X : IsFiniteSet(T) /\ \A U \in X : U \subseteq T => U = T
    <2>1. X \subseteq SUBSET S
      OBVIOUS
    <2> HIDE DEF X
    <2> QED
      BY <2>1, MinimalSubset
  <1>2. T \in SUBSET S /\ Sum(h, T) # Sum(f, T) + Sum(g, T)
    OBVIOUS
  <1>3. T # {}
    <2> SUFFICES ASSUME T = {} PROVE FALSE
      OBVIOUS
    <2>1. Sum(f, {}) = 0 /\ Sum(g, {}) = 0 /\ Sum(h, {}) = 0
      BY SumStep, FS_EmptySet
    <2> QED
      BY <1>2, <2>1
  <1> DEFINE R == Remaining(T)
             y == Chosen(T)
  <1>4. /\ Sum(f, T) = f[y] + Sum(f, R)
        /\ Sum(g, T) = g[y] + Sum(g, R)
        /\ Sum(h, T) = h[y] + Sum(h, R)
    BY <1>1, <1>3, SumStep
  <1>5. y \in T /\ R \subseteq T /\ R # T
    BY <1>3, RemainingIsSmaller
  <1> HIDE DEF R, y
  <1>6. Sum(h, R) = Sum(f, R) + Sum(g, R)
    BY <1>1, <1>2, <1>5
  <1>7. /\ f[y] \in Int /\ g[y] \in Int /\ h[y] = f[y] + g[y]
        /\ Sum(f, R) \in Int /\ Sum(g, R) \in Int
    BY <1>2, <1>5, SumIsInteger, FS_Subset
  <1> HIDE DEF Sum
  <1> QED
    BY <1>2, <1>4, <1>6, <1>7

\* Where a function is zero it adds nothing.
LEMMA SumRestrict ==
    ASSUME NEW f, NEW S, IsFiniteSet(S), \A x \in S : f[x] \in Int,
           NEW V, V \subseteq S, \A x \in S \ V : f[x] = 0
    PROVE  SumFunctionOnSet(f, S) = SumFunctionOnSet(f, V)
  <1> DEFINE Sum(T) == SumFunctionOnSet(f, T)
             X == {T \in SUBSET S : Sum(T) # Sum(T \cap V)}
  <1> SUFFICES ASSUME X # {} PROVE FALSE
    <2>1. S \cap V = V
      OBVIOUS
    <2> QED
      BY <2>1
  <1>1. PICK T \in X : IsFiniteSet(T) /\ \A U \in X : U \subseteq T => U = T
    <2>1. X \subseteq SUBSET S
      OBVIOUS
    <2> HIDE DEF X
    <2> QED
      BY <2>1, MinimalSubset
  <1>2. T \in SUBSET S /\ Sum(T) # Sum(T \cap V) /\ T # {}
    <2>1. {} \cap V = {}
      OBVIOUS
    <2> QED
      BY <1>1, <2>1
  <1> DEFINE y == Chosen(T)
             R == Remaining(T)
  <1>3. y \in T /\ R = T \ {y} /\ Sum(T) = f[y] + Sum(R) /\ Sum(R) = Sum(R \cap V)
    <2>1. R \in SUBSET S /\ R \notin X
      BY <1>1, <1>2, RemainingIsSmaller
    <2> QED
      BY <1>1, <1>2, <2>1, SumStep, RemainingIsSmaller DEF Remaining
  <1> HIDE DEF y, R
  <1>4. f[y] \in Int /\ Sum(R \cap V) \in Int
    <2>1. R \cap V \subseteq S
      OBVIOUS
    <2> QED
      BY <1>2, <1>3, <2>1, SumIsInteger, FS_Subset
  <1>5. CASE y \notin V
    <2>1. R \cap V = T \cap V /\ f[y] = 0
      BY <1>2, <1>3, <1>5
    <2>2. Sum(R \cap V) = Sum(T \cap V)
      BY <2>1
    <2>3. f[y] + Sum(R \cap V) = Sum(R \cap V)
      BY <1>4, <2>1
    <2>4. Sum(T) = Sum(T \cap V)
      BY <1>3, <2>2, <2>3
    <2> QED
      BY <1>2, <2>4
  <1>6. CASE y \in V
    <2>1. R \cap V = (T \cap V) \ {y} /\ y \in T \cap V /\ T \cap V \subseteq S
      BY <1>2, <1>3, <1>6
    <2>2. Sum(T \cap V) = f[y] + Sum((T \cap V) \ {y})
      <3>1. IsFiniteSet(T \cap V)
        BY <2>1, FS_Subset
      <3> QED
        BY <2>1, <3>1, SumRemove
    <2>3. Sum(R \cap V) = Sum((T \cap V) \ {y})
      BY <2>1
    <2> QED
      BY <1>2, <1>3, <2>2, <2>3
  <1> QED
    BY <1>5, <1>6

\* Functions that agree on a set have one sum over it.
LEMMA SumSame ==
    ASSUME NEW f, NEW g, NEW S, IsFiniteSet(S),
           \A x \in S : f[x] \in Int /\ g[x] = f[x]
    PROVE  SumFunctionOnSet(g, S) = SumFunctionOnSet(f, S)
  <1> DEFINE zero == [x \in S |-> 0]
  <1>1. SumFunctionOnSet(zero, S) = 0
    <2>1. SumFunctionOnSet(zero, S) = SumFunctionOnSet(zero, {})
      BY SumRestrict
    <2> QED
      BY <2>1, SumStep, FS_EmptySet
  <1>2. SumFunctionOnSet(g, S) = SumFunctionOnSet(f, S) + SumFunctionOnSet(zero, S)
    <2>1. \A x \in S : f[x] \in Int /\ zero[x] \in Int /\ g[x] = f[x] + zero[x]
      OBVIOUS
    <2> HIDE DEF zero
    <2> QED
      BY <2>1, SumAdd
  <1> HIDE DEF zero
  <1> QED
    BY <1>1, <1>2, SumIsInteger

\* Where all is zero the sum is.
LEMMA SumZero ==
    ASSUME NEW f, NEW S, IsFiniteSet(S), \A x \in S : f[x] = 0
    PROVE  SumFunctionOnSet(f, S) = 0
  <1>1. SumFunctionOnSet(f, S) = SumFunctionOnSet(f, {})
    BY SumRestrict
  <1> QED
    BY <1>1, SumStep, FS_EmptySet

\* The sum over two sets with nothing in common.
LEMMA SumUnion ==
    ASSUME NEW f, NEW S, NEW T, IsFiniteSet(S), IsFiniteSet(T), S \cap T = {},
           \A x \in S \cup T : f[x] \in Int
    PROVE  SumFunctionOnSet(f, S \cup T) = SumFunctionOnSet(f, S) + SumFunctionOnSet(f, T)
  <1> DEFINE U == S \cup T
             inS == [x \in U |-> IF x \in S THEN f[x] ELSE 0]
             inT == [x \in U |-> IF x \in T THEN f[x] ELSE 0]
  <1>1. IsFiniteSet(U)
    BY FS_Union
  <1>2. \A x \in U : inS[x] \in Int /\ inT[x] \in Int /\ f[x] = inS[x] + inT[x]
    OBVIOUS
  <1>3. /\ S \subseteq U /\ \A x \in S : inS[x] = f[x]
        /\ \A x \in U \ S : inS[x] = 0
    OBVIOUS
  <1>4. /\ T \subseteq U /\ \A x \in T : inT[x] = f[x]
        /\ \A x \in U \ T : inT[x] = 0
    OBVIOUS
  <1> HIDE DEF inS, inT
  <1>5. SumFunctionOnSet(f, U) = SumFunctionOnSet(inS, U) + SumFunctionOnSet(inT, U)
    BY <1>1, <1>2, SumAdd
  <1>6. SumFunctionOnSet(inS, U) = SumFunctionOnSet(f, S)
    <2>1. SumFunctionOnSet(inS, U) = SumFunctionOnSet(inS, S)
      BY <1>1, <1>2, <1>3, SumRestrict
    <2>2. SumFunctionOnSet(inS, S) = SumFunctionOnSet(f, S)
      BY <1>3, SumSame
    <2> QED
      BY <2>1, <2>2
  <1>7. SumFunctionOnSet(inT, U) = SumFunctionOnSet(f, T)
    <2>1. SumFunctionOnSet(inT, U) = SumFunctionOnSet(inT, T)
      BY <1>1, <1>2, <1>4, SumRestrict
    <2>2. SumFunctionOnSet(inT, T) = SumFunctionOnSet(f, T)
      BY <1>4, SumSame
    <2> QED
      BY <2>1, <2>2
  <1> QED
    BY <1>5, <1>6, <1>7

\* Finite sets F[i], no two of which have anything in common, to sum f over.
Apart(f, F, I) ==
    \A i \in I : /\ IsFiniteSet(F[i]) /\ \A x \in F[i] : f[x] \in Int
                 /\ \A j \in I \ {i} : F[i] \cap F[j] = {}

\* The sum over such a family is the sum of its sums.
LEMMA SumFamily ==
    ASSUME NEW f, NEW I, IsFiniteSet(I), NEW F, Apart(f, F, I),
           NEW g, \A i \in I : g[i] = SumFunctionOnSet(f, F[i])
    PROVE  /\ IsFiniteSet(UNION {F[i] : i \in I})
           /\ SumFunctionOnSet(f, UNION {F[i] : i \in I}) = SumFunctionOnSet(g, I)
  <1> DEFINE All(J) == UNION {F[i] : i \in J}
             Fine(J) == IsFiniteSet(All(J)) /\ SumFunctionOnSet(f, All(J)) = SumFunctionOnSet(g, J)
             X == {J \in SUBSET I : ~Fine(J)}
  <1> SUFFICES ASSUME X # {} PROVE FALSE
    OBVIOUS
  <1>1. PICK J \in X : IsFiniteSet(J) /\ \A U \in X : U \subseteq J => U = J
    <2>1. X \subseteq SUBSET I
      OBVIOUS
    <2> HIDE DEF X
    <2> QED
      BY <2>1, MinimalSubset
  <1>2. J \in SUBSET I /\ ~Fine(J)
    OBVIOUS
  <1>3. J # {}
    <2> SUFFICES ASSUME J = {} PROVE FALSE
      OBVIOUS
    <2>1. All(J) = {}
      OBVIOUS
    <2> QED
      BY <1>2, <2>1, SumStep, FS_EmptySet
  <1>4. PICK i \in J : TRUE
    BY <1>3
  <1> DEFINE K == J \ {i}
  <1>5. Fine(K)
    <2>1. K \in SUBSET I /\ K \subseteq J /\ K # J
      BY <1>2, <1>4
    <2> HIDE DEF K, Fine
    <2> QED
      BY <1>1, <2>1
  <1>6. All(J) = All(K) \cup F[i] /\ All(K) \cap F[i] = {}
    BY <1>2, <1>4 DEF Apart
  <1>7. \A x \in All(K) \cup F[i] : f[x] \in Int
    BY <1>2, <1>4 DEF Apart
  <1>8. /\ IsFiniteSet(All(K)) /\ SumFunctionOnSet(f, All(K)) = SumFunctionOnSet(g, K)
        /\ IsFiniteSet(F[i]) /\ g[i] = SumFunctionOnSet(f, F[i])
    <2> HIDE DEF All, K
    <2> QED
      BY <1>2, <1>4, <1>5 DEF Apart
  <1> HIDE DEF All, K
  <1>9. SumFunctionOnSet(f, All(J)) = SumFunctionOnSet(f, All(K)) + g[i]
    BY <1>6, <1>7, <1>8, SumUnion
  <1>10. SumFunctionOnSet(g, J) = g[i] + SumFunctionOnSet(g, K) /\ g[i] \in Int
    <2>1. \A j \in J : g[j] \in Int
      BY <1>2, SumIsInteger DEF Apart
    <2> QED
      BY <1>1, <1>4, <2>1, SumRemove DEF K
  <1>11. SumFunctionOnSet(f, All(K)) \in Int
    BY <1>7, <1>8, SumIsInteger
  <1>12. IsFiniteSet(All(J))
    <2>1. IsFiniteSet(All(K) \cup F[i])
      BY <1>8, FS_Union
    <2> QED
      BY <1>6, <2>1
  <1> QED
    BY <1>2, <1>8, <1>10, <1>11, <1>12, <1>9

-----------------------------------------------------------------------------
(* Sequences.                                                              *)

LEMMA FunctionsAreSequences ==
    ASSUME NEW T, NEW n \in Nat, NEW f \in [1..n -> T]
    PROVE  f \in Seq(T)
  OBVIOUS

\* One element of a list is rewritten.
LEMMA OneRewritten ==
    ASSUME NEW T, NEW s \in Seq(T), NEW k \in DOMAIN s, NEW new \in T, NEW t, t = [s EXCEPT ![k] = new]
    PROVE  /\ t \in Seq(T) /\ Len(t) = Len(s) /\ DOMAIN t = DOMAIN s
           /\ t[k] = new /\ \A j \in DOMAIN s : j # k => t[j] = s[j]
  OBVIOUS
=============================================================================
