----------------------------- MODULE SumProofs -----------------------------
(***************************************************************************)
(* What the sums of the models (reservations and shares of payments,       *)
(* amounts of operations) add up to, for any finite set.  The sum takes    *)
(* its terms in an order of its own choice; these lemmas say the order     *)
(* does not matter.  They hold by minimal counterexample: among the finite *)
(* sets that violate one there is a smallest.                              *)
(***************************************************************************)
EXTENDS FiniteSetsExt, FiniteSetTheorems, TLAPS

\* A set of finite sets has a member none of whose proper subsets is in it.
LEMMA SmallestSet ==
    ASSUME NEW S, IsFiniteSet(S), NEW B \in SUBSET SUBSET S, B # {}
    PROVE  \E T \in B : \A U \in B : U \subseteq T => U = T
<1>1. SUBSET S = FiniteSubsetsOf(S)
  BY FS_FiniteSubsetsOfFinite
<1>2. IsWellFoundedOn(StrictSubsetOrdering(S), SUBSET S)
  BY <1>1, FS_StrictSubsetOrderingWellFounded
<1>3. \E T \in B : \A U \in B : ~ (<<U, T>> \in StrictSubsetOrdering(S))
  BY <1>2, WFMin
<1> QED  BY <1>3 DEF StrictSubsetOrdering

First(s) == CHOOSE x \in s : TRUE

\* g computes the sums of fun over the subsets of S.
Computes(g, fun, S) ==
    g = [s \in SUBSET S |->
           IF s = {} THEN 0 ELSE fun[First(s)] + g[s \ {First(s)}]]

Sum(fun, S) == SumFunctionOnSet(fun, S)

\* The library's sum is the function its definition chooses.
LEMMA SumUnfolded ==
    ASSUME NEW fun, NEW S
    PROVE  Sum(fun, S) = (CHOOSE g : Computes(g, fun, S))[S]
BY DEF Sum, SumFunctionOnSet, FoldFunctionOnSet, MapThenFoldSet, Computes, First

\* Two such functions agree wherever both are defined.
LEMMA ComputesAgree ==
    ASSUME NEW fun, NEW S, NEW T, IsFiniteSet(S), T \subseteq S,
           NEW g, Computes(g, fun, S), NEW h, Computes(h, fun, T)
    PROVE  g[T] = h[T]
<1> DEFINE Bad == {s \in SUBSET T : g[s] # h[s]}
<1>1. SUFFICES ASSUME Bad # {} PROVE FALSE
  OBVIOUS
<1>2. IsFiniteSet(T)
  BY FS_Subset
<1>3. PICK s \in Bad : \A u \in Bad : u \subseteq s => u = s
  <2>1. Bad \in SUBSET SUBSET T
    OBVIOUS
  <2> HIDE DEF Bad
  <2> QED  BY <1>1, <1>2, <2>1, SmallestSet
<1>4. CASE s = {}
  <2>1. g[s] = 0 /\ h[s] = 0
    BY <1>4 DEF Computes
  <2> QED  BY <2>1, <1>3
<1>5. CASE s # {}
  <2> DEFINE r == s \ {First(s)}
  <2>1. First(s) \in s
    BY <1>5 DEF First
  <2>2. r \in SUBSET T /\ r # s /\ r \subseteq s
    BY <2>1, <1>3
  <2>3. g[r] = h[r]
    BY <2>2, <1>3
  <2>4. g[s] = fun[First(s)] + g[r] /\ h[s] = fun[First(s)] + h[r]
    BY <1>5, <1>3 DEF Computes
  <2> QED  BY <2>3, <2>4, <1>3
<1> QED  BY <1>4, <1>5

\* Over a finite set there is one.
LEMMA ComputesExists ==
    ASSUME NEW fun, NEW S, IsFiniteSet(S)
    PROVE  \E g : Computes(g, fun, S)
<1> DEFINE Bad == {s \in SUBSET S : ~ \E g : Computes(g, fun, s)}
<1>1. SUFFICES ASSUME Bad # {} PROVE FALSE
  OBVIOUS
<1>2. PICK T \in Bad : \A u \in Bad : u \subseteq T => u = T
  <2>1. Bad \in SUBSET SUBSET S
    OBVIOUS
  <2> HIDE DEF Bad
  <2> QED  BY <1>1, <2>1, SmallestSet
<1>3. T \subseteq S /\ IsFiniteSet(T) /\ ~ \E g : Computes(g, fun, T)
  BY <1>2, FS_Subset
<1> DEFINE G(s) == CHOOSE g : Computes(g, fun, s)
           V(s) == G(s)[s]
           Step(s) == IF s = {} THEN 0 ELSE fun[First(s)] + V(s \ {First(s)})
           g == [s \in SUBSET T |-> IF s = T THEN Step(s) ELSE V(s)]
<1>4. ASSUME NEW s \in SUBSET T, s # T PROVE Computes(G(s), fun, s)
  <2>1. \E f : Computes(f, fun, s)
    BY <1>2, <1>3, <1>4
  <2> HIDE DEF Computes
  <2> QED  BY <2>1
<1>5. ASSUME NEW s \in SUBSET T, s # T PROVE V(s) = Step(s)
  <2>1. CASE s = {}
    <3>1. Computes(G(s), fun, s)
      BY <1>4, <1>5
    <3> HIDE DEF G
    <3> QED  BY <2>1, <3>1 DEF Computes
  <2>2. CASE s # {}
    <3> DEFINE r == s \ {First(s)}
    <3>1. First(s) \in s /\ r \in SUBSET T /\ r \subseteq s /\ r # T
      BY <2>2, <1>5 DEF First
    <3>2. Computes(G(s), fun, s) /\ Computes(G(r), fun, r) /\ IsFiniteSet(s)
      BY <1>3, <1>4, <1>5, <3>1, FS_Subset
    <3>3. G(s)[r] = G(r)[r]
      <4> HIDE DEF r, G
      <4> QED  BY <3>1, <3>2, ComputesAgree
    <3>4. G(s)[s] = fun[First(s)] + G(s)[r]
      <4> HIDE DEF G
      <4> QED  BY <2>2, <3>2 DEF Computes
    <3> QED  BY <2>2, <3>3, <3>4
  <2> QED  BY <2>1, <2>2
<1>6. ASSUME NEW s \in SUBSET T PROVE g[s] = Step(s)
  <2> HIDE DEF V
  <2> QED  BY <1>5
<1>7. ASSUME NEW s \in SUBSET T, s # {} PROVE g[s \ {First(s)}] = V(s \ {First(s)})
  <2>1. First(s) \in s /\ s \ {First(s)} \in SUBSET T /\ s \ {First(s)} # T
    BY <1>7 DEF First
  <2> HIDE DEF V
  <2> QED  BY <2>1
<1>8. ASSUME NEW s \in SUBSET T
      PROVE  g[s] = IF s = {} THEN 0 ELSE fun[First(s)] + g[s \ {First(s)}]
  <2> HIDE DEF g, V
  <2> QED  BY <1>6, <1>7
<1>9. g = [s \in SUBSET T |->
             IF s = {} THEN 0 ELSE fun[First(s)] + g[s \ {First(s)}]]
  <2>1. DOMAIN g = SUBSET T /\ g = [s \in DOMAIN g |-> g[s]]
    OBVIOUS
  <2> HIDE DEF g
  <2> QED  BY <1>8, <2>1
<1> QED
  <2> HIDE DEF g
  <2>1. Computes(g, fun, T)
    BY <1>9 DEF Computes
  <2> QED  BY <2>1, <1>3

\* The sum of nothing, and the sum with its first term taken out.
LEMMA SumStep ==
    ASSUME NEW fun, NEW S, IsFiniteSet(S)
    PROVE  /\ S = {} => Sum(fun, S) = 0
           /\ S # {} => Sum(fun, S) = fun[First(S)] + Sum(fun, S \ {First(S)})
<1> DEFINE G(s) == CHOOSE g : Computes(g, fun, s)
           r == S \ {First(S)}
<1>1. IsFiniteSet(r) /\ r \subseteq S
  BY FS_Subset
<1>2. Computes(G(S), fun, S) /\ Computes(G(r), fun, r)
  <2>1. (\E g : Computes(g, fun, S)) /\ (\E g : Computes(g, fun, r))
    <3> HIDE DEF r
    <3> QED  BY <1>1, ComputesExists
  <2> HIDE DEF Computes
  <2> QED  BY <2>1
<1>3. Sum(fun, S) = G(S)[S] /\ Sum(fun, r) = G(r)[r]
  BY SumUnfolded
<1>4. G(S)[r] = G(r)[r]
  <2> HIDE DEF r, G
  <2> QED  BY <1>1, <1>2, ComputesAgree
<1>5. G(S)[S] = IF S = {} THEN 0 ELSE fun[First(S)] + G(S)[r]
  <2> HIDE DEF G
  <2> QED  BY <1>2 DEF Computes
<1> HIDE DEF G
<1> QED  BY <1>3, <1>4, <1>5

\* Any term can be taken out.
LEMMA SumTakeOut ==
    ASSUME NEW fun, NEW S, IsFiniteSet(S), \A x \in S : fun[x] \in Int
    PROVE  /\ Sum(fun, S) \in Int
           /\ \A x \in S : Sum(fun, S) = fun[x] + Sum(fun, S \ {x})
<1> DEFINE Good(T) == /\ Sum(fun, T) \in Int
                      /\ \A x \in T : Sum(fun, T) = fun[x] + Sum(fun, T \ {x})
           Bad == {T \in SUBSET S : ~Good(T)}
<1>1. SUFFICES ASSUME Bad # {} PROVE FALSE
  OBVIOUS
<1>2. PICK T \in Bad : \A u \in Bad : u \subseteq T => u = T
  <2>1. Bad \in SUBSET SUBSET S
    OBVIOUS
  <2> HIDE DEF Bad
  <2> QED  BY <1>1, <2>1, SmallestSet
<1>3. T \subseteq S /\ IsFiniteSet(T) /\ ~Good(T)
  BY <1>2, FS_Subset
<1>4. ASSUME NEW u \in SUBSET T, u # T PROVE Good(u)
  BY <1>2, <1>3, <1>4
<1>5. T # {}
  <2>1. ASSUME T = {} PROVE Sum(fun, T) = 0
    BY <1>3, <2>1, SumStep
  <2> QED  BY <1>3, <2>1
<1> DEFINE c == First(T)
           R == T \ {c}
<1>6. c \in T /\ R \in SUBSET T /\ R # T
  BY <1>5 DEF First
<1>7. Sum(fun, T) = fun[c] + Sum(fun, R) /\ Sum(fun, R) \in Int /\ fun[c] \in Int
  BY <1>3, <1>4, <1>5, <1>6, SumStep
<1>8. ASSUME NEW x \in T PROVE Sum(fun, T) = fun[x] + Sum(fun, T \ {x})
  <2>1. CASE x = c
    BY <2>1, <1>7
  <2>2. CASE x # c
    <3> DEFINE U == T \ {x}
               W == R \ {x}
    <3>1. x \in R /\ U \in SUBSET T /\ U # T /\ c \in U /\ U \ {c} = W
          /\ W \in SUBSET T /\ W # T
      BY <1>6, <2>2
    <3>2. Sum(fun, R) = fun[x] + Sum(fun, W)
      BY <1>4, <1>6, <3>1
    <3>3. Sum(fun, U) = fun[c] + Sum(fun, W)
      BY <1>4, <3>1
    <3>4. Sum(fun, W) \in Int /\ fun[x] \in Int
      BY <1>3, <1>4, <3>1
    <3> HIDE DEF U, W, R, c
    <3>5. Sum(fun, T) = fun[x] + Sum(fun, U)
      BY <1>7, <3>2, <3>3, <3>4
    <3> QED  BY <3>5 DEF U
  <2> QED  BY <2>1, <2>2
<1>9. Good(T)
  <2>1. Sum(fun, T) \in Int
    <3> HIDE DEF c, R
    <3> QED  BY <1>7
  <2> QED  BY <2>1, <1>8
<1> QED  BY <1>3, <1>9

\* The empty sum.
LEMMA SumEmpty == ASSUME NEW fun PROVE Sum(fun, {}) = 0
BY SumStep, FS_EmptySet

\* Adding an element adds its term.
LEMMA SumAdd ==
    ASSUME NEW fun, NEW S, IsFiniteSet(S), NEW x, x \notin S,
           \A y \in S \cup {x} : fun[y] \in Int
    PROVE  Sum(fun, S \cup {x}) = Sum(fun, S) + fun[x]
<1>1. IsFiniteSet(S \cup {x})
  BY FS_AddElement
<1>2. (S \cup {x}) \ {x} = S
  OBVIOUS
<1>3. Sum(fun, S \cup {x}) = fun[x] + Sum(fun, S)
  BY <1>1, <1>2, SumTakeOut
<1>4. Sum(fun, S) \in Int
  BY SumTakeOut
<1> QED  BY <1>3, <1>4

\* Equal terms have equal sums.
LEMMA SumSame ==
    ASSUME NEW fun, NEW gun, NEW S, IsFiniteSet(S), \A x \in S : fun[x] = gun[x],
           \A x \in S : fun[x] \in Int
    PROVE  Sum(fun, S) = Sum(gun, S)
<1> DEFINE Bad == {T \in SUBSET S : Sum(fun, T) # Sum(gun, T)}
<1>1. SUFFICES ASSUME Bad # {} PROVE FALSE
  OBVIOUS
<1>2. PICK T \in Bad : \A u \in Bad : u \subseteq T => u = T
  <2>1. Bad \in SUBSET SUBSET S
    OBVIOUS
  <2> HIDE DEF Bad
  <2> QED  BY <1>1, <2>1, SmallestSet
<1>3. T \subseteq S /\ IsFiniteSet(T)
  BY <1>2, FS_Subset
<1>4. T # {}
  BY <1>2, SumEmpty
<1>5. PICK c \in T : TRUE
  BY <1>4
<1>6. Sum(fun, T \ {c}) = Sum(gun, T \ {c})
  BY <1>2, <1>3, <1>5
<1>7. /\ Sum(fun, T) = fun[c] + Sum(fun, T \ {c})
      /\ Sum(gun, T) = gun[c] + Sum(gun, T \ {c})
  BY <1>3, <1>5, SumTakeOut
<1> QED  BY <1>2, <1>3, <1>6, <1>7

\* The sum over a part of a set of naturals is no larger.
LEMMA SumMonotone ==
    ASSUME NEW fun, NEW S, IsFiniteSet(S), \A x \in S : fun[x] \in Nat,
           NEW T \in SUBSET S
    PROVE  /\ Sum(fun, T) \in Nat /\ Sum(fun, S) \in Nat
           /\ Sum(fun, T) <= Sum(fun, S)
<1> DEFINE Good(U) == Sum(fun, U) \in Nat /\ Sum(fun, U \cap T) \in Nat
                      /\ Sum(fun, U \cap T) <= Sum(fun, U)
           Bad == {U \in SUBSET S : ~Good(U)}
<1>1. ASSUME Bad # {} PROVE FALSE
  <2>1. PICK U \in Bad : \A u \in Bad : u \subseteq U => u = U
    <3>1. Bad \in SUBSET SUBSET S
      OBVIOUS
    <3> HIDE DEF Bad
    <3> QED  BY <1>1, <3>1, SmallestSet
  <2>2. U \subseteq S /\ IsFiniteSet(U) /\ IsFiniteSet(U \cap T) /\ ~Good(U)
    BY <2>1, FS_Subset
  <2>3. U # {}
    <3>1. ASSUME U = {} PROVE Sum(fun, U) = 0 /\ Sum(fun, U \cap T) = 0
      <4>1. U \cap T = {}
        BY <3>1
      <4> QED  BY <3>1, <4>1, SumEmpty
    <3> QED  BY <3>1, <2>2
  <2>4. PICK c \in U : TRUE
    BY <2>3
  <2> DEFINE R == U \ {c}
  <2>5. Good(R) /\ fun[c] \in Nat
    BY <2>1, <2>2, <2>4
  <2>6. Sum(fun, U) = fun[c] + Sum(fun, R)
    BY <2>2, <2>4, SumTakeOut
  <2>7. Sum(fun, U \cap T) = Sum(fun, R \cap T) \/
        Sum(fun, U \cap T) = fun[c] + Sum(fun, R \cap T)
    <3>1. CASE c \in T
      <4>1. c \in U \cap T /\ (U \cap T) \ {c} = R \cap T
        BY <3>1
      <4>2. \A x \in U \cap T : fun[x] \in Int
        BY <2>2
      <4>3. \A x \in U \cap T : Sum(fun, U \cap T) = fun[x] + Sum(fun, (U \cap T) \ {x})
        <5> DEFINE A == U \cap T
        <5>1. IsFiniteSet(A) /\ \A x \in A : fun[x] \in Int
          BY <2>2, <4>2
        <5> HIDE DEF A
        <5>2. \A x \in A : Sum(fun, A) = fun[x] + Sum(fun, A \ {x})
          BY <5>1, SumTakeOut
        <5> QED  BY <5>2 DEF A
      <4> QED  BY <4>1, <4>3
    <3>2. CASE c \notin T
      <4>1. U \cap T = R \cap T
        BY <3>2
      <4> QED  BY <4>1
    <3> QED  BY <3>1, <3>2
  <2>8. Good(U)
    <3> HIDE DEF R
    <3> QED  BY <2>5, <2>6, <2>7
  <2> QED  BY <2>2, <2>8
<1>2. Good(S)
  BY <1>1
<1>3. S \cap T = T
  OBVIOUS
<1> QED  BY <1>2, <1>3

\* A sum of zeros and ones counts the ones.
LEMMA SumOnes ==
    ASSUME NEW fun, NEW S, IsFiniteSet(S), \A x \in S : fun[x] \in {0, 1}
    PROVE  /\ Sum(fun, S) = Cardinality({x \in S : fun[x] = 1})
           /\ IsFiniteSet({x \in S : fun[x] = 1})
<1> DEFINE Ones(T) == {x \in T : fun[x] = 1}
           Good(T) == Sum(fun, T) = Cardinality(Ones(T))
           Bad == {T \in SUBSET S : ~Good(T)}
<1>1. ASSUME Bad # {} PROVE FALSE
  <2>1. PICK T \in Bad : \A u \in Bad : u \subseteq T => u = T
    <3>1. Bad \in SUBSET SUBSET S
      OBVIOUS
    <3> HIDE DEF Bad
    <3> QED  BY <1>1, <3>1, SmallestSet
  <2>2. T \subseteq S /\ IsFiniteSet(T) /\ ~Good(T)
    BY <2>1, FS_Subset
  <2>3. T # {}
    <3>1. ASSUME T = {} PROVE Sum(fun, T) = 0 /\ Ones(T) = {}
      BY <3>1, SumEmpty
    <3> QED  BY <2>2, <3>1, FS_EmptySet
  <2>4. PICK c \in T : TRUE
    BY <2>3
  <2> DEFINE R == T \ {c}
  <2>5. Good(R) /\ IsFiniteSet(R) /\ fun[c] \in {0, 1}
    BY <2>1, <2>2, <2>4, FS_Subset
  <2>6. Sum(fun, T) = fun[c] + Sum(fun, R)
    BY <2>2, <2>4, SumTakeOut
  <2>7. IsFiniteSet(Ones(R)) /\ Cardinality(Ones(R)) \in Nat /\ c \notin Ones(R)
    <3>1. Ones(R) \subseteq R /\ c \notin Ones(R)
      OBVIOUS
    <3> HIDE DEF Ones, R
    <3> QED  BY <2>5, <3>1, FS_Subset, FS_CardinalityType
  <2>8. CASE fun[c] = 0
    <3>1. Ones(T) = Ones(R)
      BY <2>4, <2>8
    <3> HIDE DEF Ones, R
    <3> QED  BY <2>2, <2>5, <2>6, <2>7, <2>8, <3>1
  <2>9. CASE fun[c] = 1
    <3>1. Ones(T) = Ones(R) \cup {c}
      BY <2>4, <2>9
    <3> HIDE DEF Ones, R
    <3>2. Cardinality(Ones(T)) = Cardinality(Ones(R)) + 1
      BY <2>7, <3>1, FS_AddElement
    <3> QED  BY <2>2, <2>5, <2>6, <2>7, <2>9, <3>2
  <2> QED  BY <2>5, <2>8, <2>9
<1>2. Good(S)
  BY <1>1
<1>3. IsFiniteSet(Ones(S))
  <2>1. Ones(S) \subseteq S
    OBVIOUS
  <2> HIDE DEF Ones
  <2> QED  BY <2>1, FS_Subset
<1> QED  BY <1>2, <1>3

\* A sum is the sum over a part and the sum over the rest.
LEMMA SumSplit ==
    ASSUME NEW fun, NEW S, IsFiniteSet(S), \A x \in S : fun[x] \in Int,
           NEW T \in SUBSET S
    PROVE  Sum(fun, S) = Sum(fun, T) + Sum(fun, S \ T)
<1> DEFINE Good(U) == Sum(fun, S) = Sum(fun, U) + Sum(fun, S \ U)
           Bad == {U \in SUBSET S : ~Good(U)}
<1>1. ASSUME Bad # {} PROVE FALSE
  <2>1. PICK U \in Bad : \A u \in Bad : u \subseteq U => u = U
    <3>1. Bad \in SUBSET SUBSET S
      OBVIOUS
    <3> HIDE DEF Bad
    <3> QED  BY <1>1, <3>1, SmallestSet
  <2>2. /\ U \subseteq S /\ IsFiniteSet(U) /\ ~Good(U)
        /\ Sum(fun, S) \in Int
    BY <2>1, FS_Subset, SumTakeOut
  <2>3. U # {}
    <3>1. ASSUME U = {} PROVE Good(U)
      <4>1. S \ U = S /\ Sum(fun, U) = 0
        BY <3>1, SumEmpty
      <4> QED  BY <2>2, <4>1
    <3> QED  BY <3>1, <2>2
  <2>4. PICK c \in U : TRUE
    BY <2>3
  <2> DEFINE R == U \ {c}
             D == S \ U
  <2>5. Good(R) /\ S \ R = D \cup {c} /\ c \notin D /\ c \in S
    BY <2>1, <2>2, <2>4
  <2>6. /\ Sum(fun, U) = fun[c] + Sum(fun, R)
        /\ Sum(fun, U) \in Int /\ fun[c] \in Int
    BY <2>2, <2>4, SumTakeOut
  <2>7. IsFiniteSet(D) /\ IsFiniteSet(R) /\ R \subseteq S /\ D \subseteq S
    BY <2>2, FS_Subset
  <2>8. Sum(fun, D \cup {c}) = Sum(fun, D) + fun[c]
    <3>1. \A y \in D \cup {c} : fun[y] \in Int
      BY <2>5, <2>7
    <3> HIDE DEF D
    <3> QED  BY <2>5, <2>7, <3>1, SumAdd
  <2>9. Sum(fun, D) \in Int /\ Sum(fun, R) \in Int
    <3>1. (\A y \in D : fun[y] \in Int) /\ (\A y \in R : fun[y] \in Int)
      BY <2>7
    <3> HIDE DEF D, R
    <3> QED  BY <2>7, <3>1, SumTakeOut
  <2>10. Sum(fun, S) = Sum(fun, U) + Sum(fun, D)
    <3>1. Sum(fun, S) = Sum(fun, R) + Sum(fun, D \cup {c})
      BY <2>5
    <3> HIDE DEF D, R
    <3> QED  BY <2>6, <2>8, <2>9, <3>1
  <2> QED  BY <2>2, <2>10
<1> QED  BY <1>1

\* Terms that are in proportion have sums in proportion.
LEMMA SumScaled ==
    ASSUME NEW fun, NEW gun, NEW S, IsFiniteSet(S), NEW a \in Int, NEW b \in Int,
           \A x \in S : fun[x] \in Int /\ gun[x] \in Int /\ fun[x] * a <= gun[x] * b
    PROVE  Sum(fun, S) * a <= Sum(gun, S) * b
<1> DEFINE Good(T) == Sum(fun, T) * a <= Sum(gun, T) * b
           Bad == {T \in SUBSET S : ~Good(T)}
<1>1. ASSUME Bad # {} PROVE FALSE
  <2>1. PICK T \in Bad : \A u \in Bad : u \subseteq T => u = T
    <3>1. Bad \in SUBSET SUBSET S
      OBVIOUS
    <3> HIDE DEF Bad
    <3> QED  BY <1>1, <3>1, SmallestSet
  <2>2. T \subseteq S /\ IsFiniteSet(T) /\ ~Good(T)
    BY <2>1, FS_Subset
  <2>3. T # {}
    <3>1. ASSUME T = {} PROVE Sum(fun, T) = 0 /\ Sum(gun, T) = 0
      BY <3>1, SumEmpty
    <3> QED  BY <3>1, <2>2
  <2>4. PICK c \in T : TRUE
    BY <2>3
  <2> DEFINE R == T \ {c}
  <2>5. /\ Good(R) /\ IsFiniteSet(R) /\ R \subseteq S
        /\ fun[c] \in Int /\ gun[c] \in Int /\ fun[c] * a <= gun[c] * b
    BY <2>1, <2>2, <2>4, FS_Subset
  <2>6. /\ Sum(fun, T) = fun[c] + Sum(fun, R)
        /\ Sum(gun, T) = gun[c] + Sum(gun, R)
    BY <2>2, <2>4, SumTakeOut
  <2>7. Sum(fun, R) \in Int /\ Sum(gun, R) \in Int
    <3>1. \A y \in R : fun[y] \in Int /\ gun[y] \in Int
      BY <2>5
    <3> HIDE DEF R
    <3> QED  BY <2>5, <3>1, SumTakeOut
  <2>8. Good(T)
    <3> HIDE DEF R
    <3>1. /\ Sum(fun, T) * a = fun[c] * a + Sum(fun, R) * a
          /\ Sum(gun, T) * b = gun[c] * b + Sum(gun, R) * b
      BY <2>5, <2>6, <2>7
    <3>2. /\ fun[c] * a \in Int /\ gun[c] * b \in Int
          /\ Sum(fun, R) * a \in Int /\ Sum(gun, R) * b \in Int
      BY <2>5, <2>7
    <3> QED  BY <2>5, <3>1, <3>2
  <2> QED  BY <2>2, <2>8
<1> QED  BY <1>1
=============================================================================
