-------------------------------- MODULE Sums --------------------------------
(***************************************************************************)
(* Facts about SumFunctionOnSet, the sum of a function's values over a     *)
(* finite set, for the proofs about stock, money and debts.  Induction is  *)
(* stated with sets in place of predicates: what holds is membership.      *)
(***************************************************************************)
EXTENDS Integers, FiniteSets, Functions, FiniteSetTheorems,
        WellFoundedInduction, TLAPS

\* A set that has 0, and n + 1 with every n, has every natural number.
LEMMA NatSetInduction ==
    ASSUME NEW P, 0 \in P, \A n \in Nat : n \in P => n + 1 \in P
    PROVE  Nat \subseteq P
<1> DEFINE Bad == Nat \ P
           R == {ss \in Nat \X Nat : ss[1] < ss[2]}
<1>1. SUFFICES ASSUME Bad # {} PROVE FALSE
  OBVIOUS
<1>2. IsWellFoundedOn(R, Nat)
  BY NatLessThanWellFounded DEF OpToRel
<1>3. PICK n \in Bad : \A m \in Bad : <<m, n>> \notin R
  <2> HIDE DEF Bad, R
  <2>1. Bad \subseteq Nat
    BY DEF Bad
  <2>2. QED
    BY <1>1, <1>2, <2>1, WFMin
<1>4. n # 0 /\ n - 1 \in Nat /\ <<n - 1, n>> \in R
  OBVIOUS
<1>5. n - 1 \in P
  BY <1>3, <1>4
<1>6. QED
  BY <1>4, <1>5

\* A set that has a finite set whenever it has all its strict subsets has
\* every subset of S.
LEMMA SubsetInduction ==
    ASSUME NEW S, IsFiniteSet(S), NEW P,
           \A T \in SUBSET S : (\A U \in (SUBSET T) \ {T} : U \in P) => T \in P
    PROVE  SUBSET S \subseteq P
<1> DEFINE Bad == (SUBSET S) \ P
<1>1. SUFFICES ASSUME Bad # {} PROVE FALSE
  OBVIOUS
<1>2. Bad \subseteq FiniteSubsetsOf(S)
  BY FS_Subset DEF FiniteSubsetsOf
<1>3. PICK T \in Bad : \A U \in Bad : <<U, T>> \notin StrictSubsetOrdering(S)
  <2> HIDE DEF Bad
  <2>1. QED
    BY <1>1, <1>2, WFMin, FS_StrictSubsetOrderingWellFounded
<1>4. ASSUME NEW U \in (SUBSET T) \ {T} PROVE U \in P
  <2>1. <<U, T>> \in StrictSubsetOrdering(S)
    BY DEF StrictSubsetOrdering
  <2>2. QED
    BY <1>3, <2>1
<1>5. QED
  BY <1>3, <1>4

\* A set that has {}, and T with one more element for every T, has S.
LEMMA FiniteSetInduction ==
    ASSUME NEW S, IsFiniteSet(S), NEW P, {} \in P,
           \A T \in SUBSET S : \A x \in S \ T : T \in P => T \cup {x} \in P
    PROVE  S \in P
<1>1. ASSUME NEW T \in SUBSET S, \A U \in (SUBSET T) \ {T} : U \in P
      PROVE  T \in P
  <2>1. CASE T = {}
    BY <2>1
  <2>2. CASE T # {}
    <3>1. PICK x \in T : TRUE
      BY <2>2
    <3> DEFINE U == T \ {x}
    <3>2. U \in (SUBSET T) \ {T} /\ T = U \cup {x} /\ x \in S \ U
      BY <3>1
    <3>3. U \in P /\ U \in SUBSET S
      BY <1>1, <3>2
    <3> HIDE DEF U
    <3>4. QED
      BY <3>2, <3>3
  <2>3. QED
    BY <2>1, <2>2
<1>2. QED
  BY <1>1, SubsetInduction

------------------------------------------------------------------------------
(* The fold behind a sum is a recursive function; that there is one.       *)

Pick(U) == CHOOSE x \in U : TRUE

\* g is the recursion that sums up f, on the sets in D.
IsFold(g, f, D) ==
    g = [U \in D |-> IF U = {} THEN 0 ELSE f[Pick(U)] + g[U \ {Pick(U)}]]

Small(S, n) == {U \in SUBSET S : Cardinality(U) <= n}

\* The library sum of f over S is the value at S of the chosen fold.
LEMMA Unfold ==
    ASSUME NEW f, NEW S
    PROVE  SumFunctionOnSet(f, S) = (CHOOSE g : IsFold(g, f, SUBSET S))[S]
BY DEF SumFunctionOnSet, FoldFunctionOnSet, MapThenFoldSet, IsFold, Pick

\* What is picked from a set that is not empty is in it.
LEMMA PickIn == ASSUME NEW U, U # {} PROVE Pick(U) \in U
BY DEF Pick

\* Built up from the empty set, by the number of elements.
LEMMA FoldExists ==
    ASSUME NEW f, NEW S, IsFiniteSet(S)
    PROVE  \E g : IsFold(g, f, SUBSET S)
<1> DEFINE P == {n \in Nat : \E g : IsFold(g, f, Small(S, n))}
<1>1. 0 \in P
  <2> DEFINE g == [U \in Small(S, 0) |-> 0]
  <2>1. \A U \in Small(S, 0) : U = {}
    BY FS_Subset, FS_EmptySet, FS_CardinalityType DEF Small
  <2>2. IsFold(g, f, Small(S, 0))
    BY <2>1 DEF IsFold
  <2>3. QED
    BY <2>2
<1>2. ASSUME NEW n \in Nat, n \in P PROVE n + 1 \in P
  <2>1. PICK h : IsFold(h, f, Small(S, n))
    BY <1>2
  <2> DEFINE g == [U \in Small(S, n + 1) |-> IF U = {} THEN 0
                        ELSE f[Pick(U)] + h[U \ {Pick(U)}]]
  <2>2. ASSUME NEW U \in Small(S, n + 1), U # {}
        PROVE  g[U \ {Pick(U)}] = h[U \ {Pick(U)}]
    <3> DEFINE V == U \ {Pick(U)}
    <3>1. IsFiniteSet(U) /\ Pick(U) \in U
      BY <2>2, FS_Subset, PickIn DEF Small
    <3>2. Cardinality(V) = Cardinality(U) - 1 /\ Cardinality(U) \in Nat
      BY <3>1, FS_RemoveElement, FS_CardinalityType
    <3>3. V \in Small(S, n) /\ V \in Small(S, n + 1)
      BY <3>2 DEF Small
    <3>4. h[V] = IF V = {} THEN 0 ELSE f[Pick(V)] + h[V \ {Pick(V)}]
      BY <2>1, <3>3 DEF IsFold
    <3>5. QED
      BY <3>3, <3>4
  <2>3. IsFold(g, f, Small(S, n + 1))
    BY <2>2 DEF IsFold
  <2>4. QED
    BY <2>3
<1>3. Cardinality(S) \in P
  <2> HIDE DEF P
  <2>1. Nat \subseteq P
    BY <1>1, <1>2, NatSetInduction
  <2>2. QED
    BY <2>1, FS_CardinalityType
<1>4. Small(S, Cardinality(S)) = SUBSET S
  BY FS_Subset DEF Small
<1>5. QED
  BY <1>3, <1>4

\* The recursions on a set and on its subset agree.
LEMMA FoldsAgree ==
    ASSUME NEW f, NEW S, IsFiniteSet(S), NEW T \in SUBSET S,
           NEW g, IsFold(g, f, SUBSET S), NEW h, IsFold(h, f, SUBSET T)
    PROVE  h[T] = g[T]
<1> DEFINE P == {U \in SUBSET T : h[U] = g[U]}
<1>1. ASSUME NEW U \in SUBSET T, \A V \in (SUBSET U) \ {U} : V \in P
      PROVE  U \in P
  <2>1. CASE U = {}
    BY <2>1 DEF IsFold
  <2>2. CASE U # {}
    <3>1. U \ {Pick(U)} \in P
      BY <1>1, <2>2, PickIn
    <3>2. h[U] = f[Pick(U)] + h[U \ {Pick(U)}]
      BY <2>2 DEF IsFold
    <3>3. g[U] = f[Pick(U)] + g[U \ {Pick(U)}]
      BY <2>2 DEF IsFold
    <3>4. QED
      BY <3>1, <3>2, <3>3
  <2>3. QED
    BY <2>1, <2>2
<1>2. SUBSET T \subseteq P
  <2>1. IsFiniteSet(T)
    BY FS_Subset
  <2> HIDE DEF P
  <2>2. QED
    BY <1>1, <2>1, SubsetInduction
<1>3. T \in P
  BY <1>2
<1>4. QED
  BY <1>3

------------------------------------------------------------------------------
\* Nothing sums up to 0.
LEMMA SumEmpty == ASSUME NEW f PROVE SumFunctionOnSet(f, {}) = 0
<1>1. IsFold(CHOOSE g : IsFold(g, f, SUBSET {}), f, SUBSET {})
  BY FoldExists, FS_EmptySet
<1>2. QED
  BY <1>1, Unfold DEF IsFold

\* The element the recursion takes first, and the rest.
LEMMA SumPick ==
    ASSUME NEW f, NEW S, IsFiniteSet(S), S # {}
    PROVE  SumFunctionOnSet(f, S)
                = f[Pick(S)] + SumFunctionOnSet(f, S \ {Pick(S)})
<1> DEFINE T == S \ {Pick(S)}
           g == CHOOSE k : IsFold(k, f, SUBSET S)
           h == CHOOSE k : IsFold(k, f, SUBSET T)
<1>1. IsFold(g, f, SUBSET S) /\ IsFold(h, f, SUBSET T)
  BY FoldExists, FS_Subset
<1>2. SumFunctionOnSet(f, S) = g[S] /\ SumFunctionOnSet(f, T) = h[T]
  BY Unfold
<1> HIDE DEF g, h
<1>3. g[S] = f[Pick(S)] + g[T]
  BY <1>1 DEF IsFold
<1>4. h[T] = g[T]
  <2>1. T \in SUBSET S
    OBVIOUS
  <2> HIDE DEF T
  <2>2. QED
    BY <1>1, <2>1, FoldsAgree
<1>5. QED
  BY <1>2, <1>3, <1>4

\* A sum of integers is one, and any element can be taken out of it.
LEMMA SumTakeOut ==
    ASSUME NEW S, IsFiniteSet(S), NEW f, \A x \in S : f[x] \in Int
    PROVE  /\ SumFunctionOnSet(f, S) \in Int
           /\ \A x \in S : SumFunctionOnSet(f, S)
                                = f[x] + SumFunctionOnSet(f, S \ {x})
<1> DEFINE Sum(T) == SumFunctionOnSet(f, T)
           P == {T \in SUBSET S :
                    Sum(T) \in Int
                      /\ \A x \in T : Sum(T) = f[x] + Sum(T \ {x})}
<1> HIDE DEF Sum
<1>1. ASSUME NEW T \in SUBSET S, \A U \in (SUBSET T) \ {T} : U \in P
      PROVE  T \in P
  <2>1. CASE T = {}
    BY <2>1, SumEmpty DEF Sum
  <2>2. CASE T # {}
    <3> DEFINE c == Pick(T)
    <3>1. c \in T /\ Sum(T) = f[c] + Sum(T \ {c})
      BY <2>2, PickIn, SumPick, FS_Subset DEF Sum
    <3> HIDE DEF c
    <3>2. \A x \in T : T \ {x} \in P /\ f[x] \in Int
      BY <1>1
    <3>3. Sum(T) \in Int
      BY <3>1, <3>2
    <3>4. ASSUME NEW x \in T, x # c PROVE Sum(T) = f[x] + Sum(T \ {x})
      <4> DEFINE R == T \ {c, x}
      <4>1. R = (T \ {c}) \ {x} /\ R = (T \ {x}) \ {c}
        OBVIOUS
      <4>2. Sum(T \ {c}) = f[x] + Sum(R)
        BY <3>1, <3>2, <3>4, <4>1
      <4>3. Sum(T \ {x}) = f[c] + Sum(R)
        BY <3>1, <3>2, <3>4, <4>1
      <4>4. R \in P
        BY <1>1, <3>1
      <4>5. Sum(R) \in Int /\ f[x] \in Int /\ f[c] \in Int
        BY <3>1, <3>2, <4>4
      <4> HIDE DEF R
      <4>6. QED
        BY <3>1, <4>2, <4>3, <4>5
    <3>5. QED
      BY <3>1, <3>3, <3>4
  <2>3. QED
    BY <2>1, <2>2
<1>2. SUBSET S \subseteq P
  <2> HIDE DEF P
  <2>1. QED
    BY <1>1, SubsetInduction
<1>3. S \in P
  BY <1>2
<1>4. QED
  BY <1>3 DEF Sum

\* Functions that agree on a set have the same sum over it.
LEMMA SumSame ==
    ASSUME NEW S, IsFiniteSet(S), NEW f, NEW g,
           \A x \in S : f[x] \in Int /\ g[x] = f[x]
    PROVE  SumFunctionOnSet(g, S) = SumFunctionOnSet(f, S)
<1> DEFINE P == {T \in SUBSET S :
                    SumFunctionOnSet(g, T) = SumFunctionOnSet(f, T)}
<1>1. {} \in P
  BY SumEmpty
<1>2. ASSUME NEW T \in SUBSET S, NEW x \in S \ T, T \in P
      PROVE  T \cup {x} \in P
  <2> DEFINE U == T \cup {x}
  <2>1. IsFiniteSet(U) /\ U \ {x} = T /\ x \in U /\ U \in SUBSET S
    BY FS_Subset
  <2> HIDE DEF U
  <2>2. /\ SumFunctionOnSet(f, U) = f[x] + SumFunctionOnSet(f, T)
        /\ SumFunctionOnSet(g, U) = g[x] + SumFunctionOnSet(g, T)
    BY <2>1, SumTakeOut
  <2>3. U \in P
    BY <1>2, <2>1, <2>2
  <2>4. QED
    BY <2>3 DEF U
<1>3. S \in P
  <2> HIDE DEF P
  <2>1. QED
    BY <1>1, <1>2, FiniteSetInduction
<1>4. QED
  BY <1>3

\* A function that changes at one element changes its sum by as much.
LEMMA SumChange ==
    ASSUME NEW S, IsFiniteSet(S), NEW f, NEW g, NEW x \in S,
           \A y \in S : f[y] \in Int /\ g[y] \in Int,
           \A y \in S \ {x} : g[y] = f[y]
    PROVE  /\ SumFunctionOnSet(f, S) \in Int /\ SumFunctionOnSet(g, S) \in Int
           /\ SumFunctionOnSet(g, S) = SumFunctionOnSet(f, S) + g[x] - f[x]
<1>1. /\ SumFunctionOnSet(f, S) = f[x] + SumFunctionOnSet(f, S \ {x})
      /\ SumFunctionOnSet(g, S) = g[x] + SumFunctionOnSet(g, S \ {x})
  BY SumTakeOut
<1>2. SumFunctionOnSet(g, S \ {x}) = SumFunctionOnSet(f, S \ {x})
  BY SumSame, FS_RemoveElement
<1>3. SumFunctionOnSet(f, S \ {x}) \in Int /\ SumFunctionOnSet(f, S) \in Int
  BY SumTakeOut, FS_RemoveElement
<1>4. QED
  BY <1>1, <1>2, <1>3

\* What is added to one value is added to the sum.
LEMMA SumMoves ==
    ASSUME NEW S, IsFiniteSet(S), NEW f, f \in [S -> Int], NEW x \in S,
           NEW n \in Int
    PROVE  /\ SumFunctionOnSet(f, S) \in Int
           /\ SumFunctionOnSet([f EXCEPT ![x] = @ + n], S)
                = SumFunctionOnSet(f, S) + n
<1> DEFINE g == [f EXCEPT ![x] = @ + n]
<1>1. g[x] = f[x] + n /\ f[x] \in Int
  OBVIOUS
<1>2. \A y \in S : f[y] \in Int /\ g[y] \in Int
  OBVIOUS
<1>3. \A y \in S \ {x} : g[y] = f[y]
  OBVIOUS
<1> HIDE DEF g
<1>4. /\ SumFunctionOnSet(f, S) \in Int /\ SumFunctionOnSet(g, S) \in Int
      /\ SumFunctionOnSet(g, S) = SumFunctionOnSet(f, S) + g[x] - f[x]
  BY <1>2, <1>3, SumChange
<1>5. SumFunctionOnSet(g, S) = SumFunctionOnSet(f, S) + n
  BY <1>1, <1>4
<1>6. QED
  BY <1>4, <1>5 DEF g

\* The sum over one member is the value there.
LEMMA SumOne ==
    ASSUME NEW f, NEW x, f[x] \in Int PROVE SumFunctionOnSet(f, {x}) = f[x]
<1>1. IsFiniteSet({x}) /\ {x} \ {x} = {}
  BY FS_Singleton
<1>2. SumFunctionOnSet(f, {x}) = f[x] + SumFunctionOnSet(f, {x} \ {x})
  BY <1>1, SumTakeOut
<1>3. QED
  BY <1>1, <1>2, SumEmpty

\* A sum of naturals is one, and no less than any of them.
LEMMA SumNat ==
    ASSUME NEW S, IsFiniteSet(S), NEW f, \A x \in S : f[x] \in Nat
    PROVE  /\ SumFunctionOnSet(f, S) \in Nat
           /\ \A x \in S : f[x] <= SumFunctionOnSet(f, S)
<1> DEFINE P == {T \in SUBSET S : SumFunctionOnSet(f, T) \in Nat}
<1>1. {} \in P
  BY SumEmpty
<1>2. ASSUME NEW T \in SUBSET S, NEW x \in S \ T, T \in P
      PROVE  T \cup {x} \in P
  <2> DEFINE U == T \cup {x}
  <2>1. IsFiniteSet(U) /\ U \ {x} = T /\ x \in U /\ U \in SUBSET S
    BY FS_Subset
  <2> HIDE DEF U
  <2>2. SumFunctionOnSet(f, U) = f[x] + SumFunctionOnSet(f, T)
    BY <2>1, SumTakeOut
  <2>3. U \in P
    BY <1>2, <2>1, <2>2
  <2>4. QED
    BY <2>3 DEF U
<1>3. ASSUME NEW T \in SUBSET S PROVE T \in P
  <2>1. /\ IsFiniteSet(T) /\ \A U \in SUBSET T : \A x \in T \ U :
                U \in P => U \cup {x} \in P
    BY <1>2, FS_Subset
  <2> HIDE DEF P
  <2>2. QED
    BY <1>1, <2>1, FiniteSetInduction
<1>4. ASSUME NEW x \in S PROVE f[x] <= SumFunctionOnSet(f, S)
  <2>1. SumFunctionOnSet(f, S) = f[x] + SumFunctionOnSet(f, S \ {x})
    BY SumTakeOut
  <2>2. SumFunctionOnSet(f, S \ {x}) \in Nat
    BY <1>3
  <2>3. QED
    BY <2>1, <2>2
<1>5. QED
  BY <1>3, <1>4

\* The sum over two sets that have nothing in common.
LEMMA SumUnion ==
    ASSUME NEW S, IsFiniteSet(S), NEW T, IsFiniteSet(T), S \cap T = {},
           NEW f, \A x \in S \cup T : f[x] \in Int
    PROVE  SumFunctionOnSet(f, S \cup T)
                = SumFunctionOnSet(f, S) + SumFunctionOnSet(f, T)
<1> DEFINE P == {U \in SUBSET T :
                    SumFunctionOnSet(f, S \cup U)
                        = SumFunctionOnSet(f, S) + SumFunctionOnSet(f, U)}
<1>1. {} \in P
  <2>1. SumFunctionOnSet(f, S) \in Int /\ SumFunctionOnSet(f, {}) = 0
    BY SumEmpty, SumTakeOut
  <2>2. S \cup {} = S
    OBVIOUS
  <2>3. QED
    BY <2>1, <2>2
<1>2. ASSUME NEW U \in SUBSET T, NEW x \in T \ U, U \in P
      PROVE  U \cup {x} \in P
  <2> DEFINE V == U \cup {x}
             W == S \cup V
  <2>1. /\ IsFiniteSet(U) /\ IsFiniteSet(V) /\ IsFiniteSet(W)
        /\ V \ {x} = U /\ x \in V /\ V \in SUBSET T
        /\ x \in W /\ W \ {x} = S \cup U
    BY FS_Subset, FS_Union
  <2>2. W = S \cup V
    OBVIOUS
  <2> HIDE DEF V, W
  <2>3. \A y \in W : f[y] \in Int
    BY <2>1, <2>2
  <2>4. SumFunctionOnSet(f, V) = f[x] + SumFunctionOnSet(f, U)
    BY <2>1, SumTakeOut
  <2>5. SumFunctionOnSet(f, W) = f[x] + SumFunctionOnSet(f, S \cup U)
    BY <2>1, <2>3, SumTakeOut
  <2>6. SumFunctionOnSet(f, S) \in Int /\ SumFunctionOnSet(f, U) \in Int
    BY <2>1, SumTakeOut
  <2>7. f[x] \in Int
    OBVIOUS
  <2>8. V \in P
    BY <1>2, <2>1, <2>2, <2>4, <2>5, <2>6, <2>7
  <2>9. QED
    BY <2>8 DEF V
<1>3. T \in P
  <2> HIDE DEF P
  <2>1. QED
    BY <1>1, <1>2, FiniteSetInduction
<1>4. QED
  BY <1>3

\* Zeros add nothing: the sum over a set is the sum over its part where the
\* function counts.
LEMMA SumWhere ==
    ASSUME NEW S, IsFiniteSet(S), NEW Q \in SUBSET S, NEW f, NEW g,
           \A x \in Q : f[x] \in Int /\ g[x] = f[x],
           \A x \in S \ Q : g[x] = 0
    PROVE  SumFunctionOnSet(f, Q) = SumFunctionOnSet(g, S)
<1> DEFINE R == S \ Q
           P == {T \in SUBSET R : SumFunctionOnSet(g, T) = 0}
<1>1. {} \in P
  BY SumEmpty
<1>2. ASSUME NEW T \in SUBSET R, NEW x \in R \ T, T \in P
      PROVE  T \cup {x} \in P
  <2> DEFINE U == T \cup {x}
  <2>1. IsFiniteSet(U) /\ U \ {x} = T /\ x \in U /\ U \in SUBSET R
    BY FS_Subset
  <2> HIDE DEF U
  <2>2. SumFunctionOnSet(g, U) = g[x] + SumFunctionOnSet(g, T)
    BY <2>1, SumTakeOut
  <2>3. U \in P
    BY <1>2, <2>1, <2>2
  <2>4. QED
    BY <2>3 DEF U
<1>3. R \in P
  <2>1. IsFiniteSet(R)
    BY FS_Subset
  <2> HIDE DEF P, R
  <2>2. QED
    BY <1>1, <1>2, <2>1, FiniteSetInduction
<1>4. SumFunctionOnSet(g, S) = SumFunctionOnSet(g, Q) + 0
  <2>1. /\ S = Q \cup R /\ Q \cap R = {} /\ IsFiniteSet(Q) /\ IsFiniteSet(R)
        /\ \A x \in Q \cup R : g[x] \in Int
    BY FS_Subset
  <2>2. SumFunctionOnSet(g, R) = 0
    BY <1>3
  <2> HIDE DEF R
  <2>3. QED
    BY <2>1, <2>2, SumUnion
<1>5. SumFunctionOnSet(g, Q) = SumFunctionOnSet(f, Q)
      /\ SumFunctionOnSet(f, Q) \in Int
  BY FS_Subset, SumSame, SumTakeOut
<1>6. QED
  BY <1>4, <1>5

\* A fold with + over a function's domain is such a sum.
LEMMA FoldIsSum ==
    ASSUME NEW S, NEW f
    PROVE  FoldFunction(+, 0, [x \in S |-> f[x]])
                = SumFunctionOnSet([x \in S |-> f[x]], S)
BY DEF FoldFunction, SumFunctionOnSet
=============================================================================
