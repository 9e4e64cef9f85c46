--------------------------------- MODULE Sums ---------------------------------
(***************************************************************************)
(* Facts about the sum of a function over a finite set, for the proofs     *)
(* about books, netting and allocation.  SumFunctionOnSet of the community *)
(* modules is a recursive function on the subsets of the set, so first     *)
(* comes an induction principle over finite sets, with the property given  *)
(* as the set of subsets that have it, then that the recursion defines a   *)
(* function, and then the facts that the other proofs cite.                *)
(***************************************************************************)
EXTENDS Integers, Functions, FiniteSetTheorems, TLAPS

\* A non-empty set of subsets of a finite set has a minimal member.
LEMMA MinimalSubset ==
    ASSUME NEW S, IsFiniteSet(S), NEW B, B \subseteq SUBSET S, B # {}
    PROVE  \E T \in B : \A U \in B : U \subseteq T => U = T
<1> DEFINE R == StrictSubsetOrdering(S)
<1>1. IsWellFoundedOn(R, SUBSET S)
  BY FS_StrictSubsetOrderingWellFounded, FS_FiniteSubsetsOfFinite
<1> HIDE DEF R
<1>2. PICK T \in B : \A U \in B : <<U, T>> \notin R
  BY <1>1, WFMin
<1>3. ASSUME NEW U \in B, U \subseteq T PROVE U = T
  <2>1. U \in SUBSET S /\ T \in SUBSET S /\ <<U, T>> \notin R
    BY <1>2
  <2> QED
    BY <1>3, <2>1 DEF R, StrictSubsetOrdering
<1> QED
  BY <1>3

\* Induction over the subsets of a finite set: P has them all if it has every
\* set whose proper subsets it has.
LEMMA SubsetInduction ==
    ASSUME NEW S, IsFiniteSet(S), NEW P,
           \A T \in SUBSET S : (\A U \in SUBSET T : U # T => U \in P) => T \in P
    PROVE  \A T \in SUBSET S : T \in P
<1> DEFINE B == {T \in SUBSET S : T \notin P}
<1> SUFFICES ASSUME B # {} PROVE FALSE
  OBVIOUS
<1>1. B \subseteq SUBSET S
  OBVIOUS
<1> HIDE DEF B
<1>2. PICK T \in B : \A U \in B : U \subseteq T => U = T
  BY <1>1, MinimalSubset
<1>3. T \in SUBSET S /\ T \notin P
  BY DEF B
<1>4. ASSUME NEW U \in SUBSET T, U # T PROVE U \in P
  BY <1>2, <1>3, <1>4 DEF B
<1> QED
  BY <1>3, <1>4

\* The element that the recursion takes out of a set next.
Pick(s) == CHOOSE x \in s : TRUE

\* g is what the recursion for the sum of f computes on the subsets of S.
SumsOn(g, f, S) ==
    g = [s \in SUBSET S |-> IF s = {} THEN 0 ELSE f[Pick(s)] + g[s \ {Pick(s)}]]

\* The library's sum is the value at S of the function the recursion defines.
LEMMA SumUnfold ==
    ASSUME NEW f, NEW S
    PROVE  SumFunctionOnSet(f, S) = (CHOOSE g : SumsOn(g, f, S))[S]
BY DEF SumFunctionOnSet, FoldFunctionOnSet, MapThenFoldSet, SumsOn, Pick

\* What is picked is an element, and what is left is a proper subset.
LEMMA PickIsElement ==
    ASSUME NEW s, s # {}
    PROVE  Pick(s) \in s /\ s \ {Pick(s)} \in SUBSET s /\ s \ {Pick(s)} # s
<1>1. Pick(s) \in s
  BY DEF Pick
<1> QED
  BY <1>1

\* There is at most one such function, whatever the set it is defined for.
LEMMA SumsAgree ==
    ASSUME NEW f, NEW S, IsFiniteSet(S), NEW T \in SUBSET S, NEW g, SumsOn(g, f, S),
           NEW h, SumsOn(h, f, T)
    PROVE  \A s \in SUBSET T : g[s] = h[s]
<1> DEFINE P == {s \in SUBSET T : g[s] = h[s]}
<1>1. IsFiniteSet(T)
  BY FS_Subset
<1>2. ASSUME NEW s \in SUBSET T, \A u \in SUBSET s : u # s => u \in P PROVE s \in P
  <2>1. CASE s = {}
    BY <2>1 DEF SumsOn
  <2>2. CASE s # {}
    <3> DEFINE r == s \ {Pick(s)}
    <3>1. r \in P
      BY <1>2, <2>2, PickIsElement
    <3>2. g[s] = f[Pick(s)] + g[r] /\ h[s] = f[Pick(s)] + h[r]
      BY <2>2 DEF SumsOn
    <3> HIDE DEF r
    <3> QED
      BY <3>1, <3>2
  <2> QED
    BY <2>1, <2>2
<1> HIDE DEF P
<1>3. \A s \in SUBSET T : s \in P
  BY <1>1, <1>2, SubsetInduction
<1> QED
  BY <1>3 DEF P

\* ... and there is one.
LEMMA SumsExist ==
    ASSUME NEW f, NEW S, IsFiniteSet(S)
    PROVE  \E g : SumsOn(g, f, S)
<1> DEFINE P == {U \in SUBSET S : \E g : SumsOn(g, f, U)}
           G(V) == CHOOSE g : SumsOn(g, f, V)
<1>1. ASSUME NEW U \in SUBSET S, \A V \in SUBSET U : V # U => V \in P PROVE U \in P
  <2> DEFINE h == [s \in SUBSET U |->
                     IF s = {} THEN 0 ELSE f[Pick(s)] + G(s \ {Pick(s)})[s \ {Pick(s)}]]
  <2>1. \A V \in SUBSET U : V # U => SumsOn(G(V), f, V) /\ IsFiniteSet(V)
    <3> TAKE V \in SUBSET U
    <3> HAVE V # U
    <3>1. \E g : SumsOn(g, f, V)
      BY <1>1
    <3>2. IsFiniteSet(V)
      BY FS_Subset
    <3> QED
      BY <3>1, <3>2
  <2> HIDE DEF G
  <2>2. ASSUME NEW V \in SUBSET U, V # U PROVE h[V] = G(V)[V]
    <3>1. CASE V = {}
      BY <2>1, <2>2, <3>1 DEF SumsOn
    <3>2. CASE V # {}
      <4> DEFINE W == V \ {Pick(V)}
      <4>1. W \in SUBSET V /\ W # V /\ W \in SUBSET U /\ W # U
        BY <2>2, <3>2, PickIsElement
      <4>2. G(V)[V] = f[Pick(V)] + G(V)[W]
        BY <2>1, <2>2, <3>2 DEF SumsOn
      <4>3. h[V] = f[Pick(V)] + G(W)[W]
        BY <3>2
      <4> HIDE DEF W
      <4>4. SumsOn(G(V), f, V) /\ SumsOn(G(W), f, W) /\ IsFiniteSet(V)
        BY <2>1, <2>2, <4>1
      <4>5. G(V)[W] = G(W)[W]
        BY <4>1, <4>4, SumsAgree
      <4> QED
        BY <4>2, <4>3, <4>5
    <3> QED
      BY <3>1, <3>2
  <2>3. ASSUME NEW s \in SUBSET U
        PROVE  h[s] = IF s = {} THEN 0 ELSE f[Pick(s)] + h[s \ {Pick(s)}]
    <3>1. CASE s = {}
      BY <3>1
    <3>2. CASE s # {}
      <4>1. s \ {Pick(s)} \in SUBSET U /\ s \ {Pick(s)} # U
        BY <3>2, PickIsElement
      <4>2. h[s] = f[Pick(s)] + G(s \ {Pick(s)})[s \ {Pick(s)}]
        BY <3>2
      <4> HIDE DEF h
      <4> QED
        BY <2>2, <3>2, <4>1, <4>2
    <3> QED
      BY <3>1, <3>2
  <2>4. h = [s \in SUBSET U |-> h[s]]
    OBVIOUS
  <2> HIDE DEF h
  <2>5. SumsOn(h, f, U)
    BY <2>3, <2>4 DEF SumsOn
  <2> QED
    BY <2>5
<1> HIDE DEF P
<1>2. S \in P
  BY <1>1, SubsetInduction
<1> QED
  BY <1>2 DEF P

-----------------------------------------------------------------------------
(* What the other proofs use. *)

\* The empty sum is 0.
LEMMA SumEmpty ==
    ASSUME NEW f
    PROVE  SumFunctionOnSet(f, {}) = 0
<1>1. IsFiniteSet({})
  BY FS_EmptySet
<1>2. SumsOn(CHOOSE g : SumsOn(g, f, {}), f, {})
  BY <1>1, SumsExist
<1> QED
  BY <1>2, SumUnfold DEF SumsOn

\* A non-empty sum is the picked value and the sum of the rest.
LEMMA SumPick ==
    ASSUME NEW f, NEW S, IsFiniteSet(S), S # {}
    PROVE  SumFunctionOnSet(f, S) = f[Pick(S)] + SumFunctionOnSet(f, S \ {Pick(S)})
<1> DEFINE T == S \ {Pick(S)}
           g == CHOOSE x : SumsOn(x, f, S)
           h == CHOOSE x : SumsOn(x, f, T)
<1>1. T \in SUBSET S /\ IsFiniteSet(T)
  BY FS_Subset
<1>2. SumsOn(g, f, S) /\ SumsOn(h, f, T)
  BY <1>1, SumsExist
<1>3. SumFunctionOnSet(f, S) = g[S] /\ SumFunctionOnSet(f, T) = h[T]
  BY SumUnfold
<1> HIDE DEF g, h
<1>4. g[S] = f[Pick(S)] + g[T]
  BY <1>2 DEF SumsOn
<1> HIDE DEF T
<1>5. g[T] = h[T]
  BY <1>1, <1>2, SumsAgree
<1> QED
  BY <1>3, <1>4, <1>5 DEF T

\* A sum of integers is an integer.
LEMMA SumType ==
    ASSUME NEW f, NEW S, IsFiniteSet(S), \A x \in S : f[x] \in Int
    PROVE  SumFunctionOnSet(f, S) \in Int
<1> DEFINE P == {T \in SUBSET S : SumFunctionOnSet(f, T) \in Int}
<1>1. ASSUME NEW T \in SUBSET S, \A U \in SUBSET T : U # T => U \in P PROVE T \in P
  <2>1. CASE T = {}
    BY <2>1, SumEmpty
  <2>2. CASE T # {}
    <3>1. Pick(T) \in S /\ T \ {Pick(T)} \in P
      BY <1>1, <2>2, PickIsElement
    <3>2. IsFiniteSet(T)
      BY FS_Subset
    <3>3. SumFunctionOnSet(f, T) = f[Pick(T)] + SumFunctionOnSet(f, T \ {Pick(T)})
      BY <2>2, <3>2, SumPick
    <3> QED
      BY <3>1, <3>3
  <2> QED
    BY <2>1, <2>2
<1> HIDE DEF P
<1>2. S \in P
  BY <1>1, SubsetInduction
<1> QED
  BY <1>2 DEF P

\* Any element may be taken out first.
LEMMA SumRemove ==
    ASSUME NEW f, NEW S, IsFiniteSet(S), \A x \in S : f[x] \in Int, NEW x \in S
    PROVE  SumFunctionOnSet(f, S) = f[x] + SumFunctionOnSet(f, S \ {x})
<1> DEFINE P == {T \in SUBSET S :
                   \A y \in T : SumFunctionOnSet(f, T) = f[y] + SumFunctionOnSet(f, T \ {y})}
<1>1. ASSUME NEW T \in SUBSET S, \A U \in SUBSET T : U # T => U \in P PROVE T \in P
  <2> SUFFICES ASSUME NEW y \in T
               PROVE  SumFunctionOnSet(f, T) = f[y] + SumFunctionOnSet(f, T \ {y})
    OBVIOUS
  <2> DEFINE c == Pick(T)
  <2>1. c \in T /\ IsFiniteSet(T) /\ IsFiniteSet(T \ {c}) /\ IsFiniteSet((T \ {c}) \ {y})
    BY PickIsElement, FS_Subset
  <2>2. SumFunctionOnSet(f, T) = f[c] + SumFunctionOnSet(f, T \ {c})
    BY <2>1, SumPick
  <2> HIDE DEF c
  <2>3. CASE c = y
    BY <2>2, <2>3
  <2>4. CASE c # y
    <3>1. T \ {c} \in P /\ T \ {y} \in P
      BY <1>1, <2>1
    <3>2. SumFunctionOnSet(f, T \ {c}) = f[y] + SumFunctionOnSet(f, (T \ {c}) \ {y})
      BY <2>4, <3>1
    <3>3. SumFunctionOnSet(f, T \ {y}) = f[c] + SumFunctionOnSet(f, (T \ {y}) \ {c})
      BY <2>1, <2>4, <3>1
    <3>4. (T \ {y}) \ {c} = (T \ {c}) \ {y}
      OBVIOUS
    <3>5. SumFunctionOnSet(f, (T \ {c}) \ {y}) \in Int
      BY <2>1, SumType
    <3>6. f[y] \in Int /\ f[c] \in Int
      BY <2>1
    <3>7. SumFunctionOnSet(f, T \ {y}) = f[c] + SumFunctionOnSet(f, (T \ {c}) \ {y})
      BY <3>3, <3>4
    <3> HIDE DEF P
    <3> QED
      BY <2>2, <3>2, <3>5, <3>6, <3>7
  <2> QED
    BY <2>3, <2>4
<1> HIDE DEF P
<1>2. S \in P
  BY <1>1, SubsetInduction
<1> QED
  BY <1>2 DEF P

\* The sum of a function that is the sum of two others.
LEMMA SumAdd ==
    ASSUME NEW f, NEW g, NEW h, NEW S, IsFiniteSet(S),
           \A x \in S : f[x] \in Int /\ g[x] \in Int /\ h[x] = f[x] + g[x]
    PROVE  SumFunctionOnSet(h, S) = SumFunctionOnSet(f, S) + SumFunctionOnSet(g, S)
<1> DEFINE P == {T \in SUBSET S :
                   SumFunctionOnSet(h, T) = SumFunctionOnSet(f, T) + SumFunctionOnSet(g, T)}
<1>1. ASSUME NEW T \in SUBSET S, \A U \in SUBSET T : U # T => U \in P PROVE T \in P
  <2>1. CASE T = {}
    BY <2>1, SumEmpty
  <2>2. CASE T # {}
    <3> DEFINE c == Pick(T)
               V == T \ {c}
    <3>1. c \in S /\ V \in P /\ IsFiniteSet(T) /\ IsFiniteSet(V)
      BY <1>1, <2>2, PickIsElement, FS_Subset
    <3>2. /\ SumFunctionOnSet(f, T) = f[c] + SumFunctionOnSet(f, V)
          /\ SumFunctionOnSet(g, T) = g[c] + SumFunctionOnSet(g, V)
          /\ SumFunctionOnSet(h, T) = h[c] + SumFunctionOnSet(h, V)
      BY <2>2, <3>1, SumPick
    <3>3. SumFunctionOnSet(f, V) \in Int /\ SumFunctionOnSet(g, V) \in Int
      BY <3>1, SumType
    <3>4. SumFunctionOnSet(h, V) = SumFunctionOnSet(f, V) + SumFunctionOnSet(g, V)
      BY <3>1
    <3> HIDE DEF c, V
    <3> QED
      BY <3>1, <3>2, <3>3, <3>4
  <2> QED
    BY <2>1, <2>2
<1> HIDE DEF P
<1>2. S \in P
  BY <1>1, SubsetInduction
<1> QED
  BY <1>2 DEF P

\* The sum looks at the function on the set only.
LEMMA SumSame ==
    ASSUME NEW f, NEW g, NEW S, IsFiniteSet(S), \A x \in S : f[x] = g[x]
    PROVE  SumFunctionOnSet(f, S) = SumFunctionOnSet(g, S)
<1> DEFINE P == {T \in SUBSET S : SumFunctionOnSet(f, T) = SumFunctionOnSet(g, T)}
<1>1. ASSUME NEW T \in SUBSET S, \A U \in SUBSET T : U # T => U \in P PROVE T \in P
  <2>1. CASE T = {}
    BY <2>1, SumEmpty
  <2>2. CASE T # {}
    <3>1. Pick(T) \in S /\ T \ {Pick(T)} \in P /\ IsFiniteSet(T)
      BY <1>1, <2>2, PickIsElement, FS_Subset
    <3>2. /\ SumFunctionOnSet(f, T) = f[Pick(T)] + SumFunctionOnSet(f, T \ {Pick(T)})
          /\ SumFunctionOnSet(g, T) = g[Pick(T)] + SumFunctionOnSet(g, T \ {Pick(T)})
      BY <2>2, <3>1, SumPick
    <3> QED
      BY <3>1, <3>2
  <2> QED
    BY <2>1, <2>2
<1> HIDE DEF P
<1>2. S \in P
  BY <1>1, SubsetInduction
<1> QED
  BY <1>2 DEF P

\* A sum of zeros is 0.
LEMMA SumZero ==
    ASSUME NEW f, NEW S, IsFiniteSet(S), \A x \in S : f[x] = 0
    PROVE  SumFunctionOnSet(f, S) = 0
<1>1. SumFunctionOnSet(f, S) = SumFunctionOnSet(f, S) + SumFunctionOnSet(f, S)
  BY SumAdd
<1>2. SumFunctionOnSet(f, S) \in Int
  BY SumType
<1>3. \A m, n \in Int : m = n + n /\ m = n => n = 0
  OBVIOUS
<1> QED
  BY <1>1, <1>2, <1>3, Zenon

\* The sum of the negated values is the negated sum.
LEMMA SumNegative ==
    ASSUME NEW f, NEW g, NEW S, IsFiniteSet(S), \A x \in S : f[x] \in Int /\ g[x] = -f[x]
    PROVE  SumFunctionOnSet(g, S) = -SumFunctionOnSet(f, S)
<1> DEFINE z == [x \in S |-> 0]
<1>1. SumFunctionOnSet(z, S) = SumFunctionOnSet(f, S) + SumFunctionOnSet(g, S)
  <2>1. \A x \in S : f[x] \in Int /\ g[x] \in Int /\ z[x] = f[x] + g[x]
    OBVIOUS
  <2> HIDE DEF z
  <2> QED
    BY <2>1, SumAdd
<1>2. SumFunctionOnSet(z, S) = 0
  <2>1. \A x \in S : z[x] = 0
    OBVIOUS
  <2> HIDE DEF z
  <2> QED
    BY <2>1, SumZero
<1>3. SumFunctionOnSet(f, S) \in Int /\ SumFunctionOnSet(g, S) \in Int
  BY SumType
<1> QED
  BY <1>1, <1>2, <1>3

\* The sum over two disjoint sets.
LEMMA SumDisjoint ==
    ASSUME NEW f, NEW S, NEW T, IsFiniteSet(S), IsFiniteSet(T), S \cap T = {},
           \A x \in S \cup T : f[x] \in Int
    PROVE  SumFunctionOnSet(f, S \cup T) = SumFunctionOnSet(f, S) + SumFunctionOnSet(f, T)
<1> DEFINE P == {U \in SUBSET S :
                   SumFunctionOnSet(f, U \cup T) = SumFunctionOnSet(f, U) + SumFunctionOnSet(f, T)}
<1>1. SumFunctionOnSet(f, T) \in Int
  BY SumType
<1>2. ASSUME NEW U \in SUBSET S, \A V \in SUBSET U : V # U => V \in P PROVE U \in P
  <2>1. CASE U = {}
    <3>1. U \cup T = T
      BY <2>1
    <3> QED
      BY <1>1, <2>1, <3>1, SumEmpty
  <2>2. CASE U # {}
    <3> DEFINE c == Pick(U)
               V == U \ {c}
    <3>1. c \in U /\ V \in P
      BY <1>2, <2>2, PickIsElement
    <3>7. IsFiniteSet(U) /\ IsFiniteSet(V)
      BY FS_Subset
    <3>8. IsFiniteSet(U \cup T)
      BY <3>7, FS_Union
    <3>2. SumFunctionOnSet(f, U) = f[c] + SumFunctionOnSet(f, V)
      BY <3>1, <3>7, SumRemove
    <3>3. SumFunctionOnSet(f, U \cup T) = f[c] + SumFunctionOnSet(f, (U \cup T) \ {c})
      BY <3>1, <3>8, SumRemove
    <3>4. (U \cup T) \ {c} = V \cup T
      BY <3>1
    <3>5. SumFunctionOnSet(f, V \cup T) = SumFunctionOnSet(f, V) + SumFunctionOnSet(f, T)
      BY <3>1
    <3>6. SumFunctionOnSet(f, V) \in Int /\ f[c] \in Int
      BY <3>1, <3>7, SumType
    <3> HIDE DEF c, V
    <3>9. SumFunctionOnSet(f, U \cup T) = f[c] + SumFunctionOnSet(f, V \cup T)
      BY <3>3, <3>4
    <3>10. SumFunctionOnSet(f, U \cup T) = SumFunctionOnSet(f, U) + SumFunctionOnSet(f, T)
      BY <1>1, <3>2, <3>5, <3>6, <3>9
    <3> QED
      BY <3>10
  <2> QED
    BY <2>1, <2>2
<1> HIDE DEF P
<1>3. S \in P
  BY <1>2, SubsetInduction
<1> QED
  BY <1>3 DEF P

\* Elements at which the function is zero may be left out.
LEMMA SumSupport ==
    ASSUME NEW f, NEW S, IsFiniteSet(S), NEW T \in SUBSET S, \A x \in T : f[x] \in Int,
           \A x \in S \ T : f[x] = 0
    PROVE  SumFunctionOnSet(f, S) = SumFunctionOnSet(f, T)
<1>1. IsFiniteSet(T) /\ IsFiniteSet(S \ T) /\ S = (S \ T) \cup T
  BY FS_Subset
<1>2. SumFunctionOnSet(f, (S \ T) \cup T) = SumFunctionOnSet(f, S \ T) + SumFunctionOnSet(f, T)
  BY <1>1, SumDisjoint
<1>3. SumFunctionOnSet(f, S \ T) = 0 /\ SumFunctionOnSet(f, T) \in Int
  BY <1>1, SumZero, SumType
<1> QED
  BY <1>1, <1>2, <1>3

\* A sum of naturals is a natural.
LEMMA SumNatural ==
    ASSUME NEW f, NEW S, IsFiniteSet(S), \A x \in S : f[x] \in Nat
    PROVE  SumFunctionOnSet(f, S) \in Nat
<1> DEFINE P == {T \in SUBSET S : SumFunctionOnSet(f, T) \in Nat}
<1>1. ASSUME NEW T \in SUBSET S, \A U \in SUBSET T : U # T => U \in P PROVE T \in P
  <2>1. CASE T = {}
    BY <2>1, SumEmpty
  <2>2. CASE T # {}
    <3>1. Pick(T) \in S /\ T \ {Pick(T)} \in P /\ IsFiniteSet(T)
      BY <1>1, <2>2, PickIsElement, FS_Subset
    <3>2. SumFunctionOnSet(f, T) = f[Pick(T)] + SumFunctionOnSet(f, T \ {Pick(T)})
      BY <2>2, <3>1, SumPick
    <3> QED
      BY <3>1, <3>2
  <2> QED
    BY <2>1, <2>2
<1> HIDE DEF P
<1>2. S \in P
  BY <1>1, SubsetInduction
<1> QED
  BY <1>2 DEF P

\* The sum of a function over its domain is the sum of any other that has the
\* same values there.
LEMMA SumOfValues ==
    ASSUME NEW S, IsFiniteSet(S), NEW f, DOMAIN f = S, NEW g, \A x \in S : f[x] = g[x]
    PROVE  SumFunction(f) = SumFunctionOnSet(g, S)
BY SumSame DEF SumFunction

\* The sum of a function that is zero but at one place is its value there.
LEMMA SumSingle ==
    ASSUME NEW f, NEW S, IsFiniteSet(S), NEW x \in S, f[x] \in Int, \A y \in S \ {x} : f[y] = 0
    PROVE  SumFunctionOnSet(f, S) = f[x]
<1>1. \A y \in S : f[y] \in Int
  OBVIOUS
<1>2. SumFunctionOnSet(f, S) = f[x] + SumFunctionOnSet(f, S \ {x})
  BY <1>1, SumRemove
<1>3. IsFiniteSet(S \ {x})
  BY FS_Subset
<1>4. SumFunctionOnSet(f, S \ {x}) = 0
  BY <1>3, SumZero
<1> QED
  BY <1>2, <1>4

=============================================================================
