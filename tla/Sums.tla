-------------------------------- MODULE Sums --------------------------------
(***************************************************************************)
(* What the sum of a function over a finite set is, whatever order the     *)
(* library's fold takes the elements in.  The induction goes over a set of *)
(* subsets that are already known to be good, so that it can be cited.     *)
(***************************************************************************)
EXTENDS Integers, FiniteSets, Functions, FiniteSetTheorems, WellFoundedInduction, TLAPS

-----------------------------------------------------------------------------
(* Induction over the subsets of a finite set *)

\* When a set is good as soon as everything smaller is, every subset is good.
LEMMA SubsetInduction ==
  ASSUME NEW S, IsFiniteSet(S), NEW Good,
         \A T \in SUBSET S : (\A R \in SUBSET T : R # T => R \in Good) => T \in Good
  PROVE  \A T \in SUBSET S : T \in Good
<1> DEFINE Bad == {T \in SUBSET S : T \notin Good}
<1>1. SUFFICES ASSUME Bad # {} PROVE FALSE
  OBVIOUS
<1>2. IsWellFoundedOn(StrictSubsetOrdering(S), SUBSET S)
  BY FS_StrictSubsetOrderingWellFounded, FS_FiniteSubsetsOfFinite
<1>3. Bad \subseteq SUBSET S
  OBVIOUS
<1>4. \E T \in Bad : \A R \in Bad : <<R, T>> \notin StrictSubsetOrdering(S)
  <2> HIDE DEF Bad
  <2> QED
    BY <1>1, <1>2, <1>3, WFMin
<1>5. PICK T \in Bad : \A R \in Bad : <<R, T>> \notin StrictSubsetOrdering(S)
  BY <1>4
<1>6. \A R \in SUBSET T : R # T => R \in Good
  BY <1>5 DEF StrictSubsetOrdering
<1> QED
  BY <1>5, <1>6

-----------------------------------------------------------------------------
(* The recursive function behind the fold *)

Pick(s) == CHOOSE x \in s : TRUE

SumsOf(g, f, S) ==
  g = [s \in SUBSET S |-> IF s = {} THEN 0 ELSE f[Pick(s)] + g[s \ {Pick(s)}]]

LEMMA PickIn == \A s : s # {} => Pick(s) \in s
BY DEF Pick

\* Two of them agree wherever both are defined.
LEMMA SumsAgree ==
  ASSUME NEW f, NEW S, NEW T, IsFiniteSet(S), T \subseteq S,
         NEW g, SumsOf(g, f, S), NEW h, SumsOf(h, f, T)
  PROVE  \A s \in SUBSET T : g[s] = h[s]
<1> DEFINE Good == {s \in SUBSET T : g[s] = h[s]}
<1>1. IsFiniteSet(T)
  BY FS_Subset
<1>2. ASSUME NEW s \in SUBSET T, \A r \in SUBSET s : r # s => r \in Good
      PROVE  s \in Good
  <2>1. /\ g[s] = IF s = {} THEN 0 ELSE f[Pick(s)] + g[s \ {Pick(s)}]
        /\ h[s] = IF s = {} THEN 0 ELSE f[Pick(s)] + h[s \ {Pick(s)}]
    BY DEF SumsOf
  <2>2. CASE s = {}
    BY <2>1, <2>2
  <2>3. CASE s # {}
    BY <2>1, <2>3, <1>2, PickIn
  <2> QED
    BY <2>2, <2>3
<1>3. \A s \in SUBSET T : s \in Good
  <2> HIDE DEF Good
  <2> QED
    BY <1>1, <1>2, SubsetInduction
<1> QED
  BY <1>3

\* There is one.
LEMMA SumsExist ==
  ASSUME NEW f, NEW S, IsFiniteSet(S)
  PROVE  \E g : SumsOf(g, f, S)
<1> DEFINE Good == {T \in SUBSET S : \E g : SumsOf(g, f, T)}
<1>1. ASSUME NEW T \in SUBSET S, \A R \in SUBSET T : R # T => R \in Good
      PROVE  T \in Good
  <2> DEFINE h == [R \in (SUBSET T) \ {T} |-> CHOOSE g : SumsOf(g, f, R)]
             k == [R \in SUBSET T |->
                     IF R = {} THEN 0
                     ELSE IF R # T THEN h[R][R]
                     ELSE f[Pick(T)] + h[T \ {Pick(T)}][T \ {Pick(T)}]]
  <2>1. \A R \in (SUBSET T) \ {T} : SumsOf(h[R], f, R)
    <3> TAKE R \in (SUBSET T) \ {T}
    <3>1. \E g : SumsOf(g, f, R)
      BY <1>1
    <3>2. SumsOf(CHOOSE g : SumsOf(g, f, R), f, R)
      <4> HIDE DEF h, k
      <4> QED BY <3>1, Zenon
    <3> QED
      BY <3>2
  <2>2. \A R \in SUBSET T : R # {} => (R \ {Pick(R)}) \in (SUBSET T) \ {T} /\ R \ {Pick(R)} # R
    BY PickIn
  <2>3. \A R \in (SUBSET T) \ {T} : IsFiniteSet(R)
    BY FS_Subset
  <2> HIDE DEF h
  <2>4. ASSUME NEW R \in (SUBSET T) \ {T}, R # {}
        PROVE  k[R] = f[Pick(R)] + k[R \ {Pick(R)}]
    <3> DEFINE P == R \ {Pick(R)}
    <3>1. P \in (SUBSET T) \ {T} /\ P \in SUBSET R
      BY <2>2, <2>4
    <3>2. h[R][P] = h[P][P]
      <4>1. IsFiniteSet(R) /\ SumsOf(h[R], f, R) /\ SumsOf(h[P], f, P) /\ P \subseteq R
        BY <3>1, <2>1, <2>3
      <4> HIDE DEF P, k
      <4>2. \A s \in SUBSET P : h[R][s] = h[P][s]
        BY <4>1, SumsAgree
      <4> QED
        BY <4>2
    <3>3. h[R][R] = f[Pick(R)] + h[R][P]
      BY <2>1, <2>4 DEF SumsOf
    <3>4. k[P] = h[P][P]
      <4>1. CASE P = {}
        <5>1. h[P][P] = 0
          BY <2>1, <3>1, <4>1 DEF SumsOf
        <5> QED BY <4>1, <5>1
      <4>2. CASE P # {}
        BY <3>1, <4>2
      <4> QED BY <4>1, <4>2
    <3> QED
      BY <3>2, <3>3, <3>4, <2>4
  <2>5. ASSUME T # {}
        PROVE  k[T] = f[Pick(T)] + k[T \ {Pick(T)}]
    <3> DEFINE P == T \ {Pick(T)}
    <3>1. P \in (SUBSET T) \ {T}
      BY <2>2, <2>5
    <3>2. k[P] = h[P][P]
      <4>1. CASE P = {}
        <5>1. h[P][P] = 0
          BY <2>1, <3>1, <4>1 DEF SumsOf
        <5> QED BY <4>1, <5>1
      <4>2. CASE P # {}
        BY <3>1, <4>2
      <4> QED BY <4>1, <4>2
    <3> QED
      BY <3>2, <2>5
  <2>6. k[{}] = 0
    OBVIOUS
  <2>7. \A R \in SUBSET T : k[R] = IF R = {} THEN 0 ELSE f[Pick(R)] + k[R \ {Pick(R)}]
    <3> HIDE DEF k
    <3> QED BY <2>4, <2>5, <2>6
  <2>8. SumsOf(k, f, T)
    <3>1. k = [R \in SUBSET T |-> k[R]]
      OBVIOUS
    <3> HIDE DEF k
    <3> QED BY <2>7, <3>1 DEF SumsOf
  <2> QED
    BY <2>8
<1>2. S \in Good
  <2> HIDE DEF Good
  <2> QED
    BY <1>1, SubsetInduction
<1> QED
  BY <1>2

LEMMA SumIs ==
  ASSUME NEW f, NEW S, IsFiniteSet(S), NEW g, SumsOf(g, f, S)
  PROVE  SumFunctionOnSet(f, S) = g[S]
<1>1. SumFunctionOnSet(f, S) = (CHOOSE h : SumsOf(h, f, S))[S]
  BY DEF SumFunctionOnSet, FoldFunctionOnSet, MapThenFoldSet, SumsOf, Pick
<1>2. SumsOf(CHOOSE h : SumsOf(h, f, S), f, S)
  BY SumsExist, Zenon
<1> QED
  BY <1>1, <1>2, SumsAgree

-----------------------------------------------------------------------------
(* Sums of integers *)

Ints(f, S) == \A x \in S : f[x] \in Int

LEMMA SumEmpty == ASSUME NEW f PROVE SumFunctionOnSet(f, {}) = 0
<1>1. PICK g : SumsOf(g, f, {})
  BY SumsExist, FS_EmptySet
<1>2. g[{}] = 0
  BY <1>1 DEF SumsOf
<1> QED
  BY <1>1, <1>2, SumIs, FS_EmptySet

\* The sums of all subsets, in one function.
LEMMA SumUnfold ==
  ASSUME NEW f, NEW S, IsFiniteSet(S), S # {}
  PROVE  /\ Pick(S) \in S
         /\ SumFunctionOnSet(f, S) = f[Pick(S)] + SumFunctionOnSet(f, S \ {Pick(S)})
<1>1. PICK g : SumsOf(g, f, S)
  BY SumsExist
<1> DEFINE R == S \ {Pick(S)}
<1>2. IsFiniteSet(R)
  BY FS_Subset
<1>3. PICK h : SumsOf(h, f, R)
  BY <1>2, SumsExist
<1>4. g[R] = h[R]
  <2>1. R \subseteq S
    OBVIOUS
  <2> HIDE DEF R
  <2> QED
    BY <1>1, <1>3, <2>1, SumsAgree
<1>5. SumFunctionOnSet(f, R) = g[R]
  <2> HIDE DEF R
  <2> QED
    BY <1>2, <1>3, <1>4, SumIs
<1>6. SumFunctionOnSet(f, S) = g[S]
  BY <1>1, SumIs
<1>7. g[S] = f[Pick(S)] + g[R]
  BY <1>1 DEF SumsOf
<1> QED
  BY <1>5, <1>6, <1>7, PickIn

LEMMA SumInt ==
  ASSUME NEW f, NEW S, IsFiniteSet(S), Ints(f, S)
  PROVE  SumFunctionOnSet(f, S) \in Int
<1> DEFINE Good == {T \in SUBSET S : SumFunctionOnSet(f, T) \in Int}
<1>1. ASSUME NEW T \in SUBSET S, \A R \in SUBSET T : R # T => R \in Good
      PROVE  T \in Good
  <2>1. CASE T = {}
    BY <2>1, SumEmpty
  <2>2. CASE T # {}
    <3>1. IsFiniteSet(T)
      BY FS_Subset
    <3>2. /\ Pick(T) \in T
          /\ SumFunctionOnSet(f, T) = f[Pick(T)] + SumFunctionOnSet(f, T \ {Pick(T)})
      BY <2>2, <3>1, SumUnfold
    <3>3. T \ {Pick(T)} \in Good
      BY <1>1, <3>2
    <3> QED
      BY <3>2, <3>3 DEF Ints
  <2> QED
    BY <2>1, <2>2
<1>2. S \in Good
  <2> HIDE DEF Good
  <2> QED
    BY <1>1, SubsetInduction
<1> QED
  BY <1>2

\* Any element may be taken out.
LEMMA SumOut ==
  ASSUME NEW f, NEW S, IsFiniteSet(S), Ints(f, S), NEW x \in S
  PROVE  SumFunctionOnSet(f, S) = f[x] + SumFunctionOnSet(f, S \ {x})
<1> DEFINE Good == {T \in SUBSET S : \A y \in T :
                      SumFunctionOnSet(f, T) = f[y] + SumFunctionOnSet(f, T \ {y})}
<1>1. ASSUME NEW T \in SUBSET S, \A R \in SUBSET T : R # T => R \in Good
      PROVE  T \in Good
  <2> SUFFICES ASSUME NEW y \in T
               PROVE  SumFunctionOnSet(f, T) = f[y] + SumFunctionOnSet(f, T \ {y})
    OBVIOUS
  <2> DEFINE c == Pick(T)
  <2>1. IsFiniteSet(T)
    BY FS_Subset
  <2>2. c \in T /\ SumFunctionOnSet(f, T) = f[c] + SumFunctionOnSet(f, T \ {c})
    BY <2>1, SumUnfold
  <2> HIDE DEF c
  <2>3. CASE c = y
    BY <2>2, <2>3
  <2>4. CASE c # y
    <3> DEFINE R == T \ {c}  Q == T \ {y}  P == (T \ {c}) \ {y}
    <3>1. R \in Good /\ Q \in Good
      BY <1>1, <2>2
    <3>2. SumFunctionOnSet(f, R) = f[y] + SumFunctionOnSet(f, P)
      BY <3>1, <2>4
    <3>3. Q \ {c} = P
      OBVIOUS
    <3>4. SumFunctionOnSet(f, Q) = f[c] + SumFunctionOnSet(f, P)
      BY <3>1, <3>3, <2>2, <2>4
    <3>5. IsFiniteSet(P) /\ Ints(f, P)
      BY <2>1, FS_Subset DEF Ints
    <3>6. SumFunctionOnSet(f, P) \in Int
      <4> HIDE DEF P
      <4> QED BY <3>5, SumInt
    <3>7. f[c] \in Int /\ f[y] \in Int
      BY <2>2 DEF Ints
    <3> HIDE DEF R, Q, P
    <3> QED
      BY <2>2, <3>2, <3>4, <3>6, <3>7 DEF R, Q
  <2> QED
    BY <2>3, <2>4
<1>2. S \in Good
  <2> HIDE DEF Good
  <2> QED
    BY <1>1, SubsetInduction
<1> QED
  BY <1>2

LEMMA SumIn ==
  ASSUME NEW f, NEW S, IsFiniteSet(S), NEW x, x \notin S, Ints(f, S), f[x] \in Int
  PROVE  SumFunctionOnSet(f, S \cup {x}) = SumFunctionOnSet(f, S) + f[x]
<1> DEFINE T == S \cup {x}
<1>1. IsFiniteSet(T)
  BY FS_AddElement
<1>2. Ints(f, T) /\ x \in T /\ T \ {x} = S
  BY DEF Ints
<1>3. SumFunctionOnSet(f, T) = f[x] + SumFunctionOnSet(f, T \ {x})
  <2> HIDE DEF T
  <2> QED BY <1>1, <1>2, SumOut
<1>4. SumFunctionOnSet(f, S) \in Int
  BY SumInt
<1>5. SumFunctionOnSet(f, T) = SumFunctionOnSet(f, S) + f[x]
  <2>1. SumFunctionOnSet(f, T \ {x}) = SumFunctionOnSet(f, S)
    <3> HIDE DEF T
    <3> QED BY <1>2, Zenon
  <2> HIDE DEF T
  <2> QED BY <2>1, <1>3, <1>4
<1> QED
  BY <1>5

\* Functions that agree on a set have one sum.
LEMMA SumSame ==
  ASSUME NEW f, NEW g, NEW S, IsFiniteSet(S), \A x \in S : f[x] = g[x]
  PROVE  SumFunctionOnSet(f, S) = SumFunctionOnSet(g, S)
<1> DEFINE Good == {T \in SUBSET S : SumFunctionOnSet(f, T) = SumFunctionOnSet(g, T)}
<1>1. ASSUME NEW T \in SUBSET S, \A R \in SUBSET T : R # T => R \in Good
      PROVE  T \in Good
  <2>1. CASE T = {}
    BY <2>1, SumEmpty
  <2>2. CASE T # {}
    <3>1. IsFiniteSet(T)
      BY FS_Subset
    <3>2. /\ Pick(T) \in T
          /\ SumFunctionOnSet(f, T) = f[Pick(T)] + SumFunctionOnSet(f, T \ {Pick(T)})
          /\ SumFunctionOnSet(g, T) = g[Pick(T)] + SumFunctionOnSet(g, T \ {Pick(T)})
      BY <2>2, <3>1, SumUnfold
    <3>3. T \ {Pick(T)} \in Good
      BY <1>1, <3>2
    <3> QED
      BY <3>2, <3>3
  <2> QED
    BY <2>1, <2>2
<1>2. S \in Good
  <2> HIDE DEF Good
  <2> QED
    BY <1>1, SubsetInduction
<1> QED
  BY <1>2

\* One term is replaced.
LEMMA SumChange ==
  ASSUME NEW f, NEW g, NEW S, IsFiniteSet(S), Ints(f, S), NEW x \in S, g[x] \in Int,
         \A y \in S : y # x => g[y] = f[y]
  PROVE  SumFunctionOnSet(g, S) = SumFunctionOnSet(f, S) - f[x] + g[x]
<1> DEFINE R == S \ {x}
<1>1. IsFiniteSet(R) /\ Ints(f, R) /\ Ints(g, S)
  BY FS_Subset DEF Ints
<1>2. /\ SumFunctionOnSet(f, S) = f[x] + SumFunctionOnSet(f, R)
      /\ SumFunctionOnSet(g, S) = g[x] + SumFunctionOnSet(g, R)
  BY <1>1, SumOut
<1>3. SumFunctionOnSet(f, R) = SumFunctionOnSet(g, R)
  <2>1. \A y \in R : f[y] = g[y]
    OBVIOUS
  <2> HIDE DEF R
  <2> QED BY <1>1, <2>1, SumSame
<1>4. SumFunctionOnSet(f, R) \in Int /\ f[x] \in Int
  <2>1. f[x] \in Int
    BY DEF Ints
  <2> HIDE DEF R
  <2> QED BY <1>1, <2>1, SumInt
<1> HIDE DEF R
<1> QED
  BY <1>2, <1>3, <1>4

LEMMA SumUnion ==
  ASSUME NEW f, NEW S, NEW T, IsFiniteSet(S), IsFiniteSet(T), S \cap T = {},
         Ints(f, S), Ints(f, T)
  PROVE  SumFunctionOnSet(f, S \cup T) = SumFunctionOnSet(f, S) + SumFunctionOnSet(f, T)
<1> DEFINE Good == {R \in SUBSET T :
              SumFunctionOnSet(f, S \cup R) = SumFunctionOnSet(f, S) + SumFunctionOnSet(f, R)}
<1>0. SumFunctionOnSet(f, S) \in Int
  BY SumInt
<1>1. ASSUME NEW R \in SUBSET T, \A Q \in SUBSET R : Q # R => Q \in Good
      PROVE  R \in Good
  <2>1. CASE R = {}
    <3>1. SumFunctionOnSet(f, R) = 0
      BY <2>1, SumEmpty
    <3>2. SumFunctionOnSet(f, S \cup R) = SumFunctionOnSet(f, S)
      <4>1. S \cup R = S
        BY <2>1
      <4> QED BY <4>1, Zenon
    <3> QED
      BY <1>0, <3>1, <3>2
  <2>2. CASE R # {}
    <3>0. PICK x \in R : TRUE
      BY <2>2
    <3> DEFINE Q == R \ {x}
    <3>1. Q \in Good
      BY <1>1, <3>0
    <3>2. IsFiniteSet(R) /\ IsFiniteSet(Q) /\ Ints(f, R) /\ Ints(f, Q)
      BY FS_Subset DEF Ints
    <3>3. IsFiniteSet(S \cup R) /\ Ints(f, S \cup R)
      BY <3>2, FS_Union DEF Ints
    <3>4. (S \cup R) \ {x} = S \cup Q
      BY <3>0
    <3>5. SumFunctionOnSet(f, S \cup R) = f[x] + SumFunctionOnSet(f, S \cup Q)
      <4>1. SumFunctionOnSet(f, S \cup R) = f[x] + SumFunctionOnSet(f, (S \cup R) \ {x})
        BY <3>0, <3>3, SumOut
      <4> QED BY <4>1, <3>4
    <3>6. SumFunctionOnSet(f, R) = f[x] + SumFunctionOnSet(f, Q)
      BY <3>0, <3>2, SumOut
    <3>7. f[x] \in Int /\ SumFunctionOnSet(f, Q) \in Int
      <4>1. f[x] \in Int
        BY <3>0 DEF Ints
      <4> HIDE DEF Q
      <4> QED BY <4>1, <3>2, SumInt
    <3>8. SumFunctionOnSet(f, S \cup Q) = SumFunctionOnSet(f, S) + SumFunctionOnSet(f, Q)
      BY <3>1
    <3> HIDE DEF Q
    <3>9. SumFunctionOnSet(f, S \cup R) = SumFunctionOnSet(f, S) + SumFunctionOnSet(f, R)
      BY <1>0, <3>5, <3>6, <3>7, <3>8
    <3> QED
      BY <3>9
  <2> QED
    BY <2>1, <2>2
<1>2. T \in Good
  <2> HIDE DEF Good
  <2> QED
    BY <1>1, SubsetInduction
<1> QED
  BY <1>2

\* What is larger term by term is larger.
LEMMA SumMonotone ==
  ASSUME NEW f, NEW g, NEW S, IsFiniteSet(S), Ints(f, S), Ints(g, S),
         \A x \in S : f[x] <= g[x]
  PROVE  SumFunctionOnSet(f, S) <= SumFunctionOnSet(g, S)
<1> DEFINE Good == {T \in SUBSET S : SumFunctionOnSet(f, T) <= SumFunctionOnSet(g, T)}
<1>1. ASSUME NEW T \in SUBSET S, \A R \in SUBSET T : R # T => R \in Good
      PROVE  T \in Good
  <2>1. CASE T = {}
    <3>1. SumFunctionOnSet(f, T) = 0 /\ SumFunctionOnSet(g, T) = 0
      BY <2>1, SumEmpty
    <3> QED BY <3>1
  <2>2. CASE T # {}
    <3> DEFINE c == Pick(T)  R == T \ {c}
    <3>1. IsFiniteSet(T) /\ IsFiniteSet(R) /\ Ints(f, R) /\ Ints(g, R)
      BY FS_Subset DEF Ints
    <3>2. /\ c \in T
          /\ SumFunctionOnSet(f, T) = f[c] + SumFunctionOnSet(f, R)
          /\ SumFunctionOnSet(g, T) = g[c] + SumFunctionOnSet(g, R)
      BY <2>2, <3>1, SumUnfold
    <3>3. R \in Good
      BY <1>1, <3>2
    <3>4. SumFunctionOnSet(f, R) <= SumFunctionOnSet(g, R)
      BY <3>3
    <3>5. f[c] \in Int /\ g[c] \in Int /\ f[c] <= g[c]
      BY <3>2 DEF Ints
    <3>6. SumFunctionOnSet(f, R) \in Int /\ SumFunctionOnSet(g, R) \in Int
      <4> HIDE DEF R
      <4> QED BY <3>1, SumInt
    <3> HIDE DEF c, R
    <3>7. SumFunctionOnSet(f, T) <= SumFunctionOnSet(g, T)
      BY <3>2, <3>4, <3>5, <3>6
    <3> QED
      BY <3>7
  <2> QED
    BY <2>1, <2>2
<1>2. S \in Good
  <2> HIDE DEF Good
  <2> QED
    BY <1>1, SubsetInduction
<1> QED
  BY <1>2

\* Terms that are zero do not count.
LEMMA SumZero ==
  ASSUME NEW f, NEW S, IsFiniteSet(S), \A x \in S : f[x] = 0
  PROVE  SumFunctionOnSet(f, S) = 0
<1> DEFINE Good == {T \in SUBSET S : SumFunctionOnSet(f, T) = 0}
<1>1. ASSUME NEW T \in SUBSET S, \A R \in SUBSET T : R # T => R \in Good
      PROVE  T \in Good
  <2>1. CASE T = {}
    BY <2>1, SumEmpty
  <2>2. CASE T # {}
    <3>1. IsFiniteSet(T)
      BY FS_Subset
    <3>2. /\ Pick(T) \in T
          /\ SumFunctionOnSet(f, T) = f[Pick(T)] + SumFunctionOnSet(f, T \ {Pick(T)})
      BY <2>2, <3>1, SumUnfold
    <3>3. T \ {Pick(T)} \in Good
      BY <1>1, <3>2
    <3> QED
      BY <3>2, <3>3
  <2> QED
    BY <2>1, <2>2
<1>2. S \in Good
  <2> HIDE DEF Good
  <2> QED
    BY <1>1, SubsetInduction
<1> QED
  BY <1>2

\* Naturals add up to a natural.
LEMMA SumNat ==
  ASSUME NEW f, NEW S, IsFiniteSet(S), \A x \in S : f[x] \in Nat
  PROVE  SumFunctionOnSet(f, S) \in Nat
<1> DEFINE none == [x \in S |-> 0]
<1>1. Ints(f, S) /\ Ints(none, S) /\ \A x \in S : none[x] <= f[x] /\ none[x] = 0
  BY DEF Ints
<1> HIDE DEF none
<1>2. SumFunctionOnSet(none, S) = 0
  BY <1>1, SumZero
<1>3. SumFunctionOnSet(none, S) <= SumFunctionOnSet(f, S) /\ SumFunctionOnSet(f, S) \in Int
  BY <1>1, SumMonotone, SumInt
<1> QED
  BY <1>2, <1>3

-----------------------------------------------------------------------------
(* The sum of all a function's values, when the function changes *)

\* The same values.
LEMMA SumAlike ==
  ASSUME NEW f, NEW g, IsFiniteSet(DOMAIN f), DOMAIN g = DOMAIN f,
         \A x \in DOMAIN f : g[x] = f[x]
  PROVE  SumFunction(g) = SumFunction(f)
BY SumSame DEF SumFunction

\* One value more.
LEMMA SumGrows ==
  ASSUME NEW f, NEW g, IsFiniteSet(DOMAIN f), Ints(f, DOMAIN f), NEW x, x \notin DOMAIN f,
         DOMAIN g = DOMAIN f \cup {x}, g[x] \in Int, \A y \in DOMAIN f : g[y] = f[y]
  PROVE  /\ SumFunction(g) = SumFunction(f) + g[x]
         /\ SumFunction(f) \in Int /\ SumFunction(g) \in Int
<1>1. Ints(g, DOMAIN f)
  BY DEF Ints
<1>2. SumFunctionOnSet(g, DOMAIN f \cup {x}) = SumFunctionOnSet(g, DOMAIN f) + g[x]
  BY <1>1, SumIn
<1>3. SumFunctionOnSet(g, DOMAIN f) = SumFunctionOnSet(f, DOMAIN f)
  BY SumSame
<1>4. SumFunctionOnSet(f, DOMAIN f) \in Int
  BY SumInt
<1> QED
  BY <1>2, <1>3, <1>4 DEF SumFunction

\* One value replaced by another, at another place.
LEMMA SumMoves ==
  ASSUME NEW f, NEW g, IsFiniteSet(DOMAIN f), Ints(f, DOMAIN f), NEW x \in DOMAIN f,
         NEW y, y \notin DOMAIN f, DOMAIN g = (DOMAIN f \ {x}) \cup {y}, g[y] \in Int,
         \A z \in DOMAIN f \ {x} : g[z] = f[z]
  PROVE  SumFunction(g) = SumFunction(f) - f[x] + g[y]
<1> DEFINE R == DOMAIN f \ {x}
           h == [z \in R |-> f[z]]
<1>1. IsFiniteSet(R)
  BY FS_RemoveElement
<1>2. DOMAIN h = R /\ Ints(h, R) /\ f[x] \in Int
  BY DEF Ints
<1>3. DOMAIN f = DOMAIN h \cup {x} /\ x \notin DOMAIN h /\ y \notin DOMAIN h
  BY <1>2
<1>4. SumFunction(f) = SumFunction(h) + f[x] /\ SumFunction(h) \in Int
  BY <1>1, <1>2, <1>3, SumGrows
<1>5. SumFunction(g) = SumFunction(h) + g[y]
  BY <1>1, <1>2, <1>3, SumGrows
<1> QED
  BY <1>2, <1>4, <1>5

\* Two sums over the same set, term by term.
LEMMA SumPlus ==
  ASSUME NEW f, NEW g, NEW h, NEW S, IsFiniteSet(S), Ints(f, S), Ints(g, S),
         \A x \in S : h[x] = f[x] + g[x]
  PROVE  SumFunctionOnSet(h, S) = SumFunctionOnSet(f, S) + SumFunctionOnSet(g, S)
<1> DEFINE Good == {T \in SUBSET S :
              SumFunctionOnSet(h, T) = SumFunctionOnSet(f, T) + SumFunctionOnSet(g, T)}
<1>1. ASSUME NEW T \in SUBSET S, \A R \in SUBSET T : R # T => R \in Good
      PROVE  T \in Good
  <2>1. CASE T = {}
    <3>1. /\ SumFunctionOnSet(f, T) = 0 /\ SumFunctionOnSet(g, T) = 0
          /\ SumFunctionOnSet(h, T) = 0
      BY <2>1, SumEmpty
    <3> QED BY <3>1
  <2>2. CASE T # {}
    <3>0. PICK c \in T : TRUE
      BY <2>2
    <3> DEFINE R == T \ {c}
    <3>1. /\ IsFiniteSet(T) /\ IsFiniteSet(R)
          /\ Ints(f, T) /\ Ints(g, T) /\ Ints(f, R) /\ Ints(g, R)
      BY FS_Subset DEF Ints
    <3>2. Ints(h, T) /\ h[c] = f[c] + g[c] /\ f[c] \in Int /\ g[c] \in Int
      BY <3>1 DEF Ints
    <3>3. /\ SumFunctionOnSet(f, T) = f[c] + SumFunctionOnSet(f, R)
          /\ SumFunctionOnSet(g, T) = g[c] + SumFunctionOnSet(g, R)
          /\ SumFunctionOnSet(h, T) = h[c] + SumFunctionOnSet(h, R)
      BY <3>1, <3>2, SumOut
    <3>4. R \in Good
      BY <1>1
    <3> HIDE DEF R
    <3>5. SumFunctionOnSet(f, R) \in Int /\ SumFunctionOnSet(g, R) \in Int
      BY <3>1, SumInt
    <3> QED
      BY <3>2, <3>3, <3>4, <3>5
  <2> QED
    BY <2>1, <2>2
<1>2. S \in Good
  <2> HIDE DEF Good
  <2> QED
    BY <1>1, SubsetInduction
<1> QED
  BY <1>2

\* A sum taken class by class, when every element of S belongs to one class of P.  The
\* members of the classes are given apart, so that the lemma is easier to cite.
LEMMA SumPartition ==
  ASSUME NEW f, NEW S, IsFiniteSet(S), Ints(f, S),
         NEW class, NEW P, IsFiniteSet(P), \A x \in S : class[x] \in P,
         NEW members, \A c \in P : \A x : x \in members[c] <=> x \in S /\ class[x] = c,
         NEW g, \A c \in P : g[c] = SumFunctionOnSet(f, members[c])
  PROVE  SumFunctionOnSet(g, P) = SumFunctionOnSet(f, S)
<1> DEFINE Of(Q) == {x \in S : class[x] \in Q}
           Good == {Q \in SUBSET P : SumFunctionOnSet(g, Q) = SumFunctionOnSet(f, Of(Q))}
<1>1. \A Q \in SUBSET P : IsFiniteSet(Of(Q)) /\ Ints(f, Of(Q))
  BY FS_Subset DEF Ints
<1>2. \A c \in P : members[c] = Of({c})
  <2> SUFFICES ASSUME NEW c \in P PROVE members[c] = Of({c})
    OBVIOUS
  <2>1. \A x : x \in members[c] <=> x \in Of({c})
    OBVIOUS
  <2>2. members[c] \subseteq Of({c}) /\ Of({c}) \subseteq members[c]
    BY <2>1
  <2> HIDE DEF Of
  <2> QED
    BY <2>2
<1>3. \A c \in P : IsFiniteSet(Of({c})) /\ Ints(f, Of({c})) /\ g[c] = SumFunctionOnSet(f, Of({c}))
  <2> SUFFICES ASSUME NEW c \in P
               PROVE  /\ IsFiniteSet(Of({c})) /\ Ints(f, Of({c}))
                      /\ g[c] = SumFunctionOnSet(f, Of({c}))
    OBVIOUS
  <2>1. {c} \in SUBSET P /\ members[c] = Of({c}) /\ g[c] = SumFunctionOnSet(f, members[c])
    BY <1>2
  <2> HIDE DEF Of
  <2> QED
    BY <1>1, <2>1
<1>4. Ints(g, P)
  <2> SUFFICES ASSUME NEW c \in P PROVE g[c] \in Int
    BY DEF Ints
  <2> PICK T : T = Of({c})
    OBVIOUS
  <2>1. SumFunctionOnSet(f, T) \in Int
    BY <1>3, SumInt
  <2> QED
    BY <1>3, <2>1
<1>5. ASSUME NEW Q \in SUBSET P, \A R \in SUBSET Q : R # Q => R \in Good
      PROVE  Q \in Good
  <2>1. CASE Q = {}
    <3>1. Of(Q) = {}
      BY <2>1
    <3>2. SumFunctionOnSet(g, Q) = 0 /\ SumFunctionOnSet(f, {}) = 0
      BY <2>1, SumEmpty
    <3> QED
      BY <3>1, <3>2
  <2>2. CASE Q # {}
    <3>0. PICK c \in Q : TRUE
      BY <2>2
    <3>1. PICK R : R = Q \ {c}
      OBVIOUS
    <3>2. IsFiniteSet(Q) /\ Ints(g, Q)
      BY <1>4, FS_Subset DEF Ints
    <3>3. SumFunctionOnSet(g, Q) = g[c] + SumFunctionOnSet(g, R)
      BY <3>0, <3>1, <3>2, SumOut
    <3>4. SumFunctionOnSet(g, R) = SumFunctionOnSet(f, Of(R))
      BY <1>5, <3>1
    <3>5. PICK left, right, both : left = Of(R) /\ right = Of({c}) /\ both = Of(Q)
      OBVIOUS
    <3>6. both = left \cup right /\ left \cap right = {}
      BY <3>0, <3>1, <3>5
    <3>7. IsFiniteSet(left) /\ IsFiniteSet(right) /\ Ints(f, left) /\ Ints(f, right)
      <4>1. R \in SUBSET P /\ {c} \in SUBSET P
        BY <3>0, <3>1
      <4> HIDE DEF Of
      <4> QED BY <1>1, <3>5, <4>1
    <3>8. g[c] = SumFunctionOnSet(f, right)
      <4>1. g[c] = SumFunctionOnSet(f, Of({c}))
        BY <1>3
      <4> HIDE DEF Of
      <4> QED BY <3>5, <4>1
    <3> HIDE DEF Of
    <3>9. SumFunctionOnSet(f, both) = SumFunctionOnSet(f, left) + SumFunctionOnSet(f, right)
      BY <3>6, <3>7, SumUnion
    <3>10. SumFunctionOnSet(f, left) \in Int /\ SumFunctionOnSet(f, right) \in Int
      BY <3>7, SumInt
    <3> QED
      BY <3>3, <3>4, <3>5, <3>8, <3>9, <3>10
  <2> QED
    BY <2>1, <2>2
<1>6. P \in Good
  <2> HIDE DEF Good
  <2> QED
    BY <1>5, SubsetInduction
<1>7. Of(P) = S
  OBVIOUS
<1> QED
  BY <1>6, <1>7

\* Counting by adding ones.
LEMMA SumOnes ==
  ASSUME NEW f, NEW S, IsFiniteSet(S), \A x \in S : f[x] = 1
  PROVE  SumFunctionOnSet(f, S) = Cardinality(S)
<1> DEFINE Good == {T \in SUBSET S : SumFunctionOnSet(f, T) = Cardinality(T)}
<1>1. ASSUME NEW T \in SUBSET S, \A R \in SUBSET T : R # T => R \in Good
      PROVE  T \in Good
  <2>1. CASE T = {}
    <3>1. SumFunctionOnSet(f, {}) = 0 /\ Cardinality({}) = 0
      BY SumEmpty, FS_EmptySet
    <3> QED BY <2>1, <3>1
  <2>2. CASE T # {}
    <3>1. IsFiniteSet(T)
      BY FS_Subset
    <3>2. /\ Pick(T) \in T
          /\ SumFunctionOnSet(f, T) = f[Pick(T)] + SumFunctionOnSet(f, T \ {Pick(T)})
      BY <2>2, <3>1, SumUnfold
    <3>3. T \ {Pick(T)} \in Good
      BY <1>1, <3>2
    <3>4. Cardinality(T \ {Pick(T)}) = Cardinality(T) - 1 /\ Cardinality(T) \in Nat
      BY <3>1, <3>2, FS_RemoveElement, FS_CardinalityType
    <3> QED
      BY <3>2, <3>3, <3>4
  <2> QED
    BY <2>1, <2>2
<1>2. S \in Good
  <2> HIDE DEF Good
  <2> QED
    BY <1>1, SubsetInduction
<1> QED
  BY <1>2

\* A term is no larger than the sum when none is negative.
LEMMA SumBounds ==
  ASSUME NEW f, NEW S, IsFiniteSet(S), \A x \in S : f[x] \in Nat, NEW x \in S
  PROVE  f[x] <= SumFunctionOnSet(f, S)
<1>1. IsFiniteSet(S \ {x}) /\ Ints(f, S)
  BY FS_RemoveElement DEF Ints
<1>2. SumFunctionOnSet(f, S \ {x}) \in Nat
  <2> PICK R : R = S \ {x}
    OBVIOUS
  <2> QED
    BY <1>1, SumNat
<1>3. SumFunctionOnSet(f, S) = f[x] + SumFunctionOnSet(f, S \ {x})
  BY <1>1, SumOut
<1> QED
  BY <1>2, <1>3

-----------------------------------------------------------------------------
(* Extremes of a function over a finite set *)

LEMMA HasGreatest ==
  ASSUME NEW f, NEW S, IsFiniteSet(S), S # {}, Ints(f, S)
  PROVE  \E x \in S : \A y \in S : f[y] <= f[x]
<1> DEFINE Good == {T \in SUBSET S : T # {} => \E x \in T : \A y \in T : f[y] <= f[x]}
<1>1. ASSUME NEW T \in SUBSET S, \A R \in SUBSET T : R # T => R \in Good
      PROVE  T \in Good
  <2> SUFFICES ASSUME T # {} PROVE \E x \in T : \A y \in T : f[y] <= f[x]
    OBVIOUS
  <2>1. PICK c \in T : TRUE
    OBVIOUS
  <2>2. T \ {c} \in Good /\ f[c] \in Int
    BY <1>1, <2>1 DEF Ints
  <2>3. CASE T \ {c} = {}
    BY <2>1, <2>2, <2>3
  <2>4. CASE T \ {c} # {}
    <3>1. PICK x \in T \ {c} : \A y \in T \ {c} : f[y] <= f[x]
      BY <2>2, <2>4
    <3>2. f[x] \in Int /\ \A y \in T : f[y] \in Int
      BY <3>1 DEF Ints
    <3>3. CASE f[c] <= f[x]
      BY <3>1, <3>3
    <3>4. CASE f[x] <= f[c]
      BY <2>1, <3>1, <3>2, <3>4
    <3> QED
      BY <2>2, <3>2, <3>3, <3>4
  <2> QED
    BY <2>3, <2>4
<1>2. S \in Good
  <2> HIDE DEF Good
  <2> QED
    BY <1>1, SubsetInduction
<1> QED
  BY <1>2

LEMMA HasLeast ==
  ASSUME NEW f, NEW S, IsFiniteSet(S), S # {}, Ints(f, S)
  PROVE  \E x \in S : \A y \in S : f[x] <= f[y]
<1> DEFINE g == [x \in S |-> -f[x]]
<1>1. Ints(g, S) /\ \A x \in S : g[x] = -f[x] /\ f[x] \in Int
  BY DEF Ints
<1> HIDE DEF g
<1>2. PICK x \in S : \A y \in S : g[y] <= g[x]
  BY <1>1, HasGreatest
<1>3. \A y \in S : f[x] <= f[y]
  BY <1>1, <1>2
<1> QED
  BY <1>3

\* Division by a positive number keeps the order.
LEMMA DivMonotone ==
  ASSUME NEW a \in Int, NEW b \in Int, NEW m \in Nat \ {0}, a <= b
  PROVE  a \div m <= b \div m
OBVIOUS
=============================================================================
