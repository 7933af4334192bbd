----------------------------- MODULE SumsProofs -----------------------------
(***************************************************************************)
(* The laws of sums over finite sets that the proofs about balances and    *)
(* stakes rest on.  The induction is on strict subsets, and its predicate  *)
(* is a set (Good): the sets of which the law holds.                       *)
(***************************************************************************)
EXTENDS Sums, FiniteSetTheorems, TLAPS

\* Induction from all strict subsets of a set to the set
LEMMA StrongInduction ==
    ASSUME NEW U, IsFiniteSet(U), NEW Good,
           \A T \in SUBSET U : (\A R \in SUBSET T : R # T => R \in Good) => T \in Good
    PROVE  U \in Good
<1> DEFINE Bad == {T \in SUBSET U : T \notin Good}
<1> SUFFICES ASSUME U \notin Good PROVE FALSE
  OBVIOUS
<1>1. IsWellFoundedOn(StrictSubsetOrdering(U), FiniteSubsetsOf(U))
  BY FS_StrictSubsetOrderingWellFounded
<1>2. Bad \subseteq FiniteSubsetsOf(U) /\ Bad # {}
  BY FS_FiniteSubsetsOfFinite
<1> HIDE DEF Bad
<1>3. PICK T \in Bad : \A R \in Bad : ~ (<<R, T>> \in StrictSubsetOrdering(U))
  BY <1>1, <1>2, WFMin
<1> USE DEF Bad
<1>4. ASSUME NEW R \in SUBSET T, R # T
      PROVE  R \in Good
  <2>1. R \in SUBSET U /\ T \in SUBSET U
    OBVIOUS
  <2>2. <<R, T>> \in StrictSubsetOrdering(U)
    BY <1>4, <2>1 DEF StrictSubsetOrdering
  <2> QED BY <1>3, <2>1, <2>2
<1> QED BY <1>3, <1>4

\* Induction from a set to the set with one more element
LEMMA ElementInduction ==
    ASSUME NEW U, IsFiniteSet(U), NEW Good, {} \in Good,
           \A T \in SUBSET U : \A x \in U \ T : T \in Good => T \cup {x} \in Good
    PROVE  U \in Good
<1>1. ASSUME NEW T \in SUBSET U, \A R \in SUBSET T : R # T => R \in Good
      PROVE  T \in Good
  <2>1. CASE T = {}
    BY <2>1
  <2>2. CASE T # {}
    <3>1. PICK x \in T : TRUE
      BY <2>2
    <3>2. T \ {x} \in Good /\ x \in U \ (T \ {x}) /\ T \ {x} \in SUBSET U
      BY <1>1, <3>1
    <3>3. (T \ {x}) \cup {x} = T
      BY <3>1
    <3> QED BY <3>2, <3>3
  <2> QED BY <2>1, <2>2
<1> QED BY <1>1, StrongInduction

-----------------------------------------------------------------------------
(* The recursive function behind SumOver *)

Pick(s) == CHOOSE x \in s : TRUE
Sums(f, U, g) ==
    g = [s \in SUBSET U |-> IF s = {} THEN 0 ELSE f[Pick(s)] + g[s \ {Pick(s)}]]
TheSums(f, U) == CHOOSE g : Sums(f, U, g)

LEMMA SumIsChosen ==
    ASSUME NEW f, NEW U
    PROVE  SumOver(f, U) = TheSums(f, U)[U]
BY DEF SumOver, MapThenSumSet, MapThenFoldSet, TheSums, Sums, Pick

\* All such functions agree where they are defined
LEMMA SumsAgree ==
    ASSUME NEW f, NEW U, NEW V, NEW g, NEW h, Sums(f, U, g), Sums(f, V, h),
           NEW T, IsFiniteSet(T), T \subseteq U, T \subseteq V
    PROVE  g[T] = h[T]
<1> DEFINE Good == {R \in SUBSET T : g[R] = h[R]}
<1>1. ASSUME NEW W \in SUBSET T, \A R \in SUBSET W : R # W => R \in Good
      PROVE  W \in Good
  <2>1. W \in SUBSET U /\ W \in SUBSET V
    OBVIOUS
  <2>2. /\ g[W] = IF W = {} THEN 0 ELSE f[Pick(W)] + g[W \ {Pick(W)}]
        /\ h[W] = IF W = {} THEN 0 ELSE f[Pick(W)] + h[W \ {Pick(W)}]
    BY <2>1 DEF Sums
  <2>3. CASE W = {}
    BY <2>2, <2>3
  <2>4. CASE W # {}
    <3>1. Pick(W) \in W
      BY <2>4 DEF Pick
    <3>2. W \ {Pick(W)} \in Good
      BY <1>1, <3>1
    <3> QED BY <2>2, <2>4, <3>2
  <2> QED BY <2>3, <2>4
<1> HIDE DEF Good
<1>2. T \in Good
  BY <1>1, StrongInduction
<1> QED BY <1>2 DEF Good

\* and there is one for every finite set
LEMMA SumsExist ==
    ASSUME NEW f, NEW U, IsFiniteSet(U)
    PROVE  Sums(f, U, TheSums(f, U))
<1> DEFINE Good == {T \in SUBSET U : Sums(f, T, TheSums(f, T))}
<1>1. ASSUME NEW T \in SUBSET U, \A R \in SUBSET T : R # T => R \in Good
      PROVE  T \in Good
  <2> DEFINE low(s) == TheSums(f, s)[s]
             top == IF T = {} THEN 0 ELSE f[Pick(T)] + low(T \ {Pick(T)})
             h == [s \in SUBSET T |-> IF s = T THEN top ELSE low(s)]
  <2>1. ASSUME NEW s \in SUBSET T
        PROVE  h[s] = IF s = {} THEN 0 ELSE f[Pick(s)] + h[s \ {Pick(s)}]
    <3>1. s # {} => Pick(s) \in s
      BY DEF Pick
    <3>2. CASE s = T
      <4>1. T # {} => T \ {Pick(T)} \in SUBSET T /\ T \ {Pick(T)} # T
        BY <3>1, <3>2
      <4> QED BY <3>2, <4>1
    <3>3. CASE s # T
      <4>1. Sums(f, s, TheSums(f, s))
        BY <1>1, <3>3
      <4>2. low(s) = IF s = {} THEN 0 ELSE f[Pick(s)] + TheSums(f, s)[s \ {Pick(s)}]
        BY <4>1 DEF Sums
      <4>3. ASSUME s # {}
            PROVE  TheSums(f, s)[s \ {Pick(s)}] = low(s \ {Pick(s)})
        <5> DEFINE r == s \ {Pick(s)}
        <5>1. r \in SUBSET T /\ r # T /\ r \subseteq s
          BY <3>1, <3>3
        <5>2. Sums(f, r, TheSums(f, r))
          BY <1>1, <5>1
        <5>3. IsFiniteSet(r)
          BY <5>1, FS_Subset
        <5> HIDE DEF r
        <5>4. TheSums(f, s)[r] = TheSums(f, r)[r]
          BY <4>1, <5>1, <5>2, <5>3, SumsAgree
        <5> QED BY <5>4 DEF r
      <4>4. s # {} => s \ {Pick(s)} \in SUBSET T /\ s \ {Pick(s)} # T
        BY <3>1, <3>3
      <4> QED BY <3>3, <4>2, <4>3, <4>4
    <3> QED BY <3>2, <3>3
  <2> HIDE DEF low, top
  <2>2. Sums(f, T, h)
    BY <2>1 DEF Sums
  <2> HIDE DEF h
  <2>3. Sums(f, T, TheSums(f, T))
    BY <2>2 DEF TheSums
  <2> QED BY <2>3
<1> HIDE DEF Good
<1>2. U \in Good
  BY <1>1, StrongInduction
<1> QED BY <1>2 DEF Good

-----------------------------------------------------------------------------
\* Nothing sums to nothing
LEMMA SumEmpty == ASSUME NEW f PROVE SumOver(f, {}) = 0
<1>1. Sums(f, {}, TheSums(f, {}))
  BY SumsExist, FS_EmptySet
<1>2. TheSums(f, {})[{}] = 0
  BY <1>1 DEF Sums
<1> QED BY <1>2, SumIsChosen

LEMMA SumPicked ==
    ASSUME NEW f, NEW S, IsFiniteSet(S), S # {}
    PROVE  /\ Pick(S) \in S
           /\ SumOver(f, S) = f[Pick(S)] + SumOver(f, S \ {Pick(S)})
<1> DEFINE r == S \ {Pick(S)}
<1>1. Pick(S) \in S
  BY DEF Pick
<1>2. IsFiniteSet(r) /\ r \in SUBSET S
  BY FS_Subset
<1>3. Sums(f, S, TheSums(f, S)) /\ Sums(f, r, TheSums(f, r))
  BY <1>2, SumsExist
<1>4. TheSums(f, S)[S] = f[Pick(S)] + TheSums(f, S)[r]
  BY <1>3 DEF Sums
<1> HIDE DEF r
<1>5. TheSums(f, S)[r] = TheSums(f, r)[r]
  BY <1>2, <1>3, SumsAgree
<1> QED BY <1>1, <1>4, <1>5, SumIsChosen DEF r

\* A sum of integers is an integer
LEMMA SumInt ==
    ASSUME NEW f, NEW S, IsFiniteSet(S), \A x \in S : f[x] \in Int
    PROVE  SumOver(f, S) \in Int
<1> DEFINE Good == {T \in SUBSET S : SumOver(f, T) \in Int}
<1>1. ASSUME NEW T \in SUBSET S, \A R \in SUBSET T : R # T => R \in Good
      PROVE  T \in Good
  <2>1. CASE T = {}
    BY <2>1, SumEmpty
  <2>2. CASE T # {}
    <3>1. IsFiniteSet(T)
      BY FS_Subset
    <3>2. /\ Pick(T) \in T
          /\ SumOver(f, T) = f[Pick(T)] + SumOver(f, T \ {Pick(T)})
      BY <2>2, <3>1, SumPicked
    <3>3. SumOver(f, T \ {Pick(T)}) \in Int
      BY <1>1, <3>2
    <3> QED BY <3>2, <3>3
  <2> QED BY <2>1, <2>2
<1> HIDE DEF Good
<1>2. S \in Good
  BY <1>1, StrongInduction
<1> QED BY <1>2 DEF Good

\* Any element may be taken first
LEMMA SumRemove ==
    ASSUME NEW f, NEW S, IsFiniteSet(S), \A x \in S : f[x] \in Int, NEW a \in S
    PROVE  SumOver(f, S) = f[a] + SumOver(f, S \ {a})
<1> DEFINE Good == {T \in SUBSET S :
                       \A b \in T : SumOver(f, T) = f[b] + SumOver(f, T \ {b})}
<1>1. ASSUME NEW T \in SUBSET S, \A R \in SUBSET T : R # T => R \in Good
      PROVE  T \in Good
  <2> SUFFICES ASSUME NEW b \in T
               PROVE  SumOver(f, T) = f[b] + SumOver(f, T \ {b})
    OBVIOUS
  <2> DEFINE p == Pick(T)
  <2>1. IsFiniteSet(T)
    BY FS_Subset
  <2>2. p \in T /\ SumOver(f, T) = f[p] + SumOver(f, T \ {p})
    BY <2>1, SumPicked
  <2> HIDE DEF p
  <2>3. CASE b = p
    BY <2>2, <2>3
  <2>4. CASE b # p
    <3> DEFINE r == T \ {p}
               t == T \ {b}
               u == (T \ {p}) \ {b}
    <3>1. r \in Good /\ b \in r /\ t \in Good /\ p \in t
      BY <1>1, <2>2, <2>4
    <3>2. SumOver(f, r) = f[b] + SumOver(f, r \ {b})
      BY <3>1
    <3>3. SumOver(f, t) = f[p] + SumOver(f, t \ {p})
      BY <3>1
    <3>4. r \ {b} = u /\ t \ {p} = u
      OBVIOUS
    <3>5. IsFiniteSet(u) /\ u \in SUBSET S
      BY <2>1, FS_Subset
    <3>6. SumOver(f, u) \in Int
      BY <3>5, SumInt
    <3>7. f[b] \in Int /\ f[p] \in Int
      BY <2>2
    <3> HIDE DEF u, Good
    <3> QED BY <2>2, <3>2, <3>3, <3>4, <3>6, <3>7
  <2> QED BY <2>3, <2>4
<1> HIDE DEF Good
<1>2. S \in Good
  BY <1>1, StrongInduction
<1> QED BY <1>2 DEF Good

\* One more element
LEMMA SumInsert ==
    ASSUME NEW f, NEW S, IsFiniteSet(S), NEW a, a \notin S,
           \A x \in S \cup {a} : f[x] \in Int
    PROVE  SumOver(f, S \cup {a}) = SumOver(f, S) + f[a]
<1> DEFINE R == S \cup {a}
<1>1. IsFiniteSet(R) /\ a \in R /\ R \ {a} = S
  BY FS_AddElement
<1>2. SumOver(f, S) \in Int /\ f[a] \in Int
  BY SumInt
<1>3. \A x \in R : f[x] \in Int
  OBVIOUS
<1> HIDE DEF R
<1>4. SumOver(f, R) = f[a] + SumOver(f, S)
  BY <1>1, <1>3, SumRemove
<1> QED BY <1>2, <1>4 DEF R

\* A sum is no more than a sum of terms that are no less
LEMMA SumLeq ==
    ASSUME NEW f, NEW g, NEW S, IsFiniteSet(S),
           \A x \in S : f[x] \in Int /\ g[x] \in Int /\ f[x] <= g[x]
    PROVE  SumOver(f, S) <= SumOver(g, S)
<1> DEFINE Good == {T \in SUBSET S : SumOver(f, T) <= SumOver(g, T)}
<1>1. {} \in Good
  BY SumEmpty
<1>2. ASSUME NEW T \in SUBSET S, NEW x \in S \ T, T \in Good
      PROVE  T \cup {x} \in Good
  <2>1. IsFiniteSet(T)
    BY FS_Subset
  <2>2. /\ SumOver(f, T \cup {x}) = SumOver(f, T) + f[x]
        /\ SumOver(g, T \cup {x}) = SumOver(g, T) + g[x]
    BY <2>1, SumInsert
  <2>3. SumOver(f, T) \in Int /\ SumOver(g, T) \in Int
    BY <2>1, SumInt
  <2> QED BY <1>2, <2>2, <2>3
<1> HIDE DEF Good
<1>3. S \in Good
  BY <1>1, <1>2, ElementInduction
<1> QED BY <1>3 DEF Good

\* Terms that are the same have the same sum
LEMMA SumSame ==
    ASSUME NEW f, NEW g, NEW S, IsFiniteSet(S),
           \A x \in S : f[x] \in Int /\ f[x] = g[x]
    PROVE  SumOver(f, S) = SumOver(g, S)
<1>1. SumOver(f, S) <= SumOver(g, S) /\ SumOver(g, S) <= SumOver(f, S)
  BY SumLeq
<1>2. SumOver(f, S) \in Int /\ SumOver(g, S) \in Int
  BY SumInt
<1> QED BY <1>1, <1>2

\* Terms that are all zero
LEMMA SumZero ==
    ASSUME NEW f, NEW S, IsFiniteSet(S), \A x \in S : f[x] = 0
    PROVE  SumOver(f, S) = 0
<1> DEFINE Good == {T \in SUBSET S : SumOver(f, T) = 0}
<1>1. {} \in Good
  BY SumEmpty
<1>2. ASSUME NEW T \in SUBSET S, NEW x \in S \ T, T \in Good
      PROVE  T \cup {x} \in Good
  <2>1. IsFiniteSet(T)
    BY FS_Subset
  <2>2. SumOver(f, T \cup {x}) = SumOver(f, T) + f[x]
    BY <2>1, SumInsert
  <2> QED BY <1>2, <2>2
<1> HIDE DEF Good
<1>3. S \in Good
  BY <1>1, <1>2, ElementInduction
<1> QED BY <1>3 DEF Good

\* A sum of naturals is natural
LEMMA SumNat ==
    ASSUME NEW f, NEW S, IsFiniteSet(S), \A x \in S : f[x] \in Nat
    PROVE  SumOver(f, S) \in Nat
<1> DEFINE zero == [x \in S |-> 0]
<1>1. SumOver(zero, S) = 0
  BY SumZero
<1>2. SumOver(zero, S) <= SumOver(f, S)
  BY SumLeq
<1>3. SumOver(f, S) \in Int
  BY SumInt
<1> HIDE DEF zero
<1> QED BY <1>1, <1>2, <1>3

\* One term changes, the others stay
LEMMA SumChange ==
    ASSUME NEW f, NEW g, NEW S, IsFiniteSet(S), NEW a \in S,
           \A x \in S : f[x] \in Int /\ g[x] \in Int,
           \A x \in S \ {a} : g[x] = f[x]
    PROVE  SumOver(g, S) = SumOver(f, S) - f[a] + g[a]
<1> DEFINE R == S \ {a}
<1>1. IsFiniteSet(R)
  BY FS_Subset
<1>2. SumOver(f, S) = f[a] + SumOver(f, R) /\ SumOver(g, S) = g[a] + SumOver(g, R)
  BY SumRemove
<1>3. SumOver(f, R) = SumOver(g, R)
  BY <1>1, SumSame
<1>4. SumOver(f, R) \in Int /\ SumOver(g, R) \in Int
  BY <1>1, SumInt
<1> QED BY <1>2, <1>3, <1>4

\* The sum of term-by-term sums
LEMMA SumPlus ==
    ASSUME NEW f, NEW g, NEW h, NEW S, IsFiniteSet(S),
           \A x \in S : f[x] \in Int /\ g[x] \in Int /\ h[x] = f[x] + g[x]
    PROVE  SumOver(h, S) = SumOver(f, S) + SumOver(g, S)
<1> DEFINE Good == {T \in SUBSET S : SumOver(h, T) = SumOver(f, T) + SumOver(g, T)}
<1>1. {} \in Good
  BY SumEmpty
<1>2. ASSUME NEW T \in SUBSET S, NEW x \in S \ T, T \in Good
      PROVE  T \cup {x} \in Good
  <2>1. IsFiniteSet(T)
    BY FS_Subset
  <2>2. /\ SumOver(f, T \cup {x}) = SumOver(f, T) + f[x]
        /\ SumOver(g, T \cup {x}) = SumOver(g, T) + g[x]
        /\ SumOver(h, T \cup {x}) = SumOver(h, T) + h[x]
    BY <2>1, SumInsert
  <2>3. SumOver(f, T) \in Int /\ SumOver(g, T) \in Int
    BY <2>1, SumInt
  <2> QED BY <1>2, <2>2, <2>3
<1> HIDE DEF Good
<1>3. S \in Good
  BY <1>1, <1>2, ElementInduction
<1> QED BY <1>3 DEF Good

\* Naturals summed over fewer elements are no more
LEMMA SumFewer ==
    ASSUME NEW f, NEW S, IsFiniteSet(S), \A x \in S : f[x] \in Nat,
           NEW T \in SUBSET S
    PROVE  SumOver(f, T) <= SumOver(f, S)
<1> DEFINE Good == {R \in SUBSET S : SumOver(f, R \cap T) <= SumOver(f, R)}
<1>1. {} \in Good
  <2>1. {} \cap T = {}
    OBVIOUS
  <2> QED BY <2>1, SumEmpty
<1>2. ASSUME NEW R \in SUBSET S, NEW x \in S \ R, R \in Good
      PROVE  R \cup {x} \in Good
  <2> DEFINE P == R \cap T
  <2>1. IsFiniteSet(R) /\ IsFiniteSet(P)
    BY FS_Subset
  <2>2. SumOver(f, R \cup {x}) = SumOver(f, R) + f[x]
    BY <2>1, SumInsert
  <2>3. SumOver(f, P \cup {x}) = SumOver(f, P) + f[x]
    BY <2>1, SumInsert
  <2>4. (R \cup {x}) \cap T = IF x \in T THEN P \cup {x} ELSE P
    OBVIOUS
  <2>5. SumOver(f, R) \in Int /\ SumOver(f, P) \in Int /\ f[x] \in Nat
    BY <2>1, SumInt
  <2>6. SumOver(f, P) <= SumOver(f, R)
    BY <1>2
  <2>7. SumOver(f, (R \cup {x}) \cap T) <= SumOver(f, R \cup {x})
    <3> HIDE DEF P, Good
    <3>1. SumOver(f, P) <= SumOver(f, R \cup {x}) /\ SumOver(f, P \cup {x}) <= SumOver(f, R \cup {x})
      BY <2>2, <2>3, <2>5, <2>6
    <3> QED BY <2>4, <3>1
  <2> QED BY <2>7
<1> HIDE DEF Good
<1>3. S \in Good
  BY <1>1, <1>2, ElementInduction
<1>4. S \cap T = T
  OBVIOUS
<1> QED BY <1>3, <1>4 DEF Good

\* An element joins, the terms of the others stay
LEMMA SumJoin ==
    ASSUME NEW f, NEW g, NEW S, IsFiniteSet(S), NEW a, a \notin S,
           \A x \in S : f[x] \in Int /\ g[x] = f[x], g[a] \in Int
    PROVE  SumOver(g, S \cup {a}) = SumOver(f, S) + g[a]
<1>1. SumOver(g, S \cup {a}) = SumOver(g, S) + g[a]
  BY SumInsert
<1>2. SumOver(f, S) = SumOver(g, S)
  BY SumSame
<1> QED BY <1>1, <1>2

\* An element leaves, the terms of the others stay
LEMMA SumLeave ==
    ASSUME NEW f, NEW g, NEW S, IsFiniteSet(S), NEW a \in S,
           \A x \in S : f[x] \in Int, \A x \in S \ {a} : g[x] = f[x]
    PROVE  SumOver(g, S \ {a}) = SumOver(f, S) - f[a]
<1> DEFINE R == S \ {a}
<1>1. IsFiniteSet(R)
  BY FS_Subset
<1>2. SumOver(f, S) = f[a] + SumOver(f, R)
  BY SumRemove
<1>3. SumOver(f, R) = SumOver(g, R)
  BY <1>1, SumSame
<1>4. SumOver(f, R) \in Int
  BY <1>1, SumInt
<1> QED BY <1>2, <1>3, <1>4

\* Terms that are zero outside a part sum up to the sum over the part
LEMMA SumPart ==
    ASSUME NEW f, NEW g, NEW S, IsFiniteSet(S), NEW T \in SUBSET S,
           \A x \in T : f[x] \in Int /\ g[x] = f[x],
           \A x \in S \ T : g[x] = 0
    PROVE  SumOver(g, S) = SumOver(f, T)
<1> DEFINE Good == {R \in SUBSET S : SumOver(g, R) = SumOver(f, R \cap T)}
<1>1. {} \in Good
  <2>1. {} \cap T = {}
    OBVIOUS
  <2> QED BY <2>1, SumEmpty
<1>2. ASSUME NEW R \in SUBSET S, NEW x \in S \ R, R \in Good
      PROVE  R \cup {x} \in Good
  <2> DEFINE P == R \cap T
  <2>1. IsFiniteSet(R) /\ IsFiniteSet(P)
    BY FS_Subset
  <2>2. SumOver(g, R \cup {x}) = SumOver(g, R) + g[x]
    BY <2>1, SumInsert
  <2>3. x \in T => SumOver(f, P \cup {x}) = SumOver(f, P) + f[x]
    BY <2>1, SumInsert
  <2>4. (R \cup {x}) \cap T = IF x \in T THEN P \cup {x} ELSE P
    OBVIOUS
  <2>5. SumOver(f, P) \in Int /\ SumOver(g, R) = SumOver(f, P)
    BY <1>2, <2>1, SumInt
  <2> HIDE DEF P
  <2>6. SumOver(g, R \cup {x}) = SumOver(f, (R \cup {x}) \cap T)
    BY <2>2, <2>3, <2>4, <2>5
  <2> QED BY <2>6
<1> HIDE DEF Good
<1>3. S \in Good
  BY <1>1, <1>2, ElementInduction
<1>4. S \cap T = T
  OBVIOUS
<1> QED BY <1>3, <1>4 DEF Good

\* One term may grow by d, or must fall by -d, the others do not grow
LEMMA SumShift ==
    ASSUME NEW f, NEW g, NEW S, IsFiniteSet(S), NEW a \in S, NEW d \in Int,
           \A x \in S : f[x] \in Int /\ g[x] \in Int,
           \A x \in S \ {a} : g[x] <= f[x],
           g[a] <= f[a] + d
    PROVE  SumOver(g, S) <= SumOver(f, S) + d
<1> DEFINE R == S \ {a}
<1>1. IsFiniteSet(R)
  BY FS_Subset
<1>2. SumOver(f, S) = f[a] + SumOver(f, R) /\ SumOver(g, S) = g[a] + SumOver(g, R)
  BY SumRemove
<1>3. SumOver(g, R) <= SumOver(f, R)
  BY <1>1, SumLeq
<1>4. SumOver(f, R) \in Int /\ SumOver(g, R) \in Int
  BY <1>1, SumInt
<1> HIDE DEF R
<1> QED BY <1>2, <1>3, <1>4

\* Naturals that fall, over a set whose new members bring nothing
LEMMA SumFalls ==
    ASSUME NEW f, NEW g, NEW S, NEW T, IsFiniteSet(S), IsFiniteSet(T),
           \A x \in S : f[x] \in Nat,
           \A x \in T : g[x] \in Nat,
           \A x \in T \cap S : g[x] <= f[x],
           \A x \in T \ S : g[x] = 0
    PROVE  SumOver(g, T) <= SumOver(f, S)
<1> DEFINE R == T \cap S
<1>1. IsFiniteSet(R) /\ R \in SUBSET S /\ R \in SUBSET T
  BY FS_Subset
<1>2. \A x \in T \ R : g[x] = 0
  OBVIOUS
<1> HIDE DEF R
<1>3. SumOver(g, T) = SumOver(g, R)
  BY <1>1, <1>2, SumPart
<1>4. SumOver(g, R) <= SumOver(f, R)
  BY <1>1, SumLeq DEF R
<1>5. SumOver(f, R) <= SumOver(f, S)
  BY <1>1, SumFewer
<1>6. SumOver(g, R) \in Int /\ SumOver(f, R) \in Int /\ SumOver(f, S) \in Int
  BY <1>1, SumInt
<1> QED BY <1>3, <1>4, <1>5, <1>6

=============================================================================
