------------------------------ MODULE Counting ------------------------------
(***************************************************************************)
(* Lemmas about finite sets that the proofs share: induction, sums, counts *)
(* and the place of an element in an order.                                *)
(***************************************************************************)
EXTENDS Positions, Sequences, FiniteSetsExt, Functions, FiniteSetTheorems, TLAPS

-----------------------------------------------------------------------------
(* Induction over finite sets, with the set of the subsets that have the   *)
(* property in place of the property.                                      *)

LEMMA Smallest ==
    ASSUME NEW N \in SUBSET Nat, N # {}
    PROVE  \E x \in N : \A y \in N : x <= y
<1>1. PICK x \in N : \A y \in N : ~(<<y, x>> \in OpToRel(<, Nat))
  BY NatLessThanWellFounded, WFMin
<1>2. \A y \in N : y \in Nat /\ x \in Nat
  OBVIOUS
<1>3. \A y \in N : ~(y < x)
  BY <1>1, <1>2 DEF OpToRel
<1> QED
  BY <1>2, <1>3

LEMMA SetInduction ==
    ASSUME NEW S, IsFiniteSet(S), NEW D,
           \A T \in SUBSET S : (\A V \in SUBSET T : V # T => V \in D) => T \in D
    PROVE  S \in D
<1> SUFFICES ASSUME S \notin D PROVE FALSE
  OBVIOUS
<1> DEFINE N == {Cardinality(T) : T \in {U \in SUBSET S : U \notin D}}
<1>1. \A T \in SUBSET S : IsFiniteSet(T) /\ Cardinality(T) \in Nat
  BY FS_Subset, FS_CardinalityType
<1>2. N \in SUBSET Nat /\ N # {}
  BY <1>1
<1>3. PICK n \in N : \A m \in N : n <= m
  BY <1>2, Smallest
<1>4. PICK T \in SUBSET S : T \notin D /\ Cardinality(T) = n
  BY <1>3
<1>5. PICK V \in SUBSET T : V # T /\ V \notin D
  BY <1>4
<1>6. Cardinality(V) < n
  BY <1>1, <1>4, <1>5, FS_Subset
<1>7. Cardinality(V) \in N
  BY <1>5
<1>8. n \in Nat /\ Cardinality(V) \in Nat /\ n <= Cardinality(V)
  BY <1>2, <1>3, <1>7
<1> QED
  BY <1>6, <1>8

-----------------------------------------------------------------------------
(* Sums.  The fold of the library is a recursive function on the subsets   *)
(* of its set: there is one such function, on every finite set, and those  *)
(* of different sets agree.                                                *)

Pick(S) == CHOOSE x \in S : TRUE

Sums(f, S, g) ==
    g = [T \in SUBSET S |-> IF T = {} THEN 0 ELSE f[Pick(T)] + g[T \ {Pick(T)}]]

Total(f, S) == SumFunctionOnSet(f, S)

LEMMA SumsAgree ==
    ASSUME NEW f, NEW R, NEW g, Sums(f, R, g), NEW S, NEW h, Sums(f, S, h),
           NEW X \in (SUBSET R) \cap SUBSET S, IsFiniteSet(X)
    PROVE  g[X] = h[X]
<1> DEFINE D == {T \in SUBSET X : g[T] = h[T]}
<1>1. ASSUME NEW T \in SUBSET X, \A V \in SUBSET T : V # T => V \in D
      PROVE  T \in D
  <2>1. T \in SUBSET R /\ T \in SUBSET S /\ (T # {} => Pick(T) \in T)
    BY DEF Pick
  <2>2. /\ g[T] = IF T = {} THEN 0 ELSE f[Pick(T)] + g[T \ {Pick(T)}]
        /\ h[T] = IF T = {} THEN 0 ELSE f[Pick(T)] + h[T \ {Pick(T)}]
    BY <2>1 DEF Sums
  <2>3. T # {} => g[T \ {Pick(T)}] = h[T \ {Pick(T)}]
    BY <1>1, <2>1
  <2> QED
    BY <2>2, <2>3
<1>2. X \in D
  <2> HIDE DEF D
  <2> QED
    BY <1>1, SetInduction
<1> QED
  BY <1>2

LEMMA SumsExist ==
    ASSUME NEW f, NEW S, IsFiniteSet(S)
    PROVE  \E g : Sums(f, S, g)
<1> DEFINE has(T) == \E g : Sums(f, T, g)
           D == {T \in SUBSET S : has(T)}
           Fn(T) == CHOOSE g : Sums(f, T, g)
<1>1. \A T \in SUBSET S : IsFiniteSet(T)
  BY FS_Subset
<1>2. \A T : has(T) => Sums(f, T, Fn(T))
  OBVIOUS
<1>3. ASSUME NEW U \in SUBSET S, \A V \in SUBSET U : V # U => V \in D
      PROVE  U \in D
  <2> HIDE DEF has, Fn
  <2> DEFINE h == [T \in SUBSET U |-> IF T = {} THEN 0
                                      ELSE f[Pick(T)] + Fn(T \ {Pick(T)})[T \ {Pick(T)}]]
  <2>1. ASSUME NEW T \in SUBSET U, T # {}
        PROVE  T \ {Pick(T)} \in SUBSET U /\ has(T \ {Pick(T)})
    <3>1. Pick(T) \in T
      BY <2>1 DEF Pick
    <3> QED
      BY <1>3, <3>1
  <2>2. ASSUME NEW T \in SUBSET U, has(T) PROVE h[T] = Fn(T)[T]
    <3>1. Fn(T)[T] = IF T = {} THEN 0 ELSE f[Pick(T)] + Fn(T)[T \ {Pick(T)}]
      BY <1>2, <2>2 DEF Sums
    <3>2. ASSUME T # {} PROVE Fn(T)[T \ {Pick(T)}] = Fn(T \ {Pick(T)})[T \ {Pick(T)}]
      <4>1. Sums(f, T, Fn(T)) /\ Sums(f, T \ {Pick(T)}, Fn(T \ {Pick(T)}))
        BY <1>2, <2>1, <2>2, <3>2
      <4>2. IsFiniteSet(T \ {Pick(T)})
        BY <1>1
      <4> QED
        BY <4>1, <4>2, SumsAgree
    <3> QED
      BY <3>1, <3>2
  <2>3. \A T \in SUBSET U : T # {} =>
           h[T \ {Pick(T)}] = Fn(T \ {Pick(T)})[T \ {Pick(T)}]
    BY <2>1, <2>2
  <2>4. h = [T \in SUBSET U |-> IF T = {} THEN 0 ELSE f[Pick(T)] + h[T \ {Pick(T)}]]
    BY <2>3
  <2>5. Sums(f, U, h)
    BY <2>4 DEF Sums
  <2> QED
    BY <2>5 DEF has
<1>4. S \in D
  <2> USE <1>3
  <2> HIDE DEF D
  <2> QED
    BY <1>3, SetInduction
<1> QED
  BY <1>4

(* The equation of the fold.                                               *)
LEMMA SumStep ==
    ASSUME NEW f, NEW S, IsFiniteSet(S)
    PROVE  Total(f, S) = IF S = {} THEN 0 ELSE f[Pick(S)] + Total(f, S \ {Pick(S)})
<1> DEFINE Fn(T) == CHOOSE g : Sums(f, T, g)
           R == S \ {Pick(S)}
<1>1. \A T : Total(f, T) = Fn(T)[T]
  BY DEF Total, SumFunctionOnSet, FoldFunctionOnSet, MapThenFoldSet, Sums, Pick
<1>2. IsFiniteSet(R)
  BY FS_Subset
<1>3. Sums(f, S, Fn(S)) /\ Sums(f, R, Fn(R))
  BY <1>2, SumsExist
<1> HIDE DEF Fn
<1>4. Fn(S)[S] = IF S = {} THEN 0 ELSE f[Pick(S)] + Fn(S)[R]
  BY <1>3 DEF Sums
<1>5. Fn(S)[R] = Fn(R)[R]
  BY <1>2, <1>3, SumsAgree
<1> QED
  BY <1>1, <1>4, <1>5

(* Sums of numbers.                                                        *)

LEMMA SumType ==
    ASSUME NEW S, IsFiniteSet(S), NEW f, \A x \in S : f[x] \in Nat
    PROVE  Total(f, S) \in Nat
<1> DEFINE D == {T \in SUBSET S : Total(f, T) \in Nat}
<1>1. ASSUME NEW T \in SUBSET S, \A V \in SUBSET T : V # T => V \in D
      PROVE  T \in D
  <2>1. T # {} => Pick(T) \in T
    BY DEF Pick
  <2>2. T # {} => Total(f, T \ {Pick(T)}) \in Nat
    BY <1>1, <2>1
  <2>3. Total(f, T) = IF T = {} THEN 0 ELSE f[Pick(T)] + Total(f, T \ {Pick(T)})
    BY SumStep, FS_Subset
  <2> QED
    BY <2>1, <2>2, <2>3
<1>2. S \in D
  <2> HIDE DEF D
  <2> QED
    BY <1>1, SetInduction
<1> QED
  BY <1>2

(* The order of the summands does not matter.                              *)
LEMMA SumRemove ==
    ASSUME NEW S, IsFiniteSet(S), NEW f, \A x \in S : f[x] \in Nat, NEW a \in S
    PROVE  Total(f, S) = f[a] + Total(f, S \ {a})
<1> DEFINE D == {T \in SUBSET S : \A x \in T : Total(f, T) = f[x] + Total(f, T \ {x})}
<1>1. \A T \in SUBSET S : IsFiniteSet(T) /\ Total(f, T) \in Nat
  BY FS_Subset, SumType
<1>2. ASSUME NEW T \in SUBSET S, \A V \in SUBSET T : V # T => V \in D
      PROVE  T \in D
  <2> SUFFICES ASSUME NEW x \in T PROVE Total(f, T) = f[x] + Total(f, T \ {x})
    OBVIOUS
  <2> DEFINE y == Pick(T)
  <2>1. y \in T
    BY DEF Pick
  <2>2. Total(f, T) = f[y] + Total(f, T \ {y})
    BY <1>1, SumStep
  <2>3. ASSUME x # y PROVE Total(f, T) = f[x] + Total(f, T \ {x})
    <3> HIDE DEF y
    <3>1. T \ {x} \in D /\ T \ {y} \in D
      BY <1>2, <2>1
    <3>2. Total(f, T \ {y}) = f[x] + Total(f, (T \ {y}) \ {x})
      BY <2>3, <3>1
    <3>3. Total(f, T \ {x}) = f[y] + Total(f, (T \ {x}) \ {y})
      BY <2>1, <2>3, <3>1
    <3>4. Total(f, (T \ {y}) \ {x}) = Total(f, (T \ {x}) \ {y})
      <4>1. (T \ {y}) \ {x} = (T \ {x}) \ {y}
        OBVIOUS
      <4> QED
        BY <4>1, Zenon
    <3>5. /\ f[x] \in Nat /\ f[y] \in Nat /\ Total(f, (T \ {x}) \ {y}) \in Nat
          /\ Total(f, T \ {x}) \in Nat /\ Total(f, T \ {y}) \in Nat
      BY <1>1, <2>1
    <3> HIDE DEF D
    <3> QED
      BY <2>2, <3>2, <3>3, <3>4, <3>5
  <2> QED
    BY <2>2, <2>3
<1>3. S \in D
  <2> HIDE DEF D
  <2> QED
    BY <1>2, SetInduction
<1> QED
  BY <1>3

LEMMA SumSame ==
    ASSUME NEW S, IsFiniteSet(S), NEW f, NEW g, \A x \in S : f[x] = g[x]
    PROVE  Total(f, S) = Total(g, S)
<1> DEFINE D == {T \in SUBSET S : Total(f, T) = Total(g, T)}
<1>1. ASSUME NEW T \in SUBSET S, \A V \in SUBSET T : V # T => V \in D
      PROVE  T \in D
  <2>1. T # {} => Pick(T) \in T
    BY DEF Pick
  <2>2. T # {} => Total(f, T \ {Pick(T)}) = Total(g, T \ {Pick(T)})
    BY <1>1, <2>1
  <2>3. /\ Total(f, T) = IF T = {} THEN 0 ELSE f[Pick(T)] + Total(f, T \ {Pick(T)})
        /\ Total(g, T) = IF T = {} THEN 0 ELSE g[Pick(T)] + Total(g, T \ {Pick(T)})
    BY SumStep, FS_Subset
  <2> QED
    BY <2>1, <2>2, <2>3
<1>2. S \in D
  <2> HIDE DEF D
  <2> QED
    BY <1>1, SetInduction
<1> QED
  BY <1>2

LEMMA SumUnion ==
    ASSUME NEW S, IsFiniteSet(S), NEW f, \A x \in S : f[x] \in Nat, NEW R \in SUBSET S
    PROVE  Total(f, S) = Total(f, R) + Total(f, S \ R)
<1> DEFINE D == {T \in SUBSET R : Total(f, S) = Total(f, T) + Total(f, S \ T)}
<1>1. \A T \in SUBSET S : IsFiniteSet(T) /\ Total(f, T) \in Nat
  BY FS_Subset, SumType
<1>2. ASSUME NEW T \in SUBSET R, \A V \in SUBSET T : V # T => V \in D
      PROVE  T \in D
  <2>1. CASE T = {}
    <3>1. Total(f, T) = 0
      BY <1>1, <2>1, SumStep
    <3>2. S \ T = S
      BY <2>1
    <3> QED
      BY <1>1, <3>1, <3>2
  <2>2. ASSUME NEW x \in T PROVE Total(f, S) = Total(f, T) + Total(f, S \ T)
    <3>1. Total(f, S) = Total(f, T \ {x}) + Total(f, S \ (T \ {x}))
      BY <1>2, <2>2
    <3>2. Total(f, T) = f[x] + Total(f, T \ {x})
      BY <1>1, <2>2, SumRemove
    <3>3. Total(f, S \ (T \ {x})) = f[x] + Total(f, (S \ (T \ {x})) \ {x})
      <4> DEFINE U == S \ (T \ {x})
      <4>1. U \in SUBSET S /\ x \in U
        OBVIOUS
      <4> HIDE DEF U
      <4>2. Total(f, U) = f[x] + Total(f, U \ {x})
        BY <1>1, <4>1, SumRemove
      <4> QED
        BY <4>2 DEF U
    <3>4. Total(f, (S \ (T \ {x})) \ {x}) = Total(f, S \ T)
      <4>1. (S \ (T \ {x})) \ {x} = S \ T
        OBVIOUS
      <4> QED
        BY <4>1, Zenon
    <3>5. f[x] \in Nat /\ Total(f, T \ {x}) \in Nat /\ Total(f, S \ T) \in Nat
      BY <1>1
    <3> HIDE DEF D
    <3> QED
      BY <3>1, <3>2, <3>3, <3>4, <3>5
  <2> QED
    BY <2>1, <2>2
<1>3. R \in D
  <2>1. IsFiniteSet(R)
    BY <1>1
  <2> HIDE DEF D
  <2> QED
    BY <1>2, <2>1, SetInduction
<1> QED
  BY <1>3

-----------------------------------------------------------------------------
(* Counting.                                                               *)

LEMMA CountImage ==
    ASSUME NEW S, IsFiniteSet(S), NEW T, NEW f \in [S -> T], \A y \in T : \E x \in S : f[x] = y
    PROVE  /\ IsFiniteSet(T)
           /\ Cardinality(T) <= Cardinality(S)
           /\ IsInjective(f) => Cardinality(T) = Cardinality(S)
<1>1. f \in Surjection(S, T)
  BY DEF Surjection
<1>2. IsInjective(f) => f \in Injection(S, T)
  BY DEF Injection
<1> QED
  BY <1>1, <1>2, FS_Surjection

LEMMA CountUnion ==
    ASSUME NEW S, IsFiniteSet(S), NEW T, IsFiniteSet(T)
    PROVE  /\ IsFiniteSet(S \cup T)
           /\ Cardinality(S) \in Nat /\ Cardinality(T) \in Nat /\ Cardinality(S \cup T) \in Nat
           /\ Cardinality(S \cup T) <= Cardinality(S) + Cardinality(T)
           /\ S \cap T = {} => Cardinality(S \cup T) = Cardinality(S) + Cardinality(T)
<1>1. IsFiniteSet(S \cap T) /\ IsFiniteSet(S \cup T)
  BY FS_Intersection, FS_Union
<1>2. /\ Cardinality(S) \in Nat /\ Cardinality(T) \in Nat
      /\ Cardinality(S \cup T) \in Nat /\ Cardinality(S \cap T) \in Nat
  BY <1>1, FS_CardinalityType
<1>3. Cardinality(S \cup T) = Cardinality(S) + Cardinality(T) - Cardinality(S \cap T)
  BY FS_Union
<1>4. S \cap T = {} => Cardinality(S \cap T) = 0
  BY FS_EmptySet
<1> QED
  BY <1>1, <1>2, <1>3, <1>4

(* The parts of a set, by a key of its elements, add up to the whole.      *)
Part(X, k, c) == {x \in X : k[x] = c}
Parts(X, k, C) == {x \in X : k[x] \in C}

LEMMA PartsStep ==
    ASSUME NEW X, NEW k, NEW C, NEW c \in C
    PROVE  /\ Parts(X, k, C) = Part(X, k, c) \cup Parts(X, k, C \ {c})
           /\ Part(X, k, c) \cap Parts(X, k, C \ {c}) = {}
           /\ Parts(X, k, {}) = {}
  BY DEF Part, Parts

LEMMA CountParts ==
    ASSUME NEW X, IsFiniteSet(X), NEW k, NEW C, IsFiniteSet(C), NEW n,
           \A c \in C : n[c] = Cardinality(Part(X, k, c))
    PROVE  Total(n, C) = Cardinality(Parts(X, k, C))
<1> DEFINE D == {B \in SUBSET C : Total(n, B) = Cardinality(Parts(X, k, B))}
<1>1. \A c, B : IsFiniteSet(Part(X, k, c)) /\ IsFiniteSet(Parts(X, k, B))
  BY FS_Subset DEF Part, Parts
<1>2. \A c \in C : n[c] \in Nat
  BY <1>1, FS_CardinalityType
<1>3. ASSUME NEW B \in SUBSET C, \A V \in SUBSET B : V # B => V \in D
      PROVE  B \in D
  <2>1. CASE B = {}
    <3>1. Total(n, B) = 0
      BY <2>1, FS_EmptySet, SumStep
    <3>2. Parts(X, k, B) = {}
      BY <2>1 DEF Parts
    <3> QED
      BY <3>1, <3>2, FS_EmptySet
  <2>2. ASSUME NEW c \in B PROVE Total(n, B) = Cardinality(Parts(X, k, B))
    <3>1. Total(n, B \ {c}) = Cardinality(Parts(X, k, B \ {c}))
      BY <1>3, <2>2
    <3>2. Total(n, B) = n[c] + Total(n, B \ {c})
      <4>1. IsFiniteSet(B)
        BY FS_Subset
      <4> QED
        BY <1>2, <4>1, SumRemove
    <3>3. Cardinality(Parts(X, k, B))
            = Cardinality(Part(X, k, c)) + Cardinality(Parts(X, k, B \ {c}))
      <4> DEFINE P == Part(X, k, c)
                 R == Parts(X, k, B \ {c})
      <4>1. Parts(X, k, B) = P \cup R /\ P \cap R = {}
        BY PartsStep
      <4>2. IsFiniteSet(P) /\ IsFiniteSet(R)
        BY <1>1
      <4> HIDE DEF P, R
      <4>3. Cardinality(P \cup R) = Cardinality(P) + Cardinality(R)
        BY <4>1, <4>2, CountUnion
      <4>4. Cardinality(Parts(X, k, B)) = Cardinality(P) + Cardinality(R)
        BY <4>1, <4>3, Zenon
      <4> QED
        BY <4>4 DEF P, R
    <3> QED
      BY <3>1, <3>2, <3>3
  <2> QED
    BY <2>1, <2>2
<1>4. C \in D
  <2> HIDE DEF D
  <2> QED
    BY <1>3, SetInduction
<1> QED
  BY <1>4

LEMMA SumParts ==
    ASSUME NEW X, IsFiniteSet(X), NEW f, \A x \in X : f[x] \in Nat,
           NEW k, NEW C, IsFiniteSet(C), NEW n,
           \A c \in C : n[c] = Total(f, Part(X, k, c))
    PROVE  Total(n, C) = Total(f, Parts(X, k, C))
<1> DEFINE D == {B \in SUBSET C : Total(n, B) = Total(f, Parts(X, k, B))}
<1>1. \A c, B : /\ Part(X, k, c) \in SUBSET X /\ IsFiniteSet(Part(X, k, c))
                /\ Parts(X, k, B) \in SUBSET X /\ IsFiniteSet(Parts(X, k, B))
  BY FS_Subset DEF Part, Parts
<1>2. \A c \in C : n[c] \in Nat
  BY <1>1, SumType
<1>3. ASSUME NEW B \in SUBSET C, \A V \in SUBSET B : V # B => V \in D
      PROVE  B \in D
  <2>1. CASE B = {}
    <3>1. Total(n, B) = 0
      BY <2>1, FS_EmptySet, SumStep
    <3>2. Parts(X, k, B) = {}
      BY <2>1 DEF Parts
    <3>3. Total(f, {}) = 0
      BY FS_EmptySet, SumStep
    <3> QED
      BY <3>1, <3>2, <3>3
  <2>2. ASSUME NEW c \in B PROVE Total(n, B) = Total(f, Parts(X, k, B))
    <3>1. Total(n, B \ {c}) = Total(f, Parts(X, k, B \ {c}))
      BY <1>3, <2>2
    <3>2. Total(n, B) = n[c] + Total(n, B \ {c})
      <4>1. IsFiniteSet(B)
        BY FS_Subset
      <4> QED
        BY <1>2, <4>1, SumRemove
    <3>3. Total(f, Parts(X, k, B)) = Total(f, Part(X, k, c)) + Total(f, Parts(X, k, B \ {c}))
      <4> DEFINE P == Part(X, k, c)
                 R == Parts(X, k, B \ {c})
                 W == Parts(X, k, B)
      <4>1. P \in SUBSET W /\ W \ P = R
        BY PartsStep
      <4>2. IsFiniteSet(W) /\ \A x \in W : f[x] \in Nat
        BY <1>1
      <4> HIDE DEF P, R, W
      <4>3. Total(f, W) = Total(f, P) + Total(f, W \ P)
        BY <4>1, <4>2, SumUnion
      <4>4. Total(f, W) = Total(f, P) + Total(f, R)
        BY <4>1, <4>3, Zenon
      <4> QED
        BY <4>4 DEF P, R, W
    <3> QED
      BY <3>1, <3>2, <3>3
  <2> QED
    BY <2>1, <2>2
<1>4. C \in D
  <2> HIDE DEF D
  <2> QED
    BY <1>3, SetInduction
<1> QED
  BY <1>4

-----------------------------------------------------------------------------
(* Ranks: where each element stands in a finite set that is in order.      *)

\* Below[x] is what comes before x.
LEMMA Ranks ==
    ASSUME NEW S, IsFiniteSet(S), NEW Below \in [S -> SUBSET S],
           \A x \in S : x \notin Below[x],
           \A x, y \in S : \/ x = y
                           \/ x \in Below[y] /\ Below[x] \subseteq Below[y]
                           \/ y \in Below[x] /\ Below[y] \subseteq Below[x]
    PROVE  /\ Cardinality(S) \in Nat
           /\ \A x \in S : /\ IsFiniteSet(Below[x])
                           /\ Cardinality(Below[x]) \in 0..(Cardinality(S) - 1)
           /\ \A x, y \in S : Cardinality(Below[x]) = Cardinality(Below[y]) => x = y
           /\ \A n \in Nat : n < Cardinality(S) => \E x \in S : Cardinality(Below[x]) = n
<1> DEFINE c == Cardinality(S)
           rank == [x \in S |-> Cardinality(Below[x])]
<1>1. c \in Nat
  BY FS_CardinalityType
<1>2. ASSUME NEW x \in S PROVE IsFiniteSet(Below[x]) /\ Cardinality(Below[x]) \in 0..(c - 1)
  <2>1. Below[x] \in SUBSET S
    OBVIOUS
  <2>2. IsFiniteSet(Below[x]) /\ Cardinality(Below[x]) \in Nat /\ Cardinality(Below[x]) <= c
    BY <2>1, FS_Subset, FS_CardinalityType
  <2>3. Cardinality(Below[x]) # c
    BY <2>1, FS_Subset
  <2> QED
    BY <1>1, <2>2, <2>3
<1>3. ASSUME NEW x \in S, NEW y \in S, x \in Below[y], Below[x] \subseteq Below[y]
      PROVE  Cardinality(Below[x]) # Cardinality(Below[y])
  <2>1. Below[x] \in SUBSET Below[y] /\ IsFiniteSet(Below[y]) /\ x \notin Below[x]
    BY <1>2, <1>3
  <2> QED
    BY <1>3, <2>1, FS_Subset
<1>4. ASSUME NEW x \in S, NEW y \in S, Cardinality(Below[x]) = Cardinality(Below[y]) PROVE x = y
  BY <1>3, <1>4
<1>5. rank \in Injection(S, 0..(c - 1))
  BY <1>2, <1>4 DEF Injection, IsInjective
<1>6. IsFiniteSet(0..(c - 1)) /\ Cardinality(0..(c - 1)) = c
  <2>1. 0 \in Int /\ c - 1 \in Int
    BY <1>1
  <2>2. IsFiniteSet(0..(c - 1)) /\ Cardinality(0..(c - 1)) = IF 0 > c - 1 THEN 0 ELSE (c - 1) - 0 + 1
    BY <2>1, FS_Interval, Zenon
  <2> QED
    BY <1>1, <2>2
<1>7. rank \in Surjection(S, 0..(c - 1))
  BY <1>5, <1>6, FS_Injection
<1>8. ASSUME NEW n \in Nat, n < c PROVE \E x \in S : Cardinality(Below[x]) = n
  <2>1. n \in 0..(c - 1)
    BY <1>1, <1>8
  <2> QED
    BY <1>7, <2>1 DEF Surjection
<1> QED
  BY <1>1, <1>2, <1>4, <1>8

LEMMA RankTaken ==
    ASSUME NEW S, IsFiniteSet(S), NEW Below \in [S -> SUBSET S],
           \A x \in S : x \notin Below[x],
           \A x, y \in S : \/ x = y
                           \/ x \in Below[y] /\ Below[x] \subseteq Below[y]
                           \/ y \in Below[x] /\ Below[y] \subseteq Below[x],
           NEW n \in Nat, n < Cardinality(S)
    PROVE  \E x \in S : Cardinality(Below[x]) = n
  BY Ranks

\* As many elements as positions, or less, have their rank in an interval.
LEMMA SliceSize ==
    ASSUME NEW S, IsFiniteSet(S), NEW rank \in [S -> Nat], IsInjective(rank), NEW k \in Nat
    PROVE  Cardinality({x \in S : rank[x] \in 0..(k - 1)}) <= k
<1> DEFINE T == {x \in S : rank[x] \in 0..(k - 1)}
           f == [x \in T |-> rank[x]]
<1>1. f \in Injection(T, 0..(k - 1))
  BY DEF Injection, IsInjective
<1>2. IsFiniteSet(0..(k - 1)) /\ Cardinality(0..(k - 1)) = k
  <2>1. 0 \in Int /\ k - 1 \in Int
    OBVIOUS
  <2>2. IsFiniteSet(0..(k - 1)) /\ Cardinality(0..(k - 1)) = IF 0 > k - 1 THEN 0 ELSE (k - 1) - 0 + 1
    BY <2>1, FS_Interval, Zenon
  <2> QED
    BY <2>2
<1> HIDE DEF T, f
<1>3. Cardinality(T) <= Cardinality(0..(k - 1))
  BY <1>1, <1>2, FS_Injection
<1> QED
  BY <1>2, <1>3 DEF T

\* The n-th of a finite set of numbers.
LEMMA NthOf ==
    ASSUME NEW K \in SUBSET Int, IsFiniteSet(K), NEW n \in 1..Cardinality(K)
    PROVE  /\ Nth(K, n) \in K
           /\ Cardinality({j \in K : j <= Nth(K, n)}) = n
<1> DEFINE Below == [i \in K |-> {j \in K : j < i}]
<1>1. Below \in [K -> SUBSET K] /\ \A i \in K : Below[i] = {j \in K : j < i}
  <2>1. \A i \in K : {j \in K : j < i} \in SUBSET K
    OBVIOUS
  <2> QED
    BY <2>1
<1> HIDE DEF Below
<1>2. /\ Cardinality(K) \in Nat
      /\ \A i \in K : IsFiniteSet(Below[i]) /\ Cardinality(Below[i]) \in Nat
      /\ \A m \in Nat : m < Cardinality(K) => \E i \in K : Cardinality(Below[i]) = m
  <2>1. \A i, j \in K : j \in Below[i] <=> j < i
    BY <1>1, Zenon
  <2>2. \A i \in K : Below[i] \subseteq K
    BY <1>1
  <2>3. \A i \in K : i \notin Below[i]
    BY <2>1
  <2>4. ASSUME NEW i \in K, NEW j \in K, i < j PROVE i \in Below[j] /\ Below[i] \subseteq Below[j]
    <3>1. \A k \in K : k < i => k < j
      BY <2>4
    <3> QED
      BY <2>1, <2>2, <2>4, <3>1
  <2>5. \A i, j \in K : i = j \/ i < j \/ j < i
    OBVIOUS
  <2>6. \A i, j \in K : \/ i = j
                        \/ i \in Below[j] /\ Below[i] \subseteq Below[j]
                        \/ j \in Below[i] /\ Below[j] \subseteq Below[i]
    BY <2>4, <2>5
  <2>7. /\ Cardinality(K) \in Nat
        /\ \A i \in K : /\ IsFiniteSet(Below[i])
                        /\ Cardinality(Below[i]) \in 0..(Cardinality(K) - 1)
        /\ \A m \in Nat : m < Cardinality(K) => \E i \in K : Cardinality(Below[i]) = m
    <3>1. Below \in [K -> SUBSET K]
      BY <1>1
    <3> QED
      <4>1. \A i \in K : i \notin Below[i]
        BY <2>3
      <4>2. \A i, j \in K : \/ i = j
                            \/ i \in Below[j] /\ Below[i] \subseteq Below[j]
                            \/ j \in Below[i] /\ Below[j] \subseteq Below[i]
        BY <2>6
      <4>3. IsFiniteSet(K)
        OBVIOUS
      <4>4. Cardinality(K) \in Nat
        BY <4>3, <3>1, <4>1, <4>2, Ranks
      <4>5. \A i \in K : /\ IsFiniteSet(Below[i])
                        /\ Cardinality(Below[i]) \in 0..(Cardinality(K) - 1)
        BY <4>3, <3>1, <4>1, <4>2, Ranks
      <4>6. \A m \in Nat : m < Cardinality(K) => \E i \in K : Cardinality(Below[i]) = m
        <5>1. PICK B \in [K -> SUBSET K] : B = Below
          BY <3>1
        <5>2. \A i \in K : i \notin B[i]
          BY <4>1, <5>1
        <5>3. \A i, j \in K : \/ i = j
                              \/ i \in B[j] /\ B[i] \subseteq B[j]
                              \/ j \in B[i] /\ B[j] \subseteq B[i]
          BY <4>2, <5>1
        <5> HIDE DEF Below
        <5>4. \A m \in Nat : m < Cardinality(K) => \E i \in K : Cardinality(B[i]) = m
          BY <4>3, <5>2, <5>3, RankTaken
        <5> QED
          BY <5>1, <5>4
      <4> QED
        BY <4>4, <4>5, <4>6
  <2> QED
    BY <2>7
<1>3. \A i \in K : Cardinality({j \in K : j <= i}) = Cardinality(Below[i]) + 1
  <2> TAKE i \in K
  <2>1. {j \in K : j <= i} = Below[i] \cup {i} /\ i \notin Below[i]
    <3>1. \A j \in K : (j <= i <=> j < i \/ j = i) /\ ~(i < i)
      OBVIOUS
    <3>2. \A j : j \in Below[i] <=> j \in K /\ j < i
      BY <1>1, Zenon
    <3> QED
      BY <3>1, <3>2
  <2>2. Cardinality(Below[i] \cup {i}) = Cardinality(Below[i]) + 1
    BY <1>2, <2>1, FS_AddElement
  <2> QED
    BY <2>1, <2>2, Zenon
<1>4. \E i \in K : Cardinality({j \in K : j <= i}) = n
  <2>1. n - 1 \in Nat /\ n - 1 < Cardinality(K) /\ (n - 1) + 1 = n
    BY <1>2
  <2>2. PICK i \in K : Cardinality(Below[i]) = n - 1
    BY <1>2, <2>1
  <2> QED
    BY <1>3, <2>1, <2>2
<1> QED
  BY <1>4, Zenon DEF Nth

LEMMA SortedAll ==
    ASSUME NEW K \in SUBSET Int, IsFiniteSet(K)
    PROVE  /\ Cardinality(K) \in Nat
           /\ Sorted(K) \in Seq(K)
           /\ Len(Sorted(K)) = Cardinality(K)
           /\ DOMAIN Sorted(K) = 1..Cardinality(K)
           /\ \A i \in K : \E n \in DOMAIN Sorted(K) : Sorted(K)[n] = i
<1> DEFINE c == Cardinality(K)
           s == Sorted(K)
<1>1. c \in Nat
  BY FS_CardinalityType
<1>2. s = [n \in 1..c |-> Nth(K, n)]
  BY DEF Sorted
<1>3. \A n \in 1..c : Nth(K, n) \in K /\ Cardinality({j \in K : j <= Nth(K, n)}) = n
  BY NthOf
<1> HIDE DEF s
<1>4. s \in [1..c -> K]
  BY <1>2, <1>3
<1>5. IsFiniteSet(1..c) /\ Cardinality(1..c) = c
  <2>1. IsFiniteSet(1..c) /\ Cardinality(1..c) = IF 1 > c THEN 0 ELSE c - 1 + 1
    BY <1>1, FS_Interval
  <2> QED
    BY <1>1, <2>1
<1>6. s \in Injection(1..c, K)
  <2>1. ASSUME NEW m \in 1..c, NEW n \in 1..c, s[m] = s[n] PROVE m = n
    <3>1. Nth(K, m) = Nth(K, n)
      BY <1>2, <2>1
    <3> QED
      BY <1>3, <3>1
  <2> QED
    BY <1>4, <2>1 DEF Injection, IsInjective
<1>7. s \in Surjection(1..c, K)
  BY <1>5, <1>6, FS_Injection
<1> QED
  BY <1>1, <1>4, <1>7 DEF Surjection, s
=============================================================================
