-------------------------------- MODULE Sums ---------------------------------
(***************************************************************************)
(* What the sums of the community module Functions compute, for every      *)
(* finite set.  The module defines them with a fold, a function chosen to  *)
(* satisfy a recursion over subsets: that such a function exists, and      *)
(* which one is chosen, is shown here.  Induction is by smallest           *)
(* counterexample (LeastNat, SmallestSet), which needs no theorem with an  *)
(* operator for a parameter.                                               *)
(***************************************************************************)
EXTENDS Functions, FiniteSetTheorems, WellFoundedInduction, TLAPS

(* A set of natural numbers has a least one. *)
LEMMA LeastNat ==
  ASSUME NEW T \in SUBSET Nat, T # {}
  PROVE  \E x \in T : \A y \in T : x <= y
<1>1. \E x \in T : \A y \in T : ~ (<<y, x>> \in OpToRel(<, Nat))
  BY WFMin, NatLessThanWellFounded
<1>2. PICK x \in T : \A y \in T : ~ (<<y, x>> \in OpToRel(<, Nat))
  BY <1>1
<1>3. \A y \in T : ~(y < x)
  BY <1>2 DEF OpToRel
<1>. QED
  BY <1>3

(* An element of a set, the one the folds take first. *)
Some(s) == CHOOSE x \in s : TRUE

(* g gives every subset of S its sum of f, element by element. *)
Unfolds(f, S, g) ==
  g = [s \in SUBSET S |-> IF s = {} THEN 0 ELSE f[Some(s)] + g[s \ {Some(s)}]]

(* The sum of the library is one of those. *)
LEMMA SumIsUnfolding ==
  ASSUME NEW f, NEW S
  PROVE  SumFunctionOnSet(f, S) = (CHOOSE g : Unfolds(f, S, g))[S]
  BY DEF SumFunctionOnSet, FoldFunctionOnSet, MapThenFoldSet, Unfolds, Some

(* g unfolds as a sum on the sets of at most n elements. *)
UpTo(f, S, n, g) ==
  /\ g = [s \in SUBSET S |-> g[s]]
  /\ \A s \in SUBSET S : Cardinality(s) <= n =>
       g[s] = IF s = {} THEN 0 ELSE f[Some(s)] + g[s \ {Some(s)}]

(* Some picks an element. *)
LEMMA SomeIn ==
  ASSUME NEW s, s # {}
  PROVE  Some(s) \in s
  BY DEF Some

(* Without it a finite set is smaller by one. *)
LEMMA Smaller ==
  ASSUME NEW s, IsFiniteSet(s), s # {}
  PROVE  /\ IsFiniteSet(s \ {Some(s)}) /\ s \ {Some(s)} # s
         /\ Cardinality(s) \in Nat /\ Cardinality(s) > 0
         /\ Cardinality(s \ {Some(s)}) = Cardinality(s) - 1
<1>1. Some(s) \in s
  BY SomeIn
<1>2. Cardinality(s) \in Nat /\ Cardinality(s) # 0
  BY FS_CardinalityType, FS_EmptySet
<1>. QED
  BY <1>1, <1>2, FS_RemoveElement

(* Such a g exists for the empty set, *)
LEMMA UpToZero ==
  ASSUME NEW f, NEW S, IsFiniteSet(S)
  PROVE  \E g : UpTo(f, S, 0, g)
<1> DEFINE g == [s \in SUBSET S |-> 0]
<1>1. g = [s \in SUBSET S |-> g[s]]
  OBVIOUS
<1>2. ASSUME NEW s \in SUBSET S, Cardinality(s) <= 0
      PROVE  s = {}
  BY <1>2, FS_Subset, FS_EmptySet, FS_CardinalityType
<1>3. \A s \in SUBSET S : g[s] = 0
  OBVIOUS
<1> HIDE DEF g
<1>4. UpTo(f, S, 0, g)
  BY <1>1, <1>2, <1>3 DEF UpTo
<1>. QED
  BY <1>4

(* for one more element, *)
LEMMA UpToNext ==
  ASSUME NEW f, NEW S, IsFiniteSet(S), NEW n \in Nat, \E g : UpTo(f, S, n, g)
  PROVE  \E g : UpTo(f, S, n + 1, g)
<1>1. PICK g : UpTo(f, S, n, g)
  OBVIOUS
<1> DEFINE h == [s \in SUBSET S |-> IF Cardinality(s) = n + 1 THEN f[Some(s)] + g[s \ {Some(s)}] ELSE g[s]]
<1>2. h = [s \in SUBSET S |-> h[s]]
  OBVIOUS
<1>3. \A s \in SUBSET S : h[s] = IF Cardinality(s) = n + 1 THEN f[Some(s)] + g[s \ {Some(s)}] ELSE g[s]
  OBVIOUS
<1> HIDE DEF h
<1>4. ASSUME NEW s \in SUBSET S, Cardinality(s) <= n + 1
      PROVE  h[s] = IF s = {} THEN 0 ELSE f[Some(s)] + h[s \ {Some(s)}]
  <2>1. IsFiniteSet(s) /\ Cardinality(s) \in Nat
    BY FS_Subset, FS_CardinalityType
  <2>2. CASE s = {}
    <3>1. Cardinality(s) = 0
      BY <2>2, FS_EmptySet
    <3>4. Cardinality(s) <= n /\ Cardinality(s) # n + 1
      BY <3>1
    <3>2. g[s] = 0
      BY <1>1, <2>2, <3>4 DEF UpTo
    <3>3. h[s] = g[s]
      BY <1>3, <3>4
    <3>. QED
      BY <2>2, <3>2, <3>3
  <2>3. CASE s # {}
    <3>1. Cardinality(s \ {Some(s)}) = Cardinality(s) - 1
      BY <2>1, <2>3, Smaller
    <3> DEFINE t == s \ {Some(s)}
    <3>5. t \in SUBSET S /\ Cardinality(t) # n + 1
      BY <1>4, <2>1, <3>1
    <3> HIDE DEF t
    <3>6. h[t] = g[t]
      BY <1>3, <3>5
    <3>2. t \in SUBSET S /\ Cardinality(t) # n + 1 /\ h[s \ {Some(s)}] = g[s \ {Some(s)}]
      BY <3>5, <3>6 DEF t
    <3>3. CASE Cardinality(s) = n + 1
      BY <1>3, <2>3, <3>2, <3>3
    <3>4. CASE Cardinality(s) # n + 1
      <4>1. Cardinality(s) <= n
        BY <1>4, <2>1, <3>4
      <4>. QED
        BY <1>1, <1>3, <2>3, <3>2, <3>4, <4>1 DEF UpTo
    <3>. QED
      BY <3>3, <3>4
  <2>. QED
    BY <2>2, <2>3
<1>5. UpTo(f, S, n + 1, h)
  BY <1>2, <1>4 DEF UpTo
<1>. QED
  BY <1>5

(* and for any number of them. *)
LEMMA UpToAll ==
  ASSUME NEW f, NEW S, IsFiniteSet(S)
  PROVE  \A n \in Nat : \E g : UpTo(f, S, n, g)
<1> DEFINE T == {n \in Nat : ~ \E g : UpTo(f, S, n, g)}
<1>1. SUFFICES ASSUME T # {} PROVE FALSE
  OBVIOUS
<1>2. PICK n \in T : \A m \in T : n <= m
  BY <1>1, LeastNat
<1>3. n # 0
  BY UpToZero
<1>4. n - 1 \in Nat /\ n - 1 \notin T /\ n = (n - 1) + 1
  BY <1>2, <1>3
<1>. QED
  BY <1>4, UpToNext

(* So a finite set has an unfolding. *)
LEMMA UnfoldingExists ==
  ASSUME NEW f, NEW S, IsFiniteSet(S)
  PROVE  \E g : Unfolds(f, S, g)
<1>1. Cardinality(S) \in Nat
  BY FS_CardinalityType
<1>2. PICK g : UpTo(f, S, Cardinality(S), g)
  BY <1>1, UpToAll
<1>3. \A s \in SUBSET S : Cardinality(s) <= Cardinality(S)
  BY FS_Subset
<1>4. \A s \in SUBSET S : g[s] = IF s = {} THEN 0 ELSE f[Some(s)] + g[s \ {Some(s)}]
  BY <1>2, <1>3 DEF UpTo
<1>5. g = [s \in SUBSET S |-> IF s = {} THEN 0 ELSE f[Some(s)] + g[s \ {Some(s)}]]
  BY <1>2, <1>4 DEF UpTo
<1>. QED
  BY <1>5 DEF Unfolds

(* What an unfolding says of one set. *)
LEMMA Unfolded ==
  ASSUME NEW f, NEW S, NEW g, Unfolds(f, S, g), NEW s \in SUBSET S
  PROVE  /\ s = {} => g[s] = 0
         /\ s # {} => g[s] = f[Some(s)] + g[s \ {Some(s)}]
<1>1. g[s] = IF s = {} THEN 0 ELSE f[Some(s)] + g[s \ {Some(s)}]
  BY DEF Unfolds
<1>. QED
  BY <1>1

(* Two unfoldings agree on the sets both cover. *)
LEMMA UnfoldingsAgree ==
  ASSUME NEW f, NEW S, IsFiniteSet(S), NEW g, Unfolds(f, S, g),
         NEW T \in SUBSET S, NEW h, Unfolds(f, T, h)
  PROVE  \A s \in SUBSET T : g[s] = h[s]
<1> DEFINE Differ == {n \in Nat : \E s \in SUBSET T : Cardinality(s) = n /\ g[s] # h[s]}
<1>1. SUFFICES ASSUME NEW s0 \in SUBSET T, g[s0] # h[s0] PROVE FALSE
  OBVIOUS
<1>2. \A s \in SUBSET T : IsFiniteSet(s) /\ Cardinality(s) \in Nat
  BY FS_Subset, FS_CardinalityType
<1>3. Differ # {}
  BY <1>1, <1>2
<1>4. PICK n \in Differ : \A m \in Differ : n <= m
  BY <1>3, LeastNat
<1>5. PICK s \in SUBSET T : Cardinality(s) = n /\ g[s] # h[s]
  BY <1>4
<1>6. s # {}
  BY <1>5, Unfolded
<1>7. g[s] = f[Some(s)] + g[s \ {Some(s)}] /\ h[s] = f[Some(s)] + h[s \ {Some(s)}]
  BY <1>6, Unfolded
<1>8. /\ s \ {Some(s)} \in SUBSET T
      /\ Cardinality(s \ {Some(s)}) = n - 1 /\ n - 1 \in Nat
  BY <1>2, <1>5, <1>6, Smaller
<1>9. g[s \ {Some(s)}] = h[s \ {Some(s)}]
  BY <1>4, <1>8
<1>. QED
  BY <1>5, <1>7, <1>9

(* The sum, from any unfolding that covers the set. *)
LEMMA SumFromUnfolding ==
  ASSUME NEW f, NEW S, IsFiniteSet(S), NEW g, Unfolds(f, S, g), NEW T \in SUBSET S
  PROVE  SumFunctionOnSet(f, T) = g[T]
<1>1. IsFiniteSet(T)
  BY FS_Subset
<1> DEFINE h == CHOOSE h : Unfolds(f, T, h)
<1>2. Unfolds(f, T, h)
  BY <1>1, UnfoldingExists
<1>3. SumFunctionOnSet(f, T) = h[T]
  BY SumIsUnfolding
<1> HIDE DEF h
<1>. QED
  BY <1>2, <1>3, UnfoldingsAgree

(* The recursion the sum satisfies. *)
LEMMA SumStep ==
  ASSUME NEW f, NEW S, IsFiniteSet(S)
  PROVE  /\ S = {} => SumFunctionOnSet(f, S) = 0
         /\ S # {} => SumFunctionOnSet(f, S) = f[Some(S)] + SumFunctionOnSet(f, S \ {Some(S)})
<1>1. PICK g : Unfolds(f, S, g)
  BY UnfoldingExists
<1>2. SumFunctionOnSet(f, S) = g[S] /\ SumFunctionOnSet(f, S \ {Some(S)}) = g[S \ {Some(S)}]
  BY <1>1, SumFromUnfolding
<1>. QED
  BY <1>1, <1>2, Unfolded

(* Of subsets of a finite set one is smallest. *)
LEMMA SmallestSet ==
  ASSUME NEW S, IsFiniteSet(S), NEW Bad \in SUBSET (SUBSET S), Bad # {}
  PROVE  \E s \in Bad : \A t \in SUBSET s : t # s => t \notin Bad
<1> DEFINE Sizes == {n \in Nat : \E s \in Bad : Cardinality(s) = n}
<1>1. \A s \in SUBSET S : IsFiniteSet(s) /\ Cardinality(s) \in Nat
  BY FS_Subset, FS_CardinalityType
<1>2. Sizes # {}
  BY <1>1
<1>3. PICK n \in Sizes : \A m \in Sizes : n <= m
  BY <1>2, LeastNat
<1>4. PICK s \in Bad : Cardinality(s) = n
  BY <1>3
<1>5. ASSUME NEW t \in SUBSET s, t # s, t \in Bad PROVE FALSE
  <2>1. Cardinality(t) <= Cardinality(s) /\ (Cardinality(s) = Cardinality(t) => s = t)
    BY <1>1, FS_Subset
  <2>2. Cardinality(t) \in Nat /\ Cardinality(t) < n
    BY <1>1, <1>4, <1>5, <2>1
  <2>3. Cardinality(t) \in Sizes
    BY <1>5, <2>2
  <2>. QED
    BY <1>3, <2>2, <2>3
<1>. QED
  BY <1>5

(* A sum of nothing. *)
LEMMA SumEmpty ==
  ASSUME NEW f
  PROVE  SumFunctionOnSet(f, {}) = 0
  BY SumStep, FS_EmptySet

(* A sum of natural numbers is one. *)
LEMMA SumNat ==
  ASSUME NEW f, NEW S, IsFiniteSet(S), \A x \in S : f[x] \in Nat
  PROVE  SumFunctionOnSet(f, S) \in Nat
<1> DEFINE Bad == {s \in SUBSET S : SumFunctionOnSet(f, s) \notin Nat}
<1>1. SUFFICES ASSUME Bad # {} PROVE FALSE
  OBVIOUS
<1>0. Bad \in SUBSET (SUBSET S)
  OBVIOUS
<1> HIDE DEF Bad
<1>2. PICK s \in Bad : \A t \in SUBSET s : t # s => t \notin Bad
  BY <1>0, <1>1, SmallestSet
<1> USE DEF Bad
<1>3. IsFiniteSet(s)
  BY <1>2, FS_Subset
<1>7. s # {}
  <2>1. s = {} => SumFunctionOnSet(f, s) = 0
    BY SumEmpty
  <2>2. SumFunctionOnSet(f, s) \notin Nat
    BY <1>2
  <2>. QED
    BY <2>1, <2>2
<1>4. s # {} /\ SumFunctionOnSet(f, s) = f[Some(s)] + SumFunctionOnSet(f, s \ {Some(s)})
  BY <1>3, <1>7, SumStep
<1>5. Some(s) \in s /\ s \ {Some(s)} # s /\ s \ {Some(s)} \in SUBSET s /\ s \ {Some(s)} \in SUBSET S
  BY <1>2, <1>4, SomeIn
<1>6. SumFunctionOnSet(f, s \ {Some(s)}) \in Nat
  BY <1>2, <1>5
<1>. QED
  BY <1>2, <1>4, <1>5, <1>6

(* Functions that agree on a set have the same sum over it. *)
LEMMA SumSame ==
  ASSUME NEW f, NEW g, NEW S, IsFiniteSet(S), \A x \in S : f[x] = g[x]
  PROVE  SumFunctionOnSet(f, S) = SumFunctionOnSet(g, S)
<1> DEFINE Bad == {s \in SUBSET S : SumFunctionOnSet(f, s) # SumFunctionOnSet(g, s)}
<1>1. SUFFICES ASSUME Bad # {} PROVE FALSE
  OBVIOUS
<1>0. Bad \in SUBSET (SUBSET S)
  OBVIOUS
<1> HIDE DEF Bad
<1>2. PICK s \in Bad : \A t \in SUBSET s : t # s => t \notin Bad
  BY <1>0, <1>1, SmallestSet
<1> USE DEF Bad
<1>3. IsFiniteSet(s)
  BY <1>2, FS_Subset
<1>4. /\ s # {} /\ SumFunctionOnSet(f, s) = f[Some(s)] + SumFunctionOnSet(f, s \ {Some(s)})
      /\ SumFunctionOnSet(g, s) = g[Some(s)] + SumFunctionOnSet(g, s \ {Some(s)})
  BY <1>2, <1>3, SumStep
<1>5. Some(s) \in s /\ s \ {Some(s)} # s /\ s \ {Some(s)} \in SUBSET s /\ s \ {Some(s)} \in SUBSET S
  BY <1>2, <1>4, SomeIn
<1>6. SumFunctionOnSet(f, s \ {Some(s)}) = SumFunctionOnSet(g, s \ {Some(s)})
  BY <1>2, <1>5
<1>7. f[Some(s)] = g[Some(s)]
  BY <1>2, <1>5
<1>. QED
  BY <1>2, <1>4, <1>6, <1>7

(* Any element may be taken out first. *)
LEMMA SumRemove ==
  ASSUME NEW f, NEW S, IsFiniteSet(S), \A x \in S : f[x] \in Nat, NEW x \in S
  PROVE  SumFunctionOnSet(f, S) = f[x] + SumFunctionOnSet(f, S \ {x})
<1> DEFINE Sum(s) == SumFunctionOnSet(f, s)
           Wrong(s, y) == Sum(s) # f[y] + Sum(s \ {y})
           Bad == {s \in SUBSET S : \E y \in s : Wrong(s, y)}
<1>1. SUFFICES ASSUME Bad # {} PROVE FALSE
  OBVIOUS
<1>0. Bad \in SUBSET (SUBSET S)
  OBVIOUS
<1> HIDE DEF Bad
<1>2. PICK s \in Bad : \A t \in SUBSET s : t # s => t \notin Bad
  BY <1>0, <1>1, SmallestSet
<1> USE DEF Bad
<1>3. PICK y \in s : Wrong(s, y)
  BY <1>2
<1>4. s \in SUBSET S /\ IsFiniteSet(s) /\ \A t \in SUBSET s : IsFiniteSet(t) /\ Sum(t) \in Nat
  <2>1. s \in SUBSET S /\ \A t \in SUBSET s : IsFiniteSet(t) /\ \A z \in t : f[z] \in Nat
    BY <1>2, FS_Subset
  <2>. QED
    BY <2>1, SumNat
<1> DEFINE z == Some(s)
<1>5. z \in s /\ Sum(s) = f[z] + Sum(s \ {z})
  BY <1>3, <1>4, SumStep, SomeIn
<1> HIDE DEF Sum, z
<1>6. z # y
  BY <1>3, <1>5
<1>7. ASSUME NEW t \in SUBSET s, t # s, NEW w \in t
      PROVE  Sum(t) = f[w] + Sum(t \ {w})
  BY <1>2, <1>4, <1>7
<1>8. Sum(s \ {z}) = f[y] + Sum((s \ {z}) \ {y})
  BY <1>5, <1>6, <1>7
<1>9. Sum(s \ {y}) = f[z] + Sum((s \ {y}) \ {z})
  BY <1>5, <1>6, <1>7
<1>10. (s \ {z}) \ {y} = (s \ {y}) \ {z}
  OBVIOUS
<1>11. f[y] \in Nat /\ f[z] \in Nat /\ Sum((s \ {z}) \ {y}) \in Nat
  BY <1>4, <1>5
<1>12. PICK a, b, c : a = f[y] /\ b = f[z] /\ c = Sum((s \ {z}) \ {y})
  OBVIOUS
<1>13. b + (a + c) = a + (b + c)
  BY <1>11, <1>12
<1>14. Sum(s) = f[y] + Sum(s \ {y})
  BY <1>5, <1>8, <1>9, <1>10, <1>12, <1>13
<1>. QED
  BY <1>3, <1>14

(* An element put in adds its value. *)
LEMMA SumAdd ==
  ASSUME NEW f, NEW S, IsFiniteSet(S), NEW x, x \notin S, \A y \in S \union {x} : f[y] \in Nat
  PROVE  SumFunctionOnSet(f, S \union {x}) = SumFunctionOnSet(f, S) + f[x]
<1>1. IsFiniteSet(S \union {x}) /\ (S \union {x}) \ {x} = S
  BY FS_AddElement
<1>2. SumFunctionOnSet(f, S) \in Nat
  BY SumNat
<1>3. SumFunctionOnSet(f, S \union {x}) = f[x] + SumFunctionOnSet(f, S)
  BY <1>1, SumRemove
<1>. QED
  BY <1>2, <1>3

(* Elements with nothing add nothing. *)
LEMMA SumZero ==
  ASSUME NEW f, NEW S, IsFiniteSet(S), \A x \in S : f[x] = 0
  PROVE  SumFunctionOnSet(f, S) = 0
<1> DEFINE Bad == {s \in SUBSET S : SumFunctionOnSet(f, s) # 0}
<1>1. SUFFICES ASSUME Bad # {} PROVE FALSE
  OBVIOUS
<1>0. Bad \in SUBSET (SUBSET S)
  OBVIOUS
<1> HIDE DEF Bad
<1>2. PICK s \in Bad : \A t \in SUBSET s : t # s => t \notin Bad
  BY <1>0, <1>1, SmallestSet
<1> USE DEF Bad
<1>3. IsFiniteSet(s)
  BY <1>2, FS_Subset
<1>4. s # {} /\ SumFunctionOnSet(f, s) = f[Some(s)] + SumFunctionOnSet(f, s \ {Some(s)})
  BY <1>2, <1>3, SumStep
<1>5. Some(s) \in s /\ s \ {Some(s)} # s /\ s \ {Some(s)} \in SUBSET s /\ s \ {Some(s)} \in SUBSET S
  BY <1>2, <1>4, SomeIn
<1>6. SumFunctionOnSet(f, s \ {Some(s)}) = 0
  BY <1>2, <1>5
<1>. QED
  BY <1>2, <1>4, <1>5, <1>6

(* A sum over two sets without a common element. *)
LEMMA SumUnion ==
  ASSUME NEW f, NEW S, IsFiniteSet(S), NEW T, IsFiniteSet(T), S \cap T = {},
         \A x \in S \union T : f[x] \in Nat
  PROVE  SumFunctionOnSet(f, S \union T) = SumFunctionOnSet(f, S) + SumFunctionOnSet(f, T)
<1> DEFINE Sum(s) == SumFunctionOnSet(f, s)
           Bad == {t \in SUBSET T : Sum(S \union t) # Sum(S) + Sum(t)}
<1>1. SUFFICES ASSUME Bad # {} PROVE FALSE
  OBVIOUS
<1>0. Bad \in SUBSET (SUBSET T)
  OBVIOUS
<1> HIDE DEF Bad
<1>2. PICK t \in Bad : \A u \in SUBSET t : u # t => u \notin Bad
  BY <1>0, <1>1, SmallestSet
<1> USE DEF Bad
<1>3. IsFiniteSet(t) /\ t \in SUBSET T
  BY <1>2, FS_Subset
<1>4. Sum(S) \in Nat
  BY SumNat
<1>5. t # {}
  <2>1. t = {} => Sum(t) = 0 /\ S \union t = S
    BY SumEmpty
  <2>2. Sum(S \union t) # Sum(S) + Sum(t)
    BY <1>2
  <2> HIDE DEF Sum, Bad
  <2>3. ASSUME t = {} PROVE FALSE
    <3>1. Sum(t) = 0 /\ Sum(S \union t) = Sum(S)
      BY <2>1, <2>3
    <3>2. Sum(S) + 0 = Sum(S)
      BY <1>4
    <3>. QED
      BY <2>2, <3>1, <3>2
  <2>. QED
    BY <2>3
<1>6. PICK x \in t : TRUE
  BY <1>5
<1> DEFINE u == t \ {x}
<1>7. IsFiniteSet(u) /\ IsFiniteSet(S \union u) /\ x \notin S \union u /\ u \union {x} = t
  <2>1. IsFiniteSet(u)
    BY <1>3, FS_RemoveElement
  <2>2. x \notin S \union u /\ u \union {x} = t
    BY <1>3, <1>6
  <2>. QED
    BY <2>1, <2>2, FS_Union
<1>8. Sum((S \union u) \union {x}) = Sum(S \union u) + f[x]
  BY <1>3, <1>7, SumAdd
<1>9. Sum(u \union {x}) = Sum(u) + f[x]
  BY <1>3, <1>7, SumAdd
<1>10. Sum(u) \in Nat /\ f[x] \in Nat
  BY <1>3, <1>7, SumNat
<1>11. Sum(S \union u) = Sum(S) + Sum(u)
  BY <1>2, <1>3, <1>6
<1>12. (S \union u) \union {x} = S \union t
  BY <1>7
<1>13. Sum(S \union t) = (Sum(S) + Sum(u)) + f[x] /\ Sum(t) = Sum(u) + f[x]
  BY <1>7, <1>8, <1>9, <1>11, <1>12
<1>14. Sum(S \union t) # Sum(S) + Sum(t)
  BY <1>2
<1> HIDE DEF Sum, u
<1>. QED
  BY <1>4, <1>10, <1>13, <1>14

(* An element is part of the sum. *)
LEMMA SumAtLeast ==
  ASSUME NEW f, NEW S, IsFiniteSet(S), \A x \in S : f[x] \in Nat, NEW x \in S
  PROVE  SumFunctionOnSet(f, S) \in Nat /\ SumFunctionOnSet(f, S) >= f[x]
<1>1. SumFunctionOnSet(f, S) = f[x] + SumFunctionOnSet(f, S \ {x})
  BY SumRemove
<1>2. SumFunctionOnSet(f, S \ {x}) \in Nat
  BY FS_RemoveElement, SumNat
<1>. QED
  BY <1>1, <1>2

==============================================================================
