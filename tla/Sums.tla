-------------------------------- MODULE Sums --------------------------------
(***************************************************************************)
(* The sum of the values f[x] of a function over a finite set S, as the    *)
(* community modules compute it, and what a proof needs to know of it.     *)
(*                                                                         *)
(* The provers cannot use an induction theorem that takes an operator, so  *)
(* the inductions here are by a least counterexample: a set of natural     *)
(* numbers that is not empty has a least element.                          *)
(***************************************************************************)
EXTENDS Integers, FiniteSets, FiniteSetsExt, FiniteSetTheorems, WellFoundedInduction, TLAPS

Total(f, S) == MapThenSumSet(LAMBDA x : f[x], S)

(* What the recursion of the fold takes first, and what it defines.        *)
Pick(s) == CHOOSE x \in s : TRUE
Rec(f, S, g) ==
  g = [s \in SUBSET S |-> IF s = {} THEN 0 ELSE f[Pick(s)] + g[s \ {Pick(s)}]]

(* It is an element.                                                       *)
LEMMA PickIn ==
    ASSUME NEW s, s # {}
    PROVE  Pick(s) \in s
  BY DEF Pick

(* Less-than is well-founded (stated so that the provers need not look     *)
(* into the relation).                                                     *)
LEMMA LessIsFounded ==
    \E R : IsWellFoundedOn(R, Nat) /\ \A x, y \in Nat : x < y => <<x, y>> \in R
  <1>1. \A x, y \in Nat : x < y => <<x, y>> \in OpToRel(<, Nat)
    BY DEF OpToRel
  <1> QED
    BY <1>1, NatLessThanWellFounded, Zenon

(* A set of natural numbers that is not empty has a least element.         *)
LEMMA LeastNumber ==
    ASSUME NEW T \in SUBSET Nat, T # {}
    PROVE  \E n \in T : \A m \in T : n <= m
  <1>1. PICK R : IsWellFoundedOn(R, Nat) /\ \A x, y \in Nat : x < y => <<x, y>> \in R
    BY LessIsFounded
  <1>2. PICK n \in T : \A m \in T : ~(<<m, n>> \in R)
    <2>1. T \subseteq Nat /\ T # {} /\ IsWellFoundedOn(R, Nat)
      BY <1>1
    <2> QED
      BY <2>1, WFMin
  <1>3. \A m \in T : m \in Nat /\ n \in Nat /\ ~(m < n)
    BY <1>1, <1>2, Zenon
  <1> QED
    BY <1>3

(* There is a function that the recursion defines on the subsets of a      *)
(* finite set: on those of n elements, by induction on n.                  *)
LEMMA RecExists ==
    ASSUME NEW f, NEW U, IsFiniteSet(U)
    PROVE  \E g : Rec(f, U, g)
  <1> DEFINE Small(n) == {s \in SUBSET U : Cardinality(s) <= n}
             RecTo(n, g) == g = [s \in Small(n) |->
                                   IF s = {} THEN 0 ELSE f[Pick(s)] + g[s \ {Pick(s)}]]
             Bad == {n \in Nat : ~ \E g : RecTo(n, g)}
  <1>1. \A s \in SUBSET U : /\ IsFiniteSet(s) /\ Cardinality(s) \in Nat
                            /\ Cardinality(s) <= Cardinality(U)
                            /\ (Cardinality(s) = 0 <=> s = {})
    BY FS_Subset, FS_CardinalityType, FS_EmptySet
  <1>2. \A s \in SUBSET U : s # {} => /\ Pick(s) \in s /\ s \ {Pick(s)} \in SUBSET U
                                      /\ Cardinality(s \ {Pick(s)}) = Cardinality(s) - 1
    BY <1>1, PickIn, FS_RemoveElement
  <1>3. Bad = {}
    <2> SUFFICES ASSUME Bad # {} PROVE FALSE
      OBVIOUS
    <2>1. PICK n \in Bad : \A m \in Bad : n <= m
      BY LeastNumber
    <2>2. CASE n = 0
      <3>1. Small(0) = {{}}
        BY <1>1
      <3>2. [s \in Small(0) |-> 0] =
              [s \in Small(0) |->
                 IF s = {} THEN 0 ELSE f[Pick(s)] + [q \in Small(0) |-> 0][s \ {Pick(s)}]]
        BY <3>1
      <3> QED  BY <2>1, <2>2, <3>2
    <2>3. CASE n # 0
      <3>0. n \in Nat
        OBVIOUS
      <3>1. n - 1 \in Nat /\ n - 1 \notin Bad
        <4> HIDE DEF Bad
        <4> QED  BY <2>1, <2>3, <3>0
      <3>2. PICK g : RecTo(n - 1, g)
        BY <3>1
      <3> DEFINE h == [s \in Small(n) |-> IF s = {} THEN 0 ELSE f[Pick(s)] + g[s \ {Pick(s)}]]
      <3>3. ASSUME NEW s \in Small(n), s # {} PROVE h[s \ {Pick(s)}] = g[s \ {Pick(s)}]
        <4>1. s \ {Pick(s)} \in Small(n - 1) /\ s \ {Pick(s)} \in Small(n)
          BY <1>1, <1>2, <2>1, <3>3
        <4> QED BY <3>2, <4>1
      <3>4. RecTo(n, h)
        BY <3>3
      <3> QED  BY <2>1, <3>4
    <2> QED  BY <2>2, <2>3
  <1>4. Cardinality(U) \in Nat
    BY FS_CardinalityType
  <1>5. PICK g : RecTo(Cardinality(U), g)
    BY <1>3, <1>4
  <1>6. Small(Cardinality(U)) = SUBSET U
    BY <1>1
  <1>7. Rec(f, U, g)
    BY <1>5, <1>6 DEF Rec
  <1> QED  BY <1>7

(* So the fold is a value of such a function, ...                          *)
LEMMA Unfold ==
    ASSUME NEW f, NEW S, IsFiniteSet(S)
    PROVE  \E g : Rec(f, S, g) /\ Total(f, S) = g[S]
  <1> DEFINE it == CHOOSE g : Rec(f, S, g)
  <1>1. Rec(f, S, it)
    BY RecExists
  <1>2. Total(f, S) = it[S]
    BY DEF Total, MapThenSumSet, MapThenFoldSet, Rec, Pick
  <1> QED BY <1>1, <1>2

(* ... two such functions agree on the sets they share when what they sum  *)
(* does, ...                                                               *)
LEMMA RecAgrees ==
    ASSUME NEW f, NEW f2, NEW U, NEW V, IsFiniteSet(U), IsFiniteSet(V), NEW g, NEW h,
           Rec(f, U, g), Rec(f2, V, h), NEW S \in SUBSET U, S \in SUBSET V,
           \A x \in S : f[x] = f2[x]
    PROVE  g[S] = h[S]
  <1> DEFINE Bad == {n \in Nat : \E s \in SUBSET S : Cardinality(s) = n /\ g[s] # h[s]}
  <1>1. \A s \in SUBSET U : IsFiniteSet(s) /\ Cardinality(s) \in Nat
    BY FS_Subset, FS_CardinalityType
  <1>2. Bad = {}
    <2> SUFFICES ASSUME Bad # {} PROVE FALSE
      OBVIOUS
    <2>1. PICK n \in Bad : \A m \in Bad : n <= m
      BY LeastNumber
    <2>2. PICK s \in SUBSET S : Cardinality(s) = n /\ g[s] # h[s]
      BY <2>1
    <2>3. CASE s = {}
      BY <2>2, <2>3 DEF Rec
    <2>4. CASE s # {}
      <3> DEFINE r == s \ {Pick(s)}
      <3>1. /\ Pick(s) \in s /\ r \in SUBSET S
            /\ Cardinality(r) = Cardinality(s) - 1 /\ Cardinality(r) \in Nat
        BY <1>1, <2>4, PickIn, FS_RemoveElement
      <3>2. g[r] = h[r]
        BY <2>1, <2>2, <3>1
      <3>3. g[s] = f[Pick(s)] + g[r] /\ h[s] = f2[Pick(s)] + h[r]
        BY <2>4 DEF Rec
      <3> QED  BY <2>2, <3>1, <3>2, <3>3
    <2> QED  BY <2>3, <2>4
  <1> QED  BY <1>1, <1>2

(* ... and the sum satisfies its recursion.                                *)
LEMMA TotalUnfold ==
    ASSUME NEW f, NEW S, IsFiniteSet(S)
    PROVE  Total(f, S) = IF S = {} THEN 0 ELSE f[Pick(S)] + Total(f, S \ {Pick(S)})
  <1>1. PICK g : Rec(f, S, g) /\ Total(f, S) = g[S]
    BY Unfold
  <1>2. CASE S = {}
    BY <1>1, <1>2 DEF Rec
  <1>3. CASE S # {}
    <2> DEFINE R == S \ {Pick(S)}
    <2>1. IsFiniteSet(R) /\ R \in SUBSET S
      BY FS_RemoveElement
    <2>2. PICK h : Rec(f, R, h) /\ Total(f, R) = h[R]
      BY <2>1, Unfold
    <2>3. g[R] = h[R]
      BY <1>1, <2>1, <2>2, RecAgrees
    <2>4. g[S] = f[Pick(S)] + g[R]
      BY <1>1, <1>3 DEF Rec
    <2> QED  BY <1>1, <1>3, <2>2, <2>3, <2>4
  <1> QED  BY <1>2, <1>3

(* The sum looks only at what it sums.                                     *)
LEMMA TotalSame ==
    ASSUME NEW f, NEW g, NEW S, IsFiniteSet(S), \A x \in S : f[x] = g[x]
    PROVE  Total(f, S) = Total(g, S)
  <1>1. PICK p : Rec(f, S, p) /\ Total(f, S) = p[S]
    BY Unfold
  <1>2. PICK q : Rec(g, S, q) /\ Total(g, S) = q[S]
    BY Unfold
  <1>3. p[S] = q[S]
    BY <1>1, <1>2, RecAgrees
  <1> QED  BY <1>1, <1>2, <1>3

(* Induction over the subsets of a finite set: a class of them that has    *)
(* the empty one, and with a set all that have one element more, has all.  *)
LEMMA SetsGrow ==
    ASSUME NEW S, IsFiniteSet(S), NEW C \in SUBSET (SUBSET S), {} \in C,
           \A s \in C : \A x \in S \ s : s \cup {x} \in C
    PROVE  C = SUBSET S
  <1> DEFINE Bad == {n \in Nat : \E s \in SUBSET S : Cardinality(s) = n /\ s \notin C}
  <1>1. \A s \in SUBSET S : IsFiniteSet(s) /\ Cardinality(s) \in Nat
    BY FS_Subset, FS_CardinalityType
  <1>2. Bad = {}
    <2> SUFFICES ASSUME Bad # {} PROVE FALSE
      OBVIOUS
    <2>1. PICK n \in Bad : \A m \in Bad : n <= m
      BY LeastNumber
    <2>2. PICK s \in SUBSET S : Cardinality(s) = n /\ s \notin C
      OBVIOUS
    <2>3. PICK x \in s : TRUE
      BY <2>2
    <2> DEFINE r == s \ {x}
    <2>4. r \in SUBSET S /\ Cardinality(r) = n - 1 /\ Cardinality(r) \in Nat /\ n \in Nat
      BY <1>1, <2>2, <2>3, FS_RemoveElement
    <2>5. r \in C
      BY <2>1, <2>4
    <2>6. s = r \cup {x} /\ x \in S \ r
      BY <2>3
    <2> QED  BY <2>2, <2>5, <2>6
  <1> QED  BY <1>1, <1>2

(* A sum of integers is an integer, ...                                    *)
LEMMA TotalInt ==
    ASSUME NEW f, NEW S, IsFiniteSet(S), \A x \in S : f[x] \in Int
    PROVE  Total(f, S) \in Int
  <1> DEFINE Bad == {n \in Nat :
                       \E s \in SUBSET S : Cardinality(s) = n /\ Total(f, s) \notin Int}
  <1>1. \A s \in SUBSET S : IsFiniteSet(s) /\ Cardinality(s) \in Nat
    BY FS_Subset, FS_CardinalityType
  <1>2. Bad = {}
    <2> SUFFICES ASSUME Bad # {} PROVE FALSE
      OBVIOUS
    <2>1. PICK n \in Bad : \A m \in Bad : n <= m
      BY LeastNumber
    <2>2. PICK s \in SUBSET S : Cardinality(s) = n /\ Total(f, s) \notin Int
      OBVIOUS
    <2>3. Total(f, s) = IF s = {} THEN 0 ELSE f[Pick(s)] + Total(f, s \ {Pick(s)})
      BY <1>1, TotalUnfold
    <2>4. s # {}
      BY <2>2, <2>3
    <2>5. Pick(s) \in s
      BY <2>4, PickIn
    <2> DEFINE r == s \ {Pick(s)}
    <2>6. r \in SUBSET S /\ Cardinality(r) = n - 1 /\ Cardinality(r) \in Nat /\ n \in Nat
      BY <1>1, <2>2, <2>5, FS_RemoveElement
    <2>7. Total(f, r) \in Int
      BY <2>1, <2>6
    <2> QED  BY <2>2, <2>3, <2>4, <2>5, <2>7
  <1> QED  BY <1>1, <1>2

(* ... in whatever order they are added.                                   *)
LEMMA TotalRemove ==
    ASSUME NEW f, NEW S, IsFiniteSet(S), \A y \in S : f[y] \in Int, NEW x \in S
    PROVE  Total(f, S) = f[x] + Total(f, S \ {x})
  <1> DEFINE Good(s, z) == Total(f, s) = f[z] + Total(f, s \ {z})
             Bad == {n \in Nat :
                       \E s \in SUBSET S : Cardinality(s) = n /\ \E z \in s : ~Good(s, z)}
  <1>1. \A s \in SUBSET S : IsFiniteSet(s) /\ Cardinality(s) \in Nat /\ Total(f, s) \in Int
    BY FS_Subset, FS_CardinalityType, TotalInt
  <1>2. Bad = {}
    <2> SUFFICES ASSUME Bad # {} PROVE FALSE
      OBVIOUS
    <2>1. PICK n \in Bad : \A m \in Bad : n <= m
      BY LeastNumber
    <2>2. PICK s \in SUBSET S, z \in S : Cardinality(s) = n /\ z \in s /\ ~Good(s, z)
      OBVIOUS
    <2> DEFINE y == Pick(s)
               r == s \ {y}
               q == s \ {z}
    <2>3. y \in s /\ Total(f, s) = f[y] + Total(f, r)
      BY <1>1, <2>2, PickIn, TotalUnfold
    <2>4. y # z
      BY <2>2, <2>3
    <2>5. /\ r \in SUBSET S /\ Cardinality(r) = n - 1 /\ Cardinality(r) \in Nat /\ n \in Nat
          /\ q \in SUBSET S /\ Cardinality(q) = n - 1 /\ Cardinality(q) \in Nat
      BY <1>1, <2>2, <2>3, FS_RemoveElement
    <2>6. Good(r, z) /\ Good(q, y)
      <3>1. n - 1 \in Nat /\ ~(n <= n - 1)
        BY <2>5
      <3>2. n - 1 \notin Bad
        <4> HIDE DEF Bad
        <4> QED  BY <2>1, <3>1
      <3>3. z \in r /\ y \in q
        BY <2>2, <2>3, <2>4
      <3> HIDE DEF Good, r, q, y
      <3> QED  BY <2>5, <3>1, <3>2, <3>3
    <2>7. r \ {z} = q \ {y}
      OBVIOUS
    <2>8. Total(f, r \ {z}) \in Int /\ f[y] \in Int /\ f[z] \in Int
      BY <1>1, <2>2, <2>3
    <2>9. /\ Total(f, r) = f[z] + Total(f, r \ {z})
          /\ Total(f, q) = f[y] + Total(f, q \ {y})
          /\ Total(f, s) # f[z] + Total(f, q)
      BY <2>2, <2>6
    <2> HIDE DEF r, q, y
    <2> QED  BY <2>3, <2>7, <2>8, <2>9
  <1>3. Cardinality(S) \in Nat /\ Cardinality(S) \notin Bad
    BY <1>1, <1>2
  <1> QED  BY <1>3

(* Of nothing.                                                             *)
LEMMA TotalEmpty ==
    ASSUME NEW f
    PROVE  Total(f, {}) = 0
  BY TotalUnfold, FS_EmptySet

(* One element more.                                                       *)
LEMMA TotalAdd ==
    ASSUME NEW f, NEW S, IsFiniteSet(S), NEW x, x \notin S, f[x] \in Int,
           \A y \in S : f[y] \in Int
    PROVE  Total(f, S \cup {x}) = f[x] + Total(f, S)
  <1>1. IsFiniteSet(S \cup {x}) /\ (S \cup {x}) \ {x} = S
    BY FS_AddElement
  <1> QED  BY <1>1, TotalRemove

(* One of the numbers changes.                                             *)
LEMMA TotalUpdate ==
    ASSUME NEW f, NEW g, NEW S, IsFiniteSet(S), NEW x \in S,
           \A y \in S : f[y] \in Int /\ g[y] \in Int, \A y \in S \ {x} : g[y] = f[y]
    PROVE  Total(g, S) = Total(f, S) - f[x] + g[x]
  <1>1. IsFiniteSet(S \ {x})
    BY FS_RemoveElement
  <1>2. Total(f, S) = f[x] + Total(f, S \ {x}) /\ Total(g, S) = g[x] + Total(g, S \ {x})
    BY TotalRemove
  <1>3. Total(f, S \ {x}) = Total(g, S \ {x}) /\ Total(f, S \ {x}) \in Int
    BY <1>1, TotalSame, TotalInt
  <1> QED  BY <1>2, <1>3

(* A sum of natural numbers is one.                                        *)
LEMMA TotalNat ==
    ASSUME NEW f, NEW S, IsFiniteSet(S), \A x \in S : f[x] \in Nat
    PROVE  Total(f, S) \in Nat
  <1> DEFINE C == {s \in SUBSET S : Total(f, s) \in Nat}
  <1>1. \A s \in SUBSET S : IsFiniteSet(s)
    BY FS_Subset
  <1>2. {} \in C
    BY TotalEmpty
  <1>3. ASSUME NEW s \in C, NEW x \in S \ s PROVE s \cup {x} \in C
    <2>1. Total(f, s \cup {x}) = f[x] + Total(f, s)
      BY <1>1, <1>3, TotalAdd
    <2> QED  BY <2>1
  <1>4. C = SUBSET S
    <2> HIDE DEF C
    <2>1. C \in SUBSET (SUBSET S)
      BY DEF C
    <2> QED  BY <1>2, <1>3, <2>1, SetsGrow
  <1> QED  BY <1>4

(* Of two sets.                                                            *)
LEMMA TotalUnion ==
    ASSUME NEW f, NEW S, NEW T, IsFiniteSet(S), IsFiniteSet(T), S \cap T = {},
           \A x \in S \cup T : f[x] \in Int
    PROVE  Total(f, S \cup T) = Total(f, S) + Total(f, T)
  <1> DEFINE C == {s \in SUBSET T : Total(f, S \cup s) = Total(f, S) + Total(f, s)}
  <1>1. \A s \in SUBSET T : /\ IsFiniteSet(s) /\ IsFiniteSet(S \cup s) /\ Total(f, s) \in Int
                            /\ Total(f, S \cup s) \in Int /\ Total(f, S) \in Int
    BY FS_Subset, FS_Union, TotalInt
  <1>2. {} \in C
    <2>1. S \cup {} = S /\ {} \in SUBSET T /\ Total(f, S) \in Int
      BY <1>1
    <2> QED  BY <2>1, TotalEmpty
  <1>3. ASSUME NEW s \in C, NEW x \in T \ s PROVE s \cup {x} \in C
    <2>1. Total(f, s \cup {x}) = f[x] + Total(f, s)
      BY <1>1, <1>3, TotalAdd
    <2>2. Total(f, (S \cup s) \cup {x}) = f[x] + Total(f, S \cup s)
      BY <1>1, <1>3, TotalAdd
    <2>3. (S \cup s) \cup {x} = S \cup (s \cup {x})
      OBVIOUS
    <2>4. /\ s \in SUBSET T /\ s \cup {x} \in SUBSET T /\ f[x] \in Int
          /\ Total(f, S \cup s) = Total(f, S) + Total(f, s)
      OBVIOUS
    <2>5. Total(f, s) \in Int /\ Total(f, S) \in Int
      BY <1>1, <2>4
    <2>6. Total(f, S \cup (s \cup {x})) = Total(f, S) + Total(f, s \cup {x})
      <3>1. Total(f, S \cup (s \cup {x})) = f[x] + Total(f, S \cup s)
        BY <2>2, <2>3
      <3> QED  BY <2>1, <2>4, <2>5, <3>1
    <2> QED  BY <2>4, <2>6
  <1>4. C = SUBSET T
    <2> HIDE DEF C
    <2>1. C \in SUBSET (SUBSET T)
      BY DEF C
    <2> QED  BY <1>2, <1>3, <2>1, SetsGrow
  <1> QED  BY <1>4

(* Of zeros.                                                               *)
LEMMA TotalZero ==
    ASSUME NEW f, NEW S, IsFiniteSet(S), \A x \in S : f[x] = 0
    PROVE  Total(f, S) = 0
  <1> DEFINE C == {s \in SUBSET S : Total(f, s) = 0}
  <1>1. \A s \in SUBSET S : IsFiniteSet(s)
    BY FS_Subset
  <1>2. {} \in C
    BY TotalEmpty
  <1>3. ASSUME NEW s \in C, NEW x \in S \ s PROVE s \cup {x} \in C
    <2>1. Total(f, s \cup {x}) = f[x] + Total(f, s)
      BY <1>1, <1>3, TotalAdd
    <2> QED  BY <2>1
  <1>4. C = SUBSET S
    <2> HIDE DEF C
    <2>1. C \in SUBSET (SUBSET S)
      BY DEF C
    <2> QED  BY <1>2, <1>3, <2>1, SetsGrow
  <1> QED  BY <1>4

(* Of numbers that are not above those of a set it is part of.             *)
LEMMA TotalAtMost ==
    ASSUME NEW f, NEW g, NEW S, IsFiniteSet(S), NEW T \in SUBSET S,
           \A x \in S : f[x] \in Nat /\ g[x] \in Nat, \A x \in T : f[x] <= g[x]
    PROVE  Total(f, T) <= Total(g, S)
  <1> DEFINE C == {s \in SUBSET T : Total(f, s) <= Total(g, s)}
  <1>1. IsFiniteSet(T) /\ IsFiniteSet(S \ T) /\ \A s \in SUBSET T : IsFiniteSet(s)
    BY FS_Subset
  <1>2. {} \in C
    BY TotalEmpty
  <1>3. ASSUME NEW s \in C, NEW x \in T \ s PROVE s \cup {x} \in C
    <2>1. \A y \in s \cup {x} : f[y] \in Int /\ g[y] \in Int
      OBVIOUS
    <2>2. Total(f, s \cup {x}) = f[x] + Total(f, s) /\ Total(g, s \cup {x}) = g[x] + Total(g, s)
      BY <1>1, <1>3, <2>1, TotalAdd
    <2>3. Total(f, s) \in Nat /\ Total(g, s) \in Nat /\ Total(f, s) <= Total(g, s)
      BY <1>1, <1>3, TotalNat
    <2>4. f[x] \in Nat /\ g[x] \in Nat /\ f[x] <= g[x]
      BY <1>3
    <2>5. Total(f, s \cup {x}) <= Total(g, s \cup {x})
      BY <2>2, <2>3, <2>4
    <2> QED  BY <1>3, <2>5
  <1>4. C = SUBSET T
    <2> HIDE DEF C
    <2>1. C \in SUBSET (SUBSET T)
      BY DEF C
    <2> QED  BY <1>1, <1>2, <1>3, <2>1, SetsGrow
  <1>5. Total(f, T) <= Total(g, T)
    BY <1>4
  <1>6. Total(g, T \cup (S \ T)) = Total(g, T) + Total(g, S \ T)
    <2>1. T \cap (S \ T) = {} /\ \A x \in T \cup (S \ T) : g[x] \in Int
      OBVIOUS
    <2> QED  BY <1>1, <2>1, TotalUnion
  <1>7. T \cup (S \ T) = S
    OBVIOUS
  <1>8. Total(g, T) \in Nat /\ Total(g, S \ T) \in Nat /\ Total(f, T) \in Nat
    BY <1>1, TotalNat
  <1> QED  BY <1>5, <1>6, <1>7, <1>8
=============================================================================
