--------------------------- MODULE LibraryProofs ---------------------------
(***************************************************************************)
(* Facts about operators of the library that the proofs share: least       *)
(* elements, sums over finite sets, and sequences given position by        *)
(* position.                                                               *)
(*                                                                         *)
(* An induction over finite sets is a choice of a smallest counterexample: *)
(* the theorems of the library that state induction take the claim as an   *)
(* operator, which cannot be instantiated, but that a set of naturals has  *)
(* a least element needs none.                                             *)
(***************************************************************************)
EXTENDS Integers, Sequences, Functions, TLAPS,
        FiniteSetTheorems, SequenceTheorems, WellFoundedInduction

LEMMA LeastIsIn ==
  ASSUME NEW T \in SUBSET Nat, T # {}
  PROVE  \E n \in T : \A m \in T : n <= m
<1>1. PICK n \in T : \A m \in T : <<m, n>> \notin OpToRel(<, Nat)
  BY WFMin, NatLessThanWellFounded, Zenon
<1>2. \A m \in T : ~ (m < n)
  BY <1>1, Zenon DEF OpToRel
<1> QED
  BY <1>2

\* A set of positions that is not empty has a greatest one.
LEMMA GreatestIsIn ==
  ASSUME NEW n \in Nat, NEW ks \in SUBSET (1..n), ks # {}
  PROVE  \E m \in ks : \A k \in ks : k <= m
<1> DEFINE T == {m \in Nat : n - m \in ks}
<1>1. T \in SUBSET Nat /\ T # {}
  <2>1. PICK k \in ks : TRUE
    OBVIOUS
  <2>2. n - k \in Nat /\ n - (n - k) = k
    BY <2>1
  <2> QED
    BY <2>1, <2>2
<1>2. PICK m \in T : \A l \in T : m <= l
  <2> HIDE DEF T
  <2> QED
    BY <1>1, LeastIsIn
<1>3. ASSUME NEW k \in ks PROVE k <= n - m
  <2>1. n - k \in T /\ k \in Nat
    BY <1>3
  <2>2. m <= n - k
    BY <1>2, <2>1
  <2> QED
    BY <2>1, <2>2
<1>4. n - m \in ks
  BY <1>2
<1> QED
  BY <1>3, <1>4

\* Of some subsets of a finite set, one is minimal.
LEMMA MinimalIsIn ==
  ASSUME NEW B, IsFiniteSet(B), NEW W \in SUBSET (SUBSET B), W # {}
  PROVE  \E s \in W : \A x \in s : \A t \in SUBSET (s \ {x}) : t \notin W
<1>1. \A s \in SUBSET B : IsFiniteSet(s) /\ Cardinality(s) \in Nat
  BY FS_Subset, FS_CardinalityType
<1> DEFINE sizes == {Cardinality(s) : s \in W}
<1>2. PICK n \in sizes : \A m \in sizes : n <= m
  <2>1. sizes \in SUBSET Nat /\ sizes # {}
    BY <1>1
  <2> QED
    BY <2>1, LeastIsIn
<1>3. PICK s \in W : Cardinality(s) = n
  BY <1>2
<1>4. ASSUME NEW x \in s, NEW t \in SUBSET (s \ {x}) PROVE t \notin W
  <2>1. IsFiniteSet(s) /\ Cardinality(s) \in Nat /\ t \in SUBSET s /\ t # s
    BY <1>1, <1>3, <1>4
  <2>2. Cardinality(t) <= Cardinality(s) /\ Cardinality(t) # Cardinality(s)
    BY <2>1, FS_Subset
  <2>3. ASSUME t \in W PROVE FALSE
    <3>1. Cardinality(t) \in sizes /\ Cardinality(t) \in Nat
      BY <1>1, <2>3
    <3> HIDE DEF sizes
    <3>2. n <= Cardinality(t)
      BY <1>2, <3>1
    <3> QED
      BY <1>3, <2>1, <2>2, <3>1, <3>2
  <2> QED
    BY <2>3
<1> QED
  BY <1>4

-----------------------------------------------------------------------------
(* Sums: SumFunctionOnSet of Functions. *)

\* The member that the library's fold takes first.
One(s) == CHOOSE x \in s : TRUE

LEMMA OneIsIn == ASSUME NEW s, s # {} PROVE One(s) \in s
BY DEF One

\* What does not fail first for the empty set, nor for a set that it does not fail for with
\* one member less, does not fail.
LEMMA NoneFails ==
  ASSUME NEW B, IsFiniteSet(B), NEW W \in SUBSET (SUBSET B), {} \notin W,
         \A s \in SUBSET B : s # {} /\ s \ {One(s)} \notin W => s \notin W
  PROVE  W = {}
<1>1. SUFFICES ASSUME W # {} PROVE FALSE
  OBVIOUS
<1>2. PICK s \in W : \A x \in s : \A t \in SUBSET (s \ {x}) : t \notin W
  BY <1>1, MinimalIsIn
<1>3. s # {} /\ s \in SUBSET B
  BY <1>2
<1>4. s \ {One(s)} \notin W
  BY <1>2, <1>3, OneIsIn
<1> QED
  BY <1>2, <1>3, <1>4

\* f adds g up over every subset of B, member by member.
AddsUp(f, g, B) ==
  f = [s \in SUBSET B |-> IF s = {} THEN 0 ELSE g[One(s)] + f[s \ {One(s)}]]

LEMMA AddsUpIs ==
  ASSUME NEW f, NEW g, NEW B, AddsUp(f, g, B), NEW s \in SUBSET B
  PROVE  f[s] = IF s = {} THEN 0 ELSE g[One(s)] + f[s \ {One(s)}]
BY Zenon DEF AddsUp

LEMMA SumIsChosen ==
  ASSUME NEW g, NEW B
  PROVE  SumFunctionOnSet(g, B) = (CHOOSE f : AddsUp(f, g, B))[B]
BY DEF SumFunctionOnSet, FoldFunctionOnSet, MapThenFoldSet, AddsUp, One

\* Such an f exists: of the sizes up to which none does, take the least.
LEMMA SumExists ==
  ASSUME NEW g, NEW B, IsFiniteSet(B)
  PROVE  \E f : AddsUp(f, g, B)
<1> DEFINE small(n) == {s \in SUBSET B : Cardinality(s) <= n}
           Upto(f, n) == f = [s \in small(n) |-> IF s = {} THEN 0 ELSE g[One(s)] + f[s \ {One(s)}]]
           never == {n \in Nat : ~ \E f : Upto(f, n)}
<1>1. \A s \in SUBSET B : IsFiniteSet(s) /\ Cardinality(s) \in Nat /\ Cardinality(s) <= Cardinality(B)
  BY FS_Subset, FS_CardinalityType
<1>2. \E f : Upto(f, 0)
  <2>1. \A s \in small(0) : s = {}
    BY <1>1, FS_EmptySet
  <2> DEFINE h == [s \in small(0) |-> 0]
  <2> HIDE DEF small
  <2>2. Upto(h, 0)
    BY <2>1
  <2> QED
    BY <2>2
<1>3. ASSUME NEW n \in Nat, NEW f, Upto(f, n) PROVE \E h : Upto(h, n + 1)
  <2> DEFINE h == [s \in small(n + 1) |-> IF s = {} THEN 0 ELSE g[One(s)] + f[s \ {One(s)}]]
  <2>1. ASSUME NEW s \in small(n + 1), s # {} PROVE s \ {One(s)} \in small(n)
    <3>1. One(s) \in s /\ s \in SUBSET B /\ Cardinality(s) <= n + 1
      BY <2>1, OneIsIn
    <3>2. Cardinality(s \ {One(s)}) = Cardinality(s) - 1 /\ Cardinality(s) \in Nat
      BY <1>1, <3>1, FS_RemoveElement
    <3> QED
      BY <3>1, <3>2
  <2>2. \A s \in small(n) : s \in small(n + 1)
    BY <1>1
  <2> HIDE DEF small
  <2>3. \A s \in small(n) : f[s] = IF s = {} THEN 0 ELSE g[One(s)] + f[s \ {One(s)}]
    BY <1>3, Zenon
  <2>4. \A s \in small(n) : h[s] = f[s]
    BY <2>2, <2>3
  <2>5. \A s \in small(n + 1) : h[s] = IF s = {} THEN 0 ELSE g[One(s)] + h[s \ {One(s)}]
    BY <2>1, <2>4
  <2>6. Upto(h, n + 1)
    BY <2>5
  <2> QED
    BY <2>6
<1>4. never = {}
  <2>1. SUFFICES ASSUME never # {} PROVE FALSE
    OBVIOUS
  <2>2. never \in SUBSET Nat
    OBVIOUS
  <2> HIDE DEF Upto
  <2>3. PICK n \in never : \A m \in never : n <= m
    <3> HIDE DEF never
    <3> QED
      BY <2>1, <2>2, LeastIsIn
  <2>4. n \in Nat /\ n # 0
    BY <1>2
  <2>5. n - 1 \in Nat /\ n - 1 \notin never
    BY <2>3, <2>4
  <2>6. PICK f : Upto(f, n - 1)
    BY <2>5
  <2>7. \E h : Upto(h, (n - 1) + 1)
    BY <1>3, <2>5, <2>6
  <2>8. (n - 1) + 1 = n
    BY <2>4
  <2> QED
    BY <2>7, <2>8
<1>5. small(Cardinality(B)) = SUBSET B /\ Cardinality(B) \in Nat
  BY <1>1
<1> HIDE DEF small
<1>6. PICK f : Upto(f, Cardinality(B))
  BY <1>4, <1>5
<1> QED
  BY <1>5, <1>6 DEF AddsUp

\* There is only one, and it does not depend on B.
LEMMA AddsUpAgree ==
  ASSUME NEW g, NEW B, IsFiniteSet(B), NEW f, AddsUp(f, g, B),
         NEW T \in SUBSET B, NEW h, AddsUp(h, g, T)
  PROVE  \A s \in SUBSET T : f[s] = h[s]
<1> DEFINE W == {s \in SUBSET T : f[s] # h[s]}
<1>1. SUFFICES ASSUME W # {} PROVE FALSE
  OBVIOUS
<1>2. IsFiniteSet(T)
  BY FS_Subset
<1>3. PICK s \in W : \A x \in s : \A t \in SUBSET (s \ {x}) : t \notin W
  <2>1. W \in SUBSET (SUBSET T)
    OBVIOUS
  <2> HIDE DEF W
  <2> QED
    BY <1>1, <1>2, <2>1, MinimalIsIn
<1>4. s \in SUBSET T /\ s \in SUBSET B
  OBVIOUS
<1>5. /\ f[s] = IF s = {} THEN 0 ELSE g[One(s)] + f[s \ {One(s)}]
      /\ h[s] = IF s = {} THEN 0 ELSE g[One(s)] + h[s \ {One(s)}]
  BY <1>4, AddsUpIs
<1>6. s # {}
  BY <1>5
<1>7. One(s) \in s
  BY <1>6, OneIsIn
<1>8. s \ {One(s)} \notin W /\ s \ {One(s)} \in SUBSET T
  BY <1>3, <1>4, <1>7
<1>9. f[s \ {One(s)}] = h[s \ {One(s)}]
  BY <1>8
<1> QED
  BY <1>5, <1>9

LEMMA SumIs ==
  ASSUME NEW g, NEW B, IsFiniteSet(B), NEW f, AddsUp(f, g, B), NEW s \in SUBSET B
  PROVE  SumFunctionOnSet(g, s) = f[s]
<1> DEFINE h == CHOOSE h : AddsUp(h, g, s)
<1>1. IsFiniteSet(s)
  BY FS_Subset
<1>2. AddsUp(h, g, s)
  BY <1>1, SumExists
<1>3. SumFunctionOnSet(g, s) = h[s]
  BY SumIsChosen
<1> HIDE DEF h
<1> QED
  BY <1>2, <1>3, AddsUpAgree

\* The sum over nothing is 0, and that over more goes on as the fold does.
LEMMA SumStep ==
  ASSUME NEW g, NEW B, IsFiniteSet(B)
  PROVE  /\ B = {} => SumFunctionOnSet(g, B) = 0
         /\ B # {} => SumFunctionOnSet(g, B) = g[One(B)] + SumFunctionOnSet(g, B \ {One(B)})
<1>1. PICK f : AddsUp(f, g, B)
  BY SumExists
<1>2. f[B] = IF B = {} THEN 0 ELSE g[One(B)] + f[B \ {One(B)}]
  BY <1>1, AddsUpIs
<1>3. /\ SumFunctionOnSet(g, B) = f[B]
      /\ SumFunctionOnSet(g, B \ {One(B)}) = f[B \ {One(B)}]
  BY <1>1, SumIs
<1> QED
  BY <1>2, <1>3

LEMMA SumOfNone == ASSUME NEW g PROVE SumFunctionOnSet(g, {}) = 0
<1>1. IsFiniteSet({})
  BY FS_EmptySet
<1> QED
  BY <1>1, SumStep

LEMMA SumType ==
  ASSUME NEW g, NEW B, IsFiniteSet(B), \A x \in B : g[x] \in Int
  PROVE  SumFunctionOnSet(g, B) \in Int
<1> DEFINE W == {s \in SUBSET B : SumFunctionOnSet(g, s) \notin Int}
<1>1. {} \notin W
  <2>1. SumFunctionOnSet(g, {}) = 0
    BY SumOfNone
  <2> QED
    BY <2>1
<1>2. ASSUME NEW s \in SUBSET B, s # {}, s \ {One(s)} \notin W
      PROVE  s \notin W
  <2>1. IsFiniteSet(s) /\ One(s) \in s /\ One(s) \in B
    BY <1>2, OneIsIn, FS_Subset
  <2>2. SumFunctionOnSet(g, s \ {One(s)}) \in Int
    BY <1>2
  <2>3. SumFunctionOnSet(g, s) = g[One(s)] + SumFunctionOnSet(g, s \ {One(s)})
    BY <1>2, <2>1, SumStep
  <2> QED
    BY <2>1, <2>2, <2>3
<1>3. W = {}
  <2>1. W \in SUBSET (SUBSET B)
    OBVIOUS
  <2> HIDE DEF W
  <2> QED
    BY <1>1, <1>2, <2>1, NoneFails
<1> QED
  BY <1>3

\* Whichever member is taken first.
LEMMA SumRemove ==
  ASSUME NEW g, NEW B, IsFiniteSet(B), \A x \in B : g[x] \in Int, NEW a \in B
  PROVE  SumFunctionOnSet(g, B) = g[a] + SumFunctionOnSet(g, B \ {a})
<1> DEFINE Sum(s) == SumFunctionOnSet(g, s)
           W == {s \in SUBSET B : \E x \in s : Sum(s) # g[x] + Sum(s \ {x})}
<1>1. SUFFICES ASSUME W # {} PROVE FALSE
  OBVIOUS
<1>2. PICK s \in W : \A x \in s : \A t \in SUBSET (s \ {x}) : t \notin W
  <2>1. W \in SUBSET (SUBSET B)
    OBVIOUS
  <2> HIDE DEF W
  <2> QED
    BY <1>1, <2>1, MinimalIsIn
<1>3. PICK x \in s : Sum(s) # g[x] + Sum(s \ {x})
  BY <1>2
<1> DEFINE y == One(s)
<1>4. y \in s /\ y # x
  <2>1. s # {} /\ IsFiniteSet(s)
    BY <1>3, FS_Subset
  <2>2. y \in s /\ Sum(s) = g[y] + Sum(s \ {y})
    BY <2>1, OneIsIn, SumStep
  <2> QED
    BY <1>3, <2>2
<1>5. Sum(s) = g[y] + Sum(s \ {y})
  BY <1>4, SumStep, FS_Subset
<1> HIDE DEF y
<1> DEFINE rest == s \ {x, y}
<1>6. Sum(s \ {y}) = g[x] + Sum(rest)
  <2>1. s \ {y} \notin W /\ s \ {y} \in SUBSET B /\ x \in s \ {y} /\ (s \ {y}) \ {x} = rest
    BY <1>2, <1>4
  <2> QED
    BY <2>1
<1>7. Sum(s \ {x}) = g[y] + Sum(rest)
  <2>1. s \ {x} \notin W /\ s \ {x} \in SUBSET B /\ y \in s \ {x} /\ (s \ {x}) \ {y} = rest
    BY <1>2, <1>4
  <2> QED
    BY <2>1
<1>8. g[x] \in Int /\ g[y] \in Int /\ Sum(rest) \in Int
  <2>1. rest \in SUBSET B /\ IsFiniteSet(rest) /\ x \in B /\ y \in B
    BY <1>4, FS_Subset
  <2> HIDE DEF rest
  <2> QED
    BY <2>1, SumType
<1> HIDE DEF Sum, W, rest
<1> QED
  BY <1>3, <1>5, <1>6, <1>7, <1>8

LEMMA SumAdd ==
  ASSUME NEW g, NEW B, IsFiniteSet(B), NEW a, a \notin B, \A x \in B \cup {a} : g[x] \in Int
  PROVE  /\ SumFunctionOnSet(g, B \cup {a}) = SumFunctionOnSet(g, B) + g[a]
         /\ IsFiniteSet(B \cup {a})
<1>1. IsFiniteSet(B \cup {a}) /\ (B \cup {a}) \ {a} = B
  BY FS_AddElement
<1> DEFINE more == B \cup {a}
<1>2. SumFunctionOnSet(g, more) = g[a] + SumFunctionOnSet(g, B)
  <2>1. IsFiniteSet(more) /\ a \in more /\ more \ {a} = B /\ \A x \in more : g[x] \in Int
    BY <1>1
  <2> HIDE DEF more
  <2> QED
    BY <2>1, SumRemove
<1>3. SumFunctionOnSet(g, B) \in Int /\ g[a] \in Int
  BY SumType
<1> QED
  BY <1>1, <1>2, <1>3

\* What a family of finite sets without common members counts, member by member, is what
\* their union counts.
LEMMA CountsSum ==
  ASSUME NEW B, IsFiniteSet(B), NEW A, \A b \in B : IsFiniteSet(A[b]),
         \A b, c \in B : b # c => A[b] \cap A[c] = {},
         NEW g, DOMAIN g = B, \A b \in B : g[b] = Cardinality(A[b])
  PROVE  SumFunction(g) = Cardinality(UNION {A[b] : b \in B})
<1> DEFINE Sum(s) == SumFunctionOnSet(g, s)
           all(s) == UNION {A[b] : b \in s}
           right(s) == IsFiniteSet(all(s)) /\ Sum(s) = Cardinality(all(s))
           W == {s \in SUBSET B : ~ right(s)}
<1>1. right({})
  <2>1. all({}) = {}
    OBVIOUS
  <2> QED
    BY <2>1, SumOfNone, FS_EmptySet
<1>2. ASSUME NEW s \in SUBSET B, s # {}, right(s \ {One(s)}) PROVE right(s)
  <2> DEFINE b == One(s)
             rest == all(s \ {b})
  <2>1. b \in s /\ IsFiniteSet(s)
    BY <1>2, OneIsIn, FS_Subset
  <2>2. Sum(s) = g[b] + Sum(s \ {b})
    BY <1>2, <2>1, SumStep
  <2> HIDE DEF b
  <2>3. all(s) = A[b] \cup rest /\ A[b] \cap rest = {}
    BY <2>1
  <2>4. /\ IsFiniteSet(A[b]) /\ Cardinality(A[b]) \in Nat /\ g[b] = Cardinality(A[b])
    BY <2>1, FS_CardinalityType
  <2>5. IsFiniteSet(rest) /\ Cardinality(rest) \in Nat /\ Sum(s \ {b}) = Cardinality(rest)
    BY <1>2, FS_CardinalityType DEF b
  <2> HIDE DEF rest, all, Sum
  <2>6. /\ IsFiniteSet(all(s))
        /\ Cardinality(all(s)) = Cardinality(A[b]) + Cardinality(rest) - Cardinality({})
    BY <2>3, <2>4, <2>5, FS_Union
  <2> QED
    BY <2>2, <2>4, <2>5, <2>6, FS_EmptySet
<1> HIDE DEF right
<1>3. W = {}
  <2>1. W \in SUBSET (SUBSET B) /\ {} \notin W
    BY <1>1
  <2>2. \A s \in SUBSET B : s # {} /\ s \ {One(s)} \notin W => s \notin W
    BY <1>2
  <2> HIDE DEF W
  <2> QED
    BY <2>1, <2>2, NoneFails
<1>4. right(B)
  BY <1>3
<1> QED
  BY <1>4 DEF right, SumFunction

-----------------------------------------------------------------------------
\* A function on 1..n is a sequence of length n.
LEMMA FunctionIsSeq ==
  ASSUME NEW S, NEW n \in Nat, NEW f \in [1..n -> S]
  PROVE  f \in Seq(S) /\ Len(f) = n /\ DOMAIN f = 1..n
<1>1. f \in Seq(S)
  BY SeqDef
<1>2. Len(f) \in Nat /\ DOMAIN f = 1..Len(f) /\ DOMAIN f = 1..n
  BY <1>1, LenProperties
<1> QED
  BY <1>1, <1>2
=============================================================================
