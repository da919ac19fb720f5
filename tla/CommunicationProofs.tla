------------------------ MODULE CommunicationProofs ------------------------
(***************************************************************************)
(* What the path lenses compute, for every finite undirected graph.        *)
(***************************************************************************)
EXTENDS CommunicationAnalysis, SequenceTheorems, FiniteSetTheorems, WellFoundedInduction,
        TLAPS

\* A communication graph: finite, with keys in an order, and undirected.
Undirected(g) ==
    /\ IsFiniteSet(DOMAIN g) /\ DOMAIN g \subseteq Int
    /\ g \in [DOMAIN g -> SUBSET DOMAIN g]
    /\ \A m, n \in DOMAIN g : m \in g[n] <=> n \in g[m]

-----------------------------------------------------------------------------
(* Recursion over 0..n.  The property an induction is about is given as    *)
(* the set of the numbers that have it, the step as a function.            *)

LEMMA StepByStep ==
    ASSUME NEW n \in Nat, NEW P, 0 \in P,
           \A i \in 1..n : i - 1 \in P => i \in P
    PROVE  \A i \in 0..n : i \in P
<1> DEFINE T == {i \in 0..n : i \notin P}
<1> SUFFICES ASSUME T # {} PROVE FALSE
  OBVIOUS
<1>1. T \subseteq Nat
  OBVIOUS
<1> HIDE DEF T
<1>2. PICK i \in T : \A j \in T : <<j, i>> \notin OpToRel(<, Nat)
  BY <1>1, NatLessThanWellFounded, WFMin
<1>3. i \in 0..n /\ i \notin P
  BY <1>2 DEF T
<1>4. i \in 1..n /\ i - 1 \in Nat
  BY <1>3
<1>5. <<i - 1, i>> \in OpToRel(<, Nat)
  BY <1>4 DEF OpToRel
<1>6. i - 1 \notin T
  BY <1>2, <1>5
<1>7. i - 1 \in P
  BY <1>4, <1>6 DEF T
<1> QED
  BY <1>3, <1>4, <1>7

Iterated(f, H, a, n) == f = [i \in 0..n |-> IF i = 0 THEN a ELSE H[i][f[i - 1]]]

LEMMA Iterates ==
    ASSUME NEW X, NEW a \in X, NEW n \in Nat, NEW H \in [1..n -> [X -> X]]
    PROVE  \E f \in [0..n -> X] : Iterated(f, H, a, n)
<1> DEFINE Upto(k, f) == f \in [0..k -> X] /\ f[0] = a /\ \A i \in 1..k : f[i] = H[i][f[i - 1]]
           P == {k \in 0..n : \E f : Upto(k, f)}
<1>1. 0 \in P
  <2>1. Upto(0, [i \in 0..0 |-> a])
    OBVIOUS
  <2>2. \E f : Upto(0, f)
    BY <2>1
  <2> HIDE DEF Upto
  <2> QED
    BY <2>2
<1>2. ASSUME NEW k \in 1..n, k - 1 \in P
      PROVE  k \in P
  <2>1. PICK f : Upto(k - 1, f)
    BY <1>2
  <2> DEFINE h == [i \in 0..k |-> IF i = k THEN H[k][f[k - 1]] ELSE f[i]]
  <2>2. k - 1 \in 0..(k - 1) /\ f[k - 1] \in X
    BY <2>1
  <2>3. H[k][f[k - 1]] \in X
    BY <2>2
  <2>4. h \in [0..k -> X]
    BY <2>1, <2>3
  <2>5. h[0] = a
    BY <2>1
  <2>6. \A i \in 1..k : h[i] = H[i][h[i - 1]]
    <3> SUFFICES ASSUME NEW i \in 1..k PROVE h[i] = H[i][h[i - 1]]
      OBVIOUS
    <3>1. i - 1 \in 0..k /\ i - 1 # k
      OBVIOUS
    <3>2. h[i - 1] = f[i - 1]
      BY <3>1
    <3>3. CASE i = k
      BY <3>2, <3>3
    <3>4. CASE i # k
      <4>1. i \in 1..(k - 1)
        BY <3>4
      <4> QED
        BY <2>1, <3>2, <3>4, <4>1
    <3> QED
      BY <3>3, <3>4
  <2> HIDE DEF h
  <2>7. Upto(k, h)
    BY <2>4, <2>5, <2>6
  <2> QED
    BY <2>7
<1> HIDE DEF P
<1>3. n \in P
  <2>1. \A k \in 0..n : k \in P
    BY <1>1, <1>2, StepByStep
  <2> QED
    BY <2>1
<1>4. PICK f : Upto(n, f)
  BY <1>3 DEF P
<1>5. ASSUME NEW i \in 0..n
      PROVE  f[i] = IF i = 0 THEN a ELSE H[i][f[i - 1]]
  BY <1>4
<1>6. DOMAIN f = 0..n
  BY <1>4
<1>7. f = [i \in 0..n |-> f[i]]
  BY <1>4
<1>8. [i \in 0..n |-> f[i]] = [i \in 0..n |-> IF i = 0 THEN a ELSE H[i][f[i - 1]]]
  BY <1>5
<1> QED
  BY <1>4, <1>7, <1>8 DEF Iterated

\* The value at a point depends on those of lower rank only.
GoesDown(E, D, V, rank) ==
    \A f, h \in [D -> V] : \A x \in D :
        (\A y \in D : rank[y] < rank[x] => f[y] = h[y]) => E[f][x] = E[h][x]

Ranked(D, rank, n) == rank \in [D -> Nat] /\ n \in Nat /\ \A x \in D : rank[x] <= n

Solved(E, D, V) == \E f \in [D -> V] : f = E[f]

\* A recursion that goes down by rank has a solution.
LEMMA RecursionByRank ==
    ASSUME NEW D, NEW V, NEW rank, NEW n, Ranked(D, rank, n),
           NEW start \in [D -> V], NEW E \in [[D -> V] -> [D -> V]], GoesDown(E, D, V, rank)
    PROVE  Solved(E, D, V)
<1>0. rank \in [D -> Nat] /\ n \in Nat /\ \A x \in D : rank[x] <= n
  BY DEF Ranked
<1> DEFINE X == [D -> V]
           H == [i \in 1..(n + 1) |-> E]
<1>1. H \in [1..(n + 1) -> [X -> X]] /\ \A i \in 1..(n + 1) : H[i] = E
  OBVIOUS
<1>2. /\ start \in X /\ n + 1 \in Nat /\ E \in [X -> X]
      /\ \A f \in X : f = [x \in D |-> f[x]]
      /\ \A f, h \in X : \A x \in D :
            (\A y \in D : rank[y] < rank[x] => f[y] = h[y]) => E[f][x] = E[h][x]
  BY <1>0 DEF GoesDown
<1> HIDE DEF X, H
<1>3. PICK u \in [0..(n + 1) -> X] :
         u = [i \in 0..(n + 1) |-> IF i = 0 THEN start ELSE H[i][u[i - 1]]]
  <2>1. \E u \in [0..(n + 1) -> X] : Iterated(u, H, start, n + 1)
    BY <1>1, <1>2, Iterates
  <2> QED
    BY <2>1 DEF Iterated
<1>4. \A i \in 1..(n + 1) : u[i] = E[u[i - 1]] /\ u[i - 1] \in X /\ u[i] \in X
  <2> SUFFICES ASSUME NEW i \in 1..(n + 1)
               PROVE  u[i] = E[u[i - 1]] /\ u[i - 1] \in X /\ u[i] \in X
    OBVIOUS
  <2>1. i \in 0..(n + 1) /\ i - 1 \in 0..(n + 1) /\ i # 0
    BY <1>0
  <2> QED
    BY <1>1, <1>3, <2>1
<1> DEFINE P == {i \in 0..(n + 1) : \A x \in D : rank[x] < i => E[u[i]][x] = u[i][x]}
<1>5. 0 \in P
  <2>1. \A x \in D : ~(rank[x] < 0)
    BY <1>0
  <2> QED
    BY <1>0, <2>1
<1>6. ASSUME NEW i \in 1..(n + 1), i - 1 \in P  PROVE i \in P
  <2> DEFINE w == u[i - 1]
  <2>1. w \in X /\ u[i] = E[w] /\ E[w] \in X
    BY <1>2, <1>4
  <2>2. \A x \in D : rank[x] < i - 1 => E[w][x] = w[x]
    BY <1>6
  <2> HIDE DEF w
  <2>3. ASSUME NEW x \in D, rank[x] < i
        PROVE  E[E[w]][x] = E[w][x]
    <3>1. \A y \in D : rank[y] < rank[x] => rank[y] < i - 1
      BY <1>0, <2>3
    <3>2. \A y \in D : rank[y] < rank[x] => E[w][y] = w[y]
      BY <2>2, <3>1
    <3> QED
      BY <1>2, <2>1, <3>2
  <2>4. \A x \in D : rank[x] < i => E[u[i]][x] = u[i][x]
    BY <2>1, <2>3
  <2> QED
    BY <2>4
<1> HIDE DEF P
<1>7. \A i \in 0..(n + 1) : i \in P
  BY <1>2, <1>5, <1>6, StepByStep
<1> DEFINE f == u[n + 1]
<1>8. f \in X /\ E[f] \in X
  <2>1. n + 1 \in 1..(n + 1)
    BY <1>0
  <2> QED
    BY <1>2, <1>4, <2>1
<1>9. \A x \in D : E[f][x] = f[x]
  <2>1. n + 1 \in P
    <3>1. n + 1 \in 0..(n + 1)
      BY <1>0
    <3> QED
      BY <1>7, <3>1
  <2>2. \A x \in D : rank[x] < n + 1
    BY <1>0
  <2> QED
    BY <2>1, <2>2 DEF P
<1> HIDE DEF f
<1>10. f = E[f]
  BY <1>2, <1>8, <1>9
<1> QED
  BY <1>8, <1>10 DEF X, Solved

-----------------------------------------------------------------------------
(* Sums over finite sets.                                                  *)

LEMMA FiniteByStep ==
    ASSUME NEW S, IsFiniteSet(S), NEW P,
           \A T \in SUBSET S : (\A x \in T : T \ {x} \in P) => T \in P
    PROVE  \A T \in SUBSET S : T \in P
<1> DEFINE n == Cardinality(S)
           Q == {i \in 0..n : \A T \in SUBSET S : Cardinality(T) <= i => T \in P}
<1>1. n \in Nat /\ \A T \in SUBSET S :
          IsFiniteSet(T) /\ Cardinality(T) \in Nat /\ Cardinality(T) <= n
  BY FS_CardinalityType, FS_Subset
<1>2. \A T \in SUBSET S : \A x \in T :
          T \ {x} \in SUBSET S /\ Cardinality(T \ {x}) = Cardinality(T) - 1
  BY <1>1, FS_RemoveElement
<1> HIDE DEF n
<1>3. 0 \in Q
  <2>1. ASSUME NEW T \in SUBSET S, Cardinality(T) <= 0  PROVE T \in P
    <3>1. Cardinality(T) = 0
      BY <1>1, <2>1
    <3>2. T = {}
      BY <1>1, <3>1, FS_EmptySet
    <3> QED
      BY <3>2
  <2> QED
    BY <1>1, <2>1
<1>4. ASSUME NEW i \in 1..n, i - 1 \in Q  PROVE i \in Q
  <2>1. ASSUME NEW T \in SUBSET S, Cardinality(T) <= i  PROVE T \in P
    <3>1. ASSUME NEW x \in T PROVE T \ {x} \in P
      <4>1. Cardinality(T \ {x}) <= i - 1 /\ T \ {x} \in SUBSET S
        BY <1>1, <1>2, <2>1
      <4> QED
        BY <1>4, <4>1
    <3> QED
      BY <3>1
  <2> QED
    BY <2>1
<1> HIDE DEF Q
<1>5. \A i \in 0..n : i \in Q
  BY <1>1, <1>3, <1>4, StepByStep
<1>6. n \in Q
  <2>1. n \in 0..n
    BY <1>1
  <2> QED
    BY <1>5, <2>1
<1> QED
  BY <1>1, <1>6 DEF Q

Pick(T) == CHOOSE x \in T : TRUE

Less(T) == T \ {Pick(T)}

Sums(it, F, S) ==
    it = [T \in SUBSET S |-> IF T = {} THEN 0 ELSE F[Pick(T)] + it[Less(T)]]

LEMMA SumsExist ==
    ASSUME NEW S, IsFiniteSet(S), NEW F, \A x \in S : F[x] \in Nat
    PROVE  \E it \in [SUBSET S -> Nat] : Sums(it, F, S)
<1> DEFINE D == SUBSET S
           rank == [T \in D |-> Cardinality(T)]
           n == Cardinality(S)
           start == [T \in D |-> 0]
           X == [D -> Nat]
           B(f, T) == IF T = {} THEN 0 ELSE F[Pick(T)] + f[Less(T)]
           E == [f \in X |-> [T \in D |-> B(f, T)]]
<1>1. n \in Nat /\ \A T \in D : IsFiniteSet(T) /\ Cardinality(T) \in Nat /\ Cardinality(T) <= n
  BY FS_CardinalityType, FS_Subset
<1>2. \A T \in D : T # {} =>
          /\ Pick(T) \in T /\ Less(T) \in D
          /\ Cardinality(Less(T)) = Cardinality(T) - 1
  BY <1>1, FS_RemoveElement DEF Pick, Less
<1>3. rank \in [D -> Nat] /\ \A T \in D : rank[T] = Cardinality(T) /\ rank[T] <= n
  BY <1>1
<1>4. \A T \in D : T # {} => F[Pick(T)] \in Nat
  BY <1>2
<1> HIDE DEF D, rank, n
<1>5. \A f \in X : \A T \in D : B(f, T) \in Nat
  <2> SUFFICES ASSUME NEW f \in X, NEW T \in D PROVE B(f, T) \in Nat
    OBVIOUS
  <2>1. CASE T = {}
    BY <2>1
  <2>2. CASE T # {}
    <3>1. Less(T) \in D /\ F[Pick(T)] \in Nat
      BY <1>2, <1>4, <2>2
    <3>2. f[Less(T)] \in Nat
      BY <3>1
    <3> QED
      BY <2>2, <3>1, <3>2
  <2> QED
    BY <2>1, <2>2
<1> HIDE DEF B
<1>6. E \in [X -> X] /\ \A f \in X : \A T \in D : E[f][T] = B(f, T)
  BY <1>5
<1>7. ASSUME NEW f \in X, NEW h \in X, NEW T \in D,
             \A y \in D : rank[y] < rank[T] => f[y] = h[y]
      PROVE  E[f][T] = E[h][T]
  <2>1. CASE T = {}
    BY <1>6, <2>1 DEF B
  <2>2. CASE T # {}
    <3>1. Less(T) \in D /\ rank[Less(T)] < rank[T]
      <4>1. Less(T) \in D /\ Cardinality(Less(T)) = Cardinality(T) - 1 /\ Cardinality(T) \in Nat
        BY <1>1, <1>2, <2>2
      <4> QED
        BY <1>3, <4>1
    <3>2. f[Less(T)] = h[Less(T)]
      BY <1>7, <3>1
    <3> QED
      BY <1>6, <2>2, <3>2 DEF B
  <2> QED
    BY <2>1, <2>2
<1>8. start \in X /\ \A f \in X : f = [T \in D |-> f[T]]
  OBVIOUS
<1> HIDE DEF E, start
<1>9. Solved(E, D, Nat)
  <2>1. Ranked(D, rank, n)
    BY <1>1, <1>3 DEF Ranked
  <2>2. start \in [D -> Nat] /\ E \in [[D -> Nat] -> [D -> Nat]]
    BY <1>6, <1>8
  <2>3. GoesDown(E, D, Nat, rank)
    BY <1>7 DEF GoesDown
  <2> QED
    BY <2>1, <2>2, <2>3, RecursionByRank
<1>10. PICK f \in X : f = E[f]
  BY <1>9 DEF Solved
<1>11. f = [T \in D |-> B(f, T)]
  BY <1>6, <1>8, <1>10
<1> QED
  BY <1>11 DEF Sums, B, D

LEMMA SumIs ==
    ASSUME NEW S, IsFiniteSet(S), NEW F, \A x \in S : F[x] \in Nat
    PROVE  \E it : Sums(it, F, S) /\ SumFunctionOnSet(F, S) = it[S]
<1> DEFINE it == CHOOSE it : Sums(it, F, S)
<1>1. Sums(it, F, S)
  BY SumsExist
<1>2. SumFunctionOnSet(F, S) = it[S]
  BY DEF SumFunctionOnSet, FoldFunctionOnSet, MapThenFoldSet, Sums, Pick, Less
<1> QED
  BY <1>1, <1>2

\* A sum does not depend on the set it is part of, or on what is not in it.
LEMMA SumsAgree ==
    ASSUME NEW S, IsFiniteSet(S), NEW F, NEW G, NEW R,
           \A x \in S \intersect R : F[x] = G[x],
           NEW it, Sums(it, F, S), NEW jt, Sums(jt, G, R)
    PROVE  \A T \in SUBSET (S \intersect R) : it[T] = jt[T]
<1> DEFINE Q == S \intersect R
           P == {T \in SUBSET Q : it[T] = jt[T]}
<1>1. IsFiniteSet(Q)
  BY FS_Subset
<1>2. /\ \A T \in SUBSET Q : it[T] = IF T = {} THEN 0 ELSE F[Pick(T)] + it[Less(T)]
      /\ \A T \in SUBSET Q : jt[T] = IF T = {} THEN 0 ELSE G[Pick(T)] + jt[Less(T)]
  BY DEF Sums
<1>3. \A x \in Q : F[x] = G[x]
  OBVIOUS
<1> HIDE DEF Q
<1>4. ASSUME NEW T \in SUBSET Q, \A x \in T : T \ {x} \in P
      PROVE  T \in P
  <2>1. CASE T = {}
    BY <1>2, <2>1
  <2>2. CASE T # {}
    <3>1. Pick(T) \in T
      BY <2>2 DEF Pick
    <3>2. Less(T) \in P
      BY <1>4, <3>1 DEF Less
    <3>3. F[Pick(T)] = G[Pick(T)]
      BY <1>3, <3>1
    <3> QED
      BY <1>2, <2>2, <3>2, <3>3
  <2> QED
    BY <2>1, <2>2
<1>5. \A T \in SUBSET Q : T \in P
  <2> HIDE DEF P
  <2> QED
    BY <1>1, <1>4, FiniteByStep
<1> QED
  BY <1>5 DEF Q

Numbers(F, S) == IsFiniteSet(S) /\ \A x \in S : F[x] \in Nat

LEMMA SumInside ==
    ASSUME NEW S, NEW F, Numbers(F, S), NEW it, Sums(it, F, S)
    PROVE  \A T \in SUBSET S : it[T] = SumFunctionOnSet(F, T)
<1> SUFFICES ASSUME NEW T \in SUBSET S PROVE it[T] = SumFunctionOnSet(F, T)
  OBVIOUS
<1>1. IsFiniteSet(T) /\ \A x \in T : F[x] \in Nat
  BY FS_Subset DEF Numbers
<1>2. PICK jt : Sums(jt, F, T) /\ SumFunctionOnSet(F, T) = jt[T]
  BY <1>1, SumIs
<1>3. S \intersect T = T /\ IsFiniteSet(S)
  BY DEF Numbers
<1>4. \A U \in SUBSET (S \intersect T) : it[U] = jt[U]
  BY <1>2, <1>3, SumsAgree
<1> QED
  BY <1>2, <1>3, <1>4

LEMMA SumCongruent ==
    ASSUME NEW S, NEW F, NEW G, Numbers(F, S), \A x \in S : F[x] = G[x]
    PROVE  SumFunctionOnSet(F, S) = SumFunctionOnSet(G, S) /\ Numbers(G, S)
<1>1. IsFiniteSet(S) /\ (\A x \in S : F[x] \in Nat) /\ (\A x \in S : G[x] \in Nat)
  BY DEF Numbers
<1>2. PICK it : Sums(it, F, S) /\ SumFunctionOnSet(F, S) = it[S]
  BY <1>1, SumIs
<1>3. PICK jt : Sums(jt, G, S) /\ SumFunctionOnSet(G, S) = jt[S]
  BY <1>1, SumIs
<1>4. \A T \in SUBSET (S \intersect S) : it[T] = jt[T]
  BY <1>1, <1>2, <1>3, SumsAgree
<1>5. it[S] = jt[S]
  BY <1>4
<1> QED
  BY <1>1, <1>2, <1>3, <1>5 DEF Numbers

\* The sum, an element at a time.
LEMMA SumByPick ==
    ASSUME NEW S, NEW F, Numbers(F, S)
    PROVE  /\ SumFunctionOnSet(F, {}) = 0
           /\ \A T \in SUBSET S : /\ SumFunctionOnSet(F, T) \in Nat
                                  /\ T # {} => SumFunctionOnSet(F, T) = F[Pick(T)] + SumFunctionOnSet(F, Less(T))
<1>1. IsFiniteSet(S) /\ \A x \in S : F[x] \in Nat
  BY DEF Numbers
<1>2. PICK it \in [SUBSET S -> Nat] : Sums(it, F, S)
  BY <1>1, SumsExist
<1>3. \A T \in SUBSET S : it[T] = SumFunctionOnSet(F, T)
  BY <1>2, SumInside
<1>4. \A T \in SUBSET S : it[T] = IF T = {} THEN 0 ELSE F[Pick(T)] + it[Less(T)]
  BY <1>2 DEF Sums
<1>5. \A T \in SUBSET S : Less(T) \in SUBSET S
  BY DEF Less
<1>6. \A T \in SUBSET S : it[T] \in Nat
  OBVIOUS
<1>7. {} \in SUBSET S
  OBVIOUS
<1> QED
  BY <1>3, <1>4, <1>5, <1>6, <1>7

LEMMA SumSplits ==
    ASSUME NEW S, NEW F, Numbers(F, S)
    PROVE  \A T \in SUBSET S : \A x \in T : SumFunctionOnSet(F, T) = F[x] + SumFunctionOnSet(F, T \ {x})
<1> DEFINE P == {T \in SUBSET S : \A x \in T : SumFunctionOnSet(F, T) = F[x] + SumFunctionOnSet(F, T \ {x})}
<1>1. IsFiniteSet(S) /\ \A x \in S : F[x] \in Nat
  BY DEF Numbers
<1>2. \A T \in SUBSET S : /\ SumFunctionOnSet(F, T) \in Nat
                          /\ T # {} => SumFunctionOnSet(F, T) = F[Pick(T)] + SumFunctionOnSet(F, Less(T))
  BY SumByPick
<1>3. ASSUME NEW T \in SUBSET S, \A x \in T : T \ {x} \in P, NEW x \in T
      PROVE  SumFunctionOnSet(F, T) = F[x] + SumFunctionOnSet(F, T \ {x})
  <2> DEFINE y == Pick(T)
             U == T \ {y}
             W == T \ {x}
             O == U \ {x}
  <2>1. y \in T
    BY DEF Pick
  <2>2. SumFunctionOnSet(F, T) = F[y] + SumFunctionOnSet(F, U)
    BY <1>2 DEF Less
  <2>3. CASE x = y
    BY <2>2, <2>3
  <2>4. CASE x # y
    <3>1. x \in U /\ y \in W /\ W \ {y} = O /\ U \in P /\ W \in P
      BY <1>3, <2>1, <2>4
    <3>2. U \in SUBSET S /\ W \in SUBSET S /\ O \in SUBSET S
      BY <2>1
    <3> HIDE DEF y, U, W, O
    <3>3. SumFunctionOnSet(F, U) = F[x] + SumFunctionOnSet(F, U \ {x})
      BY <3>1
    <3>4. SumFunctionOnSet(F, W) = F[y] + SumFunctionOnSet(F, W \ {y})
      BY <3>1
    <3>5. SumFunctionOnSet(F, U) = F[x] + SumFunctionOnSet(F, O) /\ SumFunctionOnSet(F, W) = F[y] + SumFunctionOnSet(F, O)
      BY <3>1, <3>3, <3>4 DEF O
    <3>6. F[x] \in Nat /\ F[y] \in Nat /\ SumFunctionOnSet(F, O) \in Nat
      BY <1>1, <1>2, <2>1, <3>2
    <3>7. SumFunctionOnSet(F, T) = F[x] + SumFunctionOnSet(F, W)
      BY <2>2, <3>5, <3>6
    <3> QED
      BY <3>7 DEF W
  <2> QED
    BY <2>3, <2>4
<1>4. \A T \in SUBSET S : T \in P
  <2>1. ASSUME NEW T \in SUBSET S, \A x \in T : T \ {x} \in P
        PROVE  T \in P
    BY <1>3, <2>1
  <2> HIDE DEF P
  <2> QED
    BY <1>1, <2>1, FiniteByStep
<1> QED
  BY <1>4

LEMMA SumZero ==
    ASSUME NEW S, NEW F, Numbers(F, S)
    PROVE  SumFunctionOnSet(F, S) = 0 <=> \A x \in S : F[x] = 0
<1> DEFINE P == {T \in SUBSET S : (\A x \in T : F[x] = 0) => SumFunctionOnSet(F, T) = 0}
<1>1. IsFiniteSet(S) /\ \A x \in S : F[x] \in Nat
  BY DEF Numbers
<1>2. \A T \in SUBSET S : SumFunctionOnSet(F, T) \in Nat /\ \A x \in T : SumFunctionOnSet(F, T) = F[x] + SumFunctionOnSet(F, T \ {x})
  BY SumByPick, SumSplits
<1>3. SumFunctionOnSet(F, {}) = 0
  BY SumByPick
<1>4. ASSUME NEW x \in S, SumFunctionOnSet(F, S) = 0  PROVE F[x] = 0
  <2>1. S \in SUBSET S /\ S \ {x} \in SUBSET S
    OBVIOUS
  <2>2. SumFunctionOnSet(F, S) = F[x] + SumFunctionOnSet(F, S \ {x}) /\ SumFunctionOnSet(F, S \ {x}) \in Nat /\ F[x] \in Nat
    BY <1>1, <1>2, <2>1
  <2> QED
    BY <1>4, <2>2
<1>5. ASSUME NEW T \in SUBSET S, \A x \in T : T \ {x} \in P  PROVE T \in P
  <2>1. CASE T = {}
    BY <1>3, <2>1
  <2>2. ASSUME NEW x \in T, \A y \in T : F[y] = 0  PROVE SumFunctionOnSet(F, T) = 0
    <3>1. SumFunctionOnSet(F, T \ {x}) = 0
      BY <1>5, <2>2
    <3> QED
      BY <1>2, <2>2, <3>1
  <2> QED
    BY <2>1, <2>2
<1> HIDE DEF P
<1>6. \A T \in SUBSET S : T \in P
  BY <1>1, <1>5, FiniteByStep
<1>7. S \in P
  BY <1>6
<1> QED
  BY <1>4, <1>7 DEF P

-----------------------------------------------------------------------------
(* The levels of a search: who is met first at each distance.              *)

Fresh(g, met, i) == (UNION {g[m] : m \in met[i]}) \ (UNION {met[j] : j \in 1..i})

IsMet(met, g, s, n) ==
    /\ met \in Seq(SUBSET DOMAIN g) /\ Len(met) = n + 1
    /\ met[1] = {s}
    /\ \A i \in 1..n : met[i + 1] = Fresh(g, met, i)

LEMMA FreshIsKept ==
    ASSUME NEW g, NEW met \in Seq(SUBSET DOMAIN g), NEW S \in SUBSET DOMAIN g,
           NEW i \in 1..Len(met)
    PROVE  Fresh(g, Append(met, S), i) = Fresh(g, met, i)
<1>1. \A j \in 1..i : Append(met, S)[j] = met[j]
  BY AppendProperties
<1>2. Append(met, S)[i] = met[i] /\ i \in 1..i
  BY <1>1
<1>3. UNION {Append(met, S)[j] : j \in 1..i} = UNION {met[j] : j \in 1..i}
  BY <1>1
<1> QED
  BY <1>2, <1>3 DEF Fresh

LEMMA OneLevelMore ==
    ASSUME NEW g, g \in [DOMAIN g -> SUBSET DOMAIN g], NEW s, NEW n \in Nat,
           NEW met, IsMet(met, g, s, n)
    PROVE  IsMet(Append(met, Fresh(g, met, n + 1)), g, s, n + 1)
<1> DEFINE F == Fresh(g, met, n + 1)
           new == Append(met, F)
<1>1. met \in Seq(SUBSET DOMAIN g) /\ Len(met) = n + 1 /\ met[1] = {s}
  BY DEF IsMet
<1>2. n + 1 \in 1..Len(met) /\ met[n + 1] \in SUBSET DOMAIN g
  BY <1>1, ElementOfSeq
<1>3. F \in SUBSET DOMAIN g
  BY <1>2 DEF Fresh
<1> HIDE DEF F
<1>4. /\ new \in Seq(SUBSET DOMAIN g) /\ Len(new) = n + 2
      /\ \A i \in 1..(n + 1) : new[i] = met[i]
      /\ new[n + 2] = F
  BY <1>1, <1>3, AppendProperties
<1>5. \A i \in 1..(n + 1) : Fresh(g, new, i) = Fresh(g, met, i)
  BY <1>1, <1>3, FreshIsKept
<1>6. ASSUME NEW i \in 1..(n + 1)
      PROVE  new[i + 1] = Fresh(g, new, i)
  <2>1. CASE i = n + 1
    BY <1>4, <1>5, <2>1 DEF F
  <2>2. CASE i # n + 1
    <3>1. i \in 1..n /\ i + 1 \in 1..(n + 1)
      BY <2>2
    <3> QED
      BY <1>4, <1>5, <3>1 DEF IsMet
  <2> QED
    BY <2>1, <2>2
<1>7. new[1] = {s}
  BY <1>1, <1>4
<1> HIDE DEF new
<1>8. IsMet(new, g, s, n + 1)
  BY <1>4, <1>6, <1>7 DEF IsMet
<1> QED
  BY <1>8 DEF new, F

LEMMA LevelsAreMet ==
    ASSUME NEW g, g \in [DOMAIN g -> SUBSET DOMAIN g], NEW s \in DOMAIN g, NEW n \in Nat
    PROVE  IsMet(levels(g, s, n), g, s, n)
<1> DEFINE X == Seq(SUBSET DOMAIN g) \ {<<>>}
           Onward(met) == Append(met, (UNION {g[m] : m \in Last(met)}) \ (UNION ToSet(met)))
           H == [i \in 1..n |-> [met \in X |-> Onward(met)]]
           level[i \in 0..n] == IF i = 0 THEN <<{s}>> ELSE Onward(level[i - 1])
<1>1. \A met \in X : Onward(met) \in X
  <2> SUFFICES ASSUME NEW met \in X PROVE Onward(met) \in X
    OBVIOUS
  <2>1. Len(met) \in 1..Len(met)
    BY EmptySeq
  <2>2. Last(met) \in SUBSET DOMAIN g
    BY <2>1, ElementOfSeq DEF Last
  <2> DEFINE S == (UNION {g[m] : m \in Last(met)}) \ (UNION ToSet(met))
  <2>3. S \in SUBSET DOMAIN g
    BY <2>2
  <2> HIDE DEF S
  <2>4. Append(met, S) \in Seq(SUBSET DOMAIN g) /\ Append(met, S) # <<>>
    BY <2>3, AppendProperties
  <2> QED
    BY <2>4 DEF S
<1>2. <<{s}>> \in X /\ Len(<<{s}>>) = 1 /\ <<{s}>>[1] = {s}
  OBVIOUS
<1>3. H \in [1..n -> [X -> X]]
  BY <1>1
<1>4. \A i \in 1..n : \A met \in X : H[i][met] = Onward(met)
  OBVIOUS
<1> DEFINE E(f) == [i \in 0..n |-> IF i = 0 THEN <<{s}>> ELSE Onward(f[i - 1])]
           EH(f) == [i \in 0..n |-> IF i = 0 THEN <<{s}>> ELSE H[i][f[i - 1]]]
<1> HIDE DEF H, X, Onward
<1>5. PICK f \in [0..n -> X] : f = EH(f)
  <2>1. \E f \in [0..n -> X] : Iterated(f, H, <<{s}>>, n)
    BY <1>2, <1>3, Iterates
  <2> QED
    BY <2>1 DEF Iterated
<1>7. EH(f) = E(f)
  <2>1. ASSUME NEW i \in 0..n, i # 0
        PROVE  H[i][f[i - 1]] = Onward(f[i - 1])
    <3>1. i \in 1..n /\ i - 1 \in 0..n
      BY <2>1
    <3> QED
      BY <1>4, <1>5, <3>1
  <2> QED
    BY <2>1
<1>8. f = E(f)
  BY <1>5, <1>7
<1>9. level = E(level)
  BY <1>8 DEF level
<1> HIDE DEF level
<1>10. level[0] = <<{s}>> /\ \A i \in 1..n : level[i] = Onward(level[i - 1])
  <2>1. \A i \in 0..n : level[i] = IF i = 0 THEN <<{s}>> ELSE Onward(level[i - 1])
    BY <1>9
  <2> QED
    BY <2>1
<1> DEFINE Q == {i \in 0..n : IsMet(level[i], g, s, i)}
<1>11. 0 \in Q
  <2>1. <<{s}>> \in Seq(SUBSET DOMAIN g)
    BY <1>2 DEF X
  <2>2. IsMet(<<{s}>>, g, s, 0)
    BY <1>2, <2>1 DEF IsMet
  <2>3. IsMet(level[0], g, s, 0)
    BY <1>10, <2>2
  <2> QED
    BY <2>3
<1>12. ASSUME NEW i \in 1..n, i - 1 \in Q  PROVE i \in Q
  <2> DEFINE met == level[i - 1]
  <2>1. IsMet(met, g, s, i - 1) /\ i - 1 \in Nat
    BY <1>12
  <2>2. level[i] = Onward(met)
    BY <1>10
  <2> HIDE DEF met
  <2>3. met \in Seq(SUBSET DOMAIN g) /\ Len(met) = i /\ DOMAIN met = 1..i
    BY <2>1 DEF IsMet
  <2>4. Onward(met) = Append(met, Fresh(g, met, i))
    BY <2>3 DEF Onward, Fresh, Last, ToSet
  <2>5. IsMet(Append(met, Fresh(g, met, (i - 1) + 1)), g, s, (i - 1) + 1)
    BY <2>1, OneLevelMore
  <2>6. (i - 1) + 1 = i
    OBVIOUS
  <2>7. IsMet(level[i], g, s, i)
    BY <2>2, <2>4, <2>5, <2>6
  <2> QED
    BY <2>7
<1> HIDE DEF Q
<1>13. n \in Q
  <2>1. \A i \in 0..n : i \in Q
    BY <1>11, <1>12, StepByStep
  <2> QED
    BY <2>1
<1>14. levels(g, s, n) = level[n]
  BY DEF levels, level, Onward
<1> QED
  BY <1>13, <1>14 DEF Q

LEMMA LevelsApart ==
    ASSUME NEW g, NEW s, NEW n \in Nat, NEW met, IsMet(met, g, s, n),
           NEW i \in 1..(n + 1), NEW j \in 1..(n + 1), NEW x, x \in met[i], x \in met[j]
    PROVE  i = j
<1>1. ASSUME NEW k \in 1..(n + 1), NEW l \in 1..(n + 1), k < l, x \in met[k], x \in met[l]
      PROVE  FALSE
  <2>1. l - 1 \in 1..n /\ (l - 1) + 1 = l /\ k \in 1..(l - 1)
    BY <1>1
  <2>2. met[l] = Fresh(g, met, l - 1)
    BY <2>1 DEF IsMet
  <2> QED
    BY <1>1, <2>1, <2>2 DEF Fresh
<1>2. ~(i < j) /\ ~(j < i)
  BY <1>1
<1> QED
  BY <1>2

Apart(met, n) == \A i, j \in 1..(n + 1) : \A x : x \in met[i] /\ x \in met[j] => i = j

LEMMA AllApart ==
    ASSUME NEW g, NEW s, NEW n \in Nat, NEW met, IsMet(met, g, s, n)
    PROVE  Apart(met, n)
BY LevelsApart DEF Apart

LEMMA Positions ==
    \A n \in Nat : /\ \A k \in 1..(n + 1) : k # 1 => k > 1 /\ k - 1 \in 1..n
                   /\ \A k \in 1..n : k \in 1..(n + 1) /\ k + 1 \in 1..(n + 1)
                   /\ \A k, l \in 1..n : k + 1 = l + 1 => k = l
OBVIOUS

-----------------------------------------------------------------------------
(* Shortest paths: one step for each level.                                *)

Geodesic(g, met, p) ==
    /\ p \in Seq(DOMAIN g) /\ Len(p) \in 1..Len(met)
    /\ \A i \in 1..Len(p) : p[i] \in met[i]
    /\ \A i \in 1..(Len(p) - 1) : p[i + 1] \in g[p[i]]

GeodesicsTo(g, met, x) == {p \in Seq(DOMAIN g) : Geodesic(g, met, p) /\ Last(p) = x}

LEMMA GeodesicEnds ==
    ASSUME NEW g, NEW met, NEW p, Geodesic(g, met, p)
    PROVE  Len(p) \in Nat \ {0} /\ Last(p) \in DOMAIN g /\ Last(p) \in met[Len(p)]
<1>1. p \in Seq(DOMAIN g) /\ Len(p) \in Nat
  BY LenProperties DEF Geodesic
<1>2. Len(p) \in 1..Len(p)
  BY <1>1 DEF Geodesic
<1> QED
  BY <1>1, <1>2, ElementOfSeq DEF Geodesic, Last

LEMMA GeodesicMore ==
    ASSUME NEW g, NEW met, Len(met) \in Nat, NEW p, Geodesic(g, met, p), Len(p) < Len(met),
           NEW x \in DOMAIN g, x \in met[Len(p) + 1], x \in g[Last(p)]
    PROVE  Geodesic(g, met, Append(p, x)) /\ Last(Append(p, x)) = x
<1> DEFINE q == Append(p, x)
<1>1. p \in Seq(DOMAIN g) /\ Len(p) \in Nat \ {0}
  BY GeodesicEnds DEF Geodesic
<1>2. /\ q \in Seq(DOMAIN g) /\ Len(q) = Len(p) + 1
      /\ \A i \in 1..Len(p) : q[i] = p[i]
      /\ q[Len(p) + 1] = x
  BY <1>1, AppendProperties
<1> HIDE DEF q
<1>3. \A i \in 1..Len(q) : q[i] \in met[i]
  <2> SUFFICES ASSUME NEW i \in 1..Len(q) PROVE q[i] \in met[i]
    OBVIOUS
  <2>1. i \in 1..Len(p) \/ i = Len(p) + 1
    BY <1>1, <1>2
  <2> QED
    BY <1>2, <2>1 DEF Geodesic
<1>4. \A i \in 1..(Len(q) - 1) : q[i + 1] \in g[q[i]]
  <2> SUFFICES ASSUME NEW i \in 1..(Len(q) - 1) PROVE q[i + 1] \in g[q[i]]
    OBVIOUS
  <2>1. i \in 1..Len(p) /\ (i = Len(p) \/ (i \in 1..(Len(p) - 1) /\ i + 1 \in 1..Len(p)))
    BY <1>1, <1>2
  <2>2. CASE i = Len(p)
    BY <1>2, <2>1, <2>2 DEF Last
  <2>3. CASE i \in 1..(Len(p) - 1) /\ i + 1 \in 1..Len(p)
    BY <1>2, <2>1, <2>3 DEF Geodesic
  <2> QED
    BY <2>1, <2>2, <2>3
<1>5. Len(q) \in 1..Len(met)
  BY <1>1, <1>2
<1>6. Geodesic(g, met, q)
  BY <1>2, <1>3, <1>4, <1>5 DEF Geodesic
<1>7. Last(q) = x
  BY <1>2 DEF Last
<1> QED
  BY <1>6, <1>7 DEF q

LEMMA GeodesicLess ==
    ASSUME NEW g, NEW met, Len(met) \in Nat, NEW p, Geodesic(g, met, p), Len(p) > 1
    PROVE  \E q : /\ Geodesic(g, met, q) /\ Len(q) = Len(p) - 1
                  /\ p = Append(q, Last(p)) /\ Last(p) \in g[Last(q)]
<1>1. p \in Seq(DOMAIN g) /\ Len(p) \in Nat \ {0} /\ p # <<>>
  BY GeodesicEnds DEF Geodesic
<1>2. PICK q \in Seq(DOMAIN g), x \in DOMAIN g : p = Append(q, x)
  BY <1>1, SequenceEmptyOrAppend
<1>3. /\ Len(q) \in Nat /\ Len(p) = Len(q) + 1
      /\ \A i \in 1..Len(q) : p[i] = q[i]
      /\ p[Len(q) + 1] = x
  BY <1>2, AppendProperties, LenProperties
<1>4. Last(p) = x
  BY <1>3 DEF Last
<1>5. Len(q) \in 1..Len(met) /\ Len(q) \in 1..Len(q) /\ Len(q) \in 1..(Len(p) - 1)
  BY <1>3 DEF Geodesic
<1>6. x \in g[Last(q)]
  <2>1. p[Len(q) + 1] \in g[p[Len(q)]]
    BY <1>5 DEF Geodesic
  <2> QED
    BY <1>3, <1>5, <2>1 DEF Last
<1>7. \A i \in 1..Len(q) : q[i] \in met[i]
  <2>1. \A i \in 1..Len(q) : i \in 1..Len(p)
    BY <1>3
  <2> QED
    BY <1>3, <2>1 DEF Geodesic
<1>8. \A i \in 1..(Len(q) - 1) : q[i + 1] \in g[q[i]]
  <2>1. \A i \in 1..(Len(q) - 1) :
            i \in 1..(Len(p) - 1) /\ i \in 1..Len(q) /\ i + 1 \in 1..Len(q)
    BY <1>3
  <2> QED
    BY <1>3, <2>1 DEF Geodesic
<1>9. Geodesic(g, met, q)
  BY <1>5, <1>7, <1>8 DEF Geodesic
<1> QED
  BY <1>2, <1>3, <1>4, <1>6, <1>9

\* A path back from x: a neighbour of the level before, and a path to it.
PathsBack(g, met, s, f, x) ==
    IF x = s THEN {<<s>>}
    ELSE UNION {{Append(p, x) : p \in f[m]} : m \in Before(g, met, x)}

LEMMA OnePathBack ==
    ASSUME NEW g, NEW met, NEW s, NEW f, NEW x, x # s, NEW p
    PROVE  p \in PathsBack(g, met, s, f, x) <=>
              \E m \in Before(g, met, x) : \E q \in f[m] : p = Append(q, x)
BY DEF PathsBack

LEMMA BeforeIsOneLevel ==
    ASSUME NEW g, NEW s, NEW n \in Nat, NEW met, IsMet(met, g, s, n), NEW x, NEW m
    PROVE  m \in Before(g, met, x) <=>
              m \in g[x] /\ \E i \in 1..n : m \in met[i] /\ x \in met[i + 1]
<1>1. Len(met) - 1 = n
  BY DEF IsMet
<1> QED
  BY <1>1 DEF Before

LEMMA SourceGeodesics ==
    ASSUME NEW g, NEW s \in DOMAIN g, NEW n \in Nat, NEW met, IsMet(met, g, s, n)
    PROVE  GeodesicsTo(g, met, s) = {<<s>>}
<1>1. Len(met) = n + 1 /\ met[1] = {s}
  BY DEF IsMet
<1>2. Geodesic(g, met, <<s>>) /\ Last(<<s>>) = s /\ <<s>> \in Seq(DOMAIN g)
  BY <1>1 DEF Geodesic, Last
<1>3. ASSUME NEW p, Geodesic(g, met, p), Last(p) = s
      PROVE  p = <<s>>
  <2>1. Len(p) \in 1..(n + 1) /\ s \in met[Len(p)] /\ p \in Seq(DOMAIN g)
    BY <1>1, <1>3, GeodesicEnds DEF Geodesic
  <2>2. 1 \in 1..(n + 1) /\ s \in met[1]
    BY <1>1
  <2> DEFINE k == Len(p)
  <2>a. Apart(met, n) /\ k \in 1..(n + 1) /\ s \in met[k]
    BY <2>1, AllApart
  <2> HIDE DEF k
  <2>b. k = 1
    BY <2>2, <2>a DEF Apart
  <2>3. Len(p) = 1
    BY <2>b DEF k
  <2>4. p[1] = s /\ <<s>>[1] = s /\ Len(<<s>>) = 1
    BY <1>3, <2>3 DEF Last
  <2> QED
    BY <1>2, <2>1, <2>3, <2>4, SeqEqual
<1> QED
  BY <1>2, <1>3 DEF GeodesicsTo

LEMMA GeodesicsGoBack ==
    ASSUME NEW g, Undirected(g), NEW s \in DOMAIN g, NEW n \in Nat,
           NEW met, IsMet(met, g, s, n), NEW x \in DOMAIN g
    PROVE  GeodesicsTo(g, met, x) =
              PathsBack(g, met, s, [m \in DOMAIN g |-> GeodesicsTo(g, met, m)], x)
<1> DEFINE F == [m \in DOMAIN g |-> GeodesicsTo(g, met, m)]
<1>1. met \in Seq(SUBSET DOMAIN g) /\ Len(met) = n + 1 /\ Len(met) \in Nat
  BY DEF IsMet
<1>2. CASE x = s
  BY <1>2, SourceGeodesics DEF PathsBack
<1>3. CASE x # s
  <2>1. ASSUME NEW p \in GeodesicsTo(g, met, x)
        PROVE  \E m \in Before(g, met, x) : \E q \in F[m] : p = Append(q, x)
    <3>1. Geodesic(g, met, p) /\ Last(p) = x
      BY DEF GeodesicsTo
    <3>2. Len(p) \in 1..(n + 1) /\ x \in met[Len(p)]
      BY <1>1, <3>1, GeodesicEnds DEF Geodesic
    <3>3. Len(p) # 1
      BY <1>3, <3>2 DEF IsMet
    <3>4. Len(p) > 1
      BY <3>2, <3>3, Positions, Zenon
    <3>5. PICK q : /\ Geodesic(g, met, q) /\ Len(q) = Len(p) - 1
                   /\ p = Append(q, Last(p)) /\ Last(p) \in g[Last(q)]
      BY <1>1, <3>1, <3>4, GeodesicLess
    <3>6. /\ Last(q) \in DOMAIN g /\ Last(q) \in met[Len(q)]
          /\ Len(q) \in 1..n /\ Len(q) + 1 = Len(p)
      BY <3>2, <3>4, <3>5, GeodesicEnds
    <3>7. Last(q) \in g[x]
      BY <3>1, <3>5, <3>6 DEF Undirected
    <3>8. Last(q) \in Before(g, met, x)
      BY <3>2, <3>6, <3>7, BeforeIsOneLevel
    <3>9. q \in F[Last(q)]
      BY <3>5, <3>6 DEF GeodesicsTo, Geodesic
    <3> QED
      BY <3>1, <3>5, <3>8, <3>9
  <2>2. ASSUME NEW m \in Before(g, met, x), NEW q \in F[m]
        PROVE  Append(q, x) \in GeodesicsTo(g, met, x)
    <3>1. PICK i \in 1..n : m \in g[x] /\ m \in met[i] /\ x \in met[i + 1]
      BY BeforeIsOneLevel
    <3>2. m \in DOMAIN g /\ x \in g[m]
      BY <3>1 DEF Undirected
    <3>3. Geodesic(g, met, q) /\ Last(q) = m
      BY <3>2 DEF GeodesicsTo
    <3>4. Len(q) \in 1..(n + 1) /\ m \in met[Len(q)]
      BY <1>1, <3>3, GeodesicEnds DEF Geodesic
    <3>5. i \in 1..(n + 1)
      OBVIOUS
    <3> DEFINE k == Len(q)
    <3>a. Apart(met, n) /\ k \in 1..(n + 1) /\ m \in met[k]
      BY <3>4, AllApart
    <3> HIDE DEF k
    <3>b. k = i
      BY <3>1, <3>5, <3>a DEF Apart
    <3>6. Len(q) = i
      BY <3>b DEF k
    <3>7. Geodesic(g, met, Append(q, x)) /\ Last(Append(q, x)) = x
      BY <1>1, <3>1, <3>2, <3>3, <3>6, GeodesicMore
    <3> QED
      BY <3>7 DEF GeodesicsTo, Geodesic
  <2> HIDE DEF F
  <2>3. \A p : p \in PathsBack(g, met, s, F, x) <=>
                  \E m \in Before(g, met, x) : \E q \in F[m] : p = Append(q, x)
    BY <1>3, OnePathBack
  <2>4. PathsBack(g, met, s, F, x) \subseteq GeodesicsTo(g, met, x)
    BY <2>2, <2>3
  <2>5. GeodesicsTo(g, met, x) \subseteq PathsBack(g, met, s, F, x)
    BY <2>1, <2>3
  <2>6. PathsBack(g, met, s, F, x) = GeodesicsTo(g, met, x)
    BY <2>4, <2>5
  <2> QED
    BY <2>6 DEF F
<1> QED
  BY <1>2, <1>3

LEMMA OnlyGeodesicsGoBack ==
    ASSUME NEW g, Undirected(g), NEW s \in DOMAIN g, NEW n \in Nat,
           NEW met, IsMet(met, g, s, n),
           NEW f, f = [x \in DOMAIN g |-> PathsBack(g, met, s, f, x)]
    PROVE  \A x \in DOMAIN g : f[x] = GeodesicsTo(g, met, x)
<1> DEFINE F == [m \in DOMAIN g |-> GeodesicsTo(g, met, m)]
           P == {i \in 0..n : \A x \in DOMAIN g : x \in met[i + 1] => f[x] = F[x]}
<1>1. \A x \in DOMAIN g : f[x] = PathsBack(g, met, s, f, x) /\ F[x] = PathsBack(g, met, s, F, x)
  BY GeodesicsGoBack
<1>2. ASSUME NEW x \in DOMAIN g, \A m \in Before(g, met, x) : f[m] = F[m]
      PROVE  f[x] = F[x]
  <2> HIDE DEF F
  <2>1. PathsBack(g, met, s, f, x) = PathsBack(g, met, s, F, x)
    BY <1>2 DEF PathsBack
  <2> QED
    BY <1>1, <2>1
<1> HIDE DEF F
<1>3. 0 \in P
  <2>1. \A x \in DOMAIN g : x \in met[1] => x = s
    BY DEF IsMet
  <2>2. f[s] = F[s]
    BY <1>1 DEF PathsBack
  <2> QED
    BY <2>1, <2>2
<1>4. ASSUME NEW i \in 1..n, i - 1 \in P
      PROVE  i \in P
  <2>1. \A m \in DOMAIN g : m \in met[i] => f[m] = F[m]
    BY <1>4
  <2>2. ASSUME NEW x \in DOMAIN g, x \in met[i + 1]
        PROVE  f[x] = F[x]
    <3>1. ASSUME NEW m \in Before(g, met, x)  PROVE f[m] = F[m]
      <4>1. PICK j \in 1..n : m \in g[x] /\ m \in met[j] /\ x \in met[j + 1]
        BY BeforeIsOneLevel
      <4>2. i + 1 \in 1..(n + 1) /\ j + 1 \in 1..(n + 1)
        OBVIOUS
      <4>3. j + 1 = i + 1
        <5>1. Apart(met, n)
          BY AllApart
        <5> QED
          BY <2>2, <4>1, <4>2, <5>1 DEF Apart
      <4>4. j = i
        BY <4>3
      <4>5. m \in DOMAIN g
        BY <4>1 DEF Undirected
      <4> QED
        BY <2>1, <4>1, <4>4, <4>5
    <3> QED
      BY <1>2, <3>1
  <2> QED
    BY <2>2
<1> HIDE DEF P
<1>5. \A i \in 0..n : i \in P
  BY <1>3, <1>4, StepByStep
<1>6. ASSUME NEW x \in DOMAIN g
      PROVE  f[x] = F[x]
  <2> SUFFICES ASSUME NEW m \in Before(g, met, x) PROVE f[m] = F[m]
    BY <1>2
  <2>1. PICK j \in 1..n : m \in g[x] /\ m \in met[j] /\ x \in met[j + 1]
    BY BeforeIsOneLevel
  <2>2. j - 1 \in 0..n /\ (j - 1) + 1 = j
    OBVIOUS
  <2>3. m \in DOMAIN g
    BY <2>1 DEF Undirected
  <2> QED
    BY <1>5, <2>1, <2>2, <2>3 DEF P
<1> QED
  BY <1>6 DEF F

\* all_shortest_paths are the paths with a step for each level.
LEMMA ShortestAreGeodesics ==
    ASSUME NEW g, Undirected(g), NEW s \in DOMAIN g, NEW t \in DOMAIN g, NEW n \in Nat
    PROVE  all_shortest_paths(g, s, t, n) = GeodesicsTo(g, levels(g, s, n), t)
<1> DEFINE met == levels(g, s, n)
           E(f) == [x \in DOMAIN g |-> PathsBack(g, met, s, f, x)]
           F == [m \in DOMAIN g |-> GeodesicsTo(g, met, m)]
           paths == CHOOSE f : f = E(f)
<1>1. IsMet(met, g, s, n)
  BY LevelsAreMet DEF Undirected
<1>2. all_shortest_paths(g, s, t, n) = paths[t]
  BY DEF all_shortest_paths, PathsBack
<1> HIDE DEF met
<1>3. F = E(F)
  BY <1>1, GeodesicsGoBack
<1> HIDE DEF F
<1>4. paths = E(paths)
  BY <1>3
<1> HIDE DEF paths
<1>5. paths[t] = GeodesicsTo(g, met, t)
  BY <1>1, <1>4, OnlyGeodesicsGoBack
<1> QED
  BY <1>2, <1>5 DEF met

-----------------------------------------------------------------------------
(* The ranking: whatever the centrality, nobody is left out or listed      *)
(* twice, although a position is only a count of who comes before.         *)

Precedes(value, q, p) == value[q] > value[p] \/ (value[q] = value[p] /\ q < p)

Ahead(keys, value, p) == {q \in keys : Precedes(value, q, p)}

LEMMA StrictlyAhead ==
    ASSUME NEW keys \in SUBSET Int, NEW value \in [keys -> Int],
           NEW p \in keys, NEW q \in keys, Precedes(value, q, p)
    PROVE  /\ Ahead(keys, value, q) \subseteq Ahead(keys, value, p)
           /\ q \in Ahead(keys, value, p) /\ q \notin Ahead(keys, value, q)
<1>1. \A x \in keys : x \in Int /\ value[x] \in Int
  OBVIOUS
<1>2. ~Precedes(value, q, q)
  BY <1>1 DEF Precedes
<1>3. ASSUME NEW x \in keys, Precedes(value, x, q)
      PROVE  Precedes(value, x, p)
  BY <1>1, <1>3 DEF Precedes
<1> QED
  BY <1>2, <1>3 DEF Ahead

LEMMA FewerAhead ==
    ASSUME NEW S, IsFiniteSet(S), NEW T \in SUBSET S, NEW x \in S \ T
    PROVE  Cardinality(T) < Cardinality(S)
<1>1. IsFiniteSet(T) /\ Cardinality(T) <= Cardinality(S) /\ Cardinality(S) # Cardinality(T)
  BY FS_Subset
<1>2. Cardinality(S) \in Nat /\ Cardinality(T) \in Nat
  BY <1>1, FS_CardinalityType
<1> QED
  BY <1>1, <1>2

\* Who comes before has the smaller rank, and no rank exceeds the number of keys.
LEMMA RanksInOrder ==
    ASSUME NEW keys \in SUBSET Int, IsFiniteSet(keys), NEW value \in [keys -> Int]
    PROVE  /\ Ranks(keys, value) \in [keys -> 1..Cardinality(keys)]
           /\ \A p, q \in keys : Precedes(value, q, p) =>
                 Ranks(keys, value)[q] < Ranks(keys, value)[p]
<1> DEFINE C(p) == Cardinality(Ahead(keys, value, p))
<1>1. Ranks(keys, value) = [p \in keys |-> 1 + C(p)]
  BY DEF Ranks, Ahead, Precedes
<1>2. ASSUME NEW p \in keys
      PROVE  IsFiniteSet(Ahead(keys, value, p)) /\ C(p) \in Nat /\ C(p) < Cardinality(keys)
  <2>1. Ahead(keys, value, p) \in SUBSET keys /\ p \notin Ahead(keys, value, p)
    BY DEF Ahead, Precedes
  <2>2. IsFiniteSet(Ahead(keys, value, p))
    BY <2>1, FS_Subset
  <2> QED
    BY <2>1, <2>2, FewerAhead, FS_CardinalityType
<1>3. ASSUME NEW p \in keys, NEW q \in keys, Precedes(value, q, p)
      PROVE  C(q) < C(p)
  <2>1. Ahead(keys, value, q) \in SUBSET Ahead(keys, value, p)
        /\ q \in Ahead(keys, value, p) \ Ahead(keys, value, q)
    BY <1>3, StrictlyAhead
  <2> QED
    BY <2>1, <1>2, FewerAhead
<1>4. Cardinality(keys) \in Nat
  BY FS_CardinalityType
<1> HIDE DEF C
<1>5. \A p \in keys : 1 + C(p) \in 1..Cardinality(keys)
  BY <1>2, <1>4
<1>6. \A p, q \in keys : Precedes(value, q, p) => 1 + C(q) < 1 + C(p)
  BY <1>2, <1>3
<1> QED
  BY <1>1, <1>5, <1>6

\* Different keys have different ranks, so every rank is somebody's.
LEMMA RanksAreAll ==
    ASSUME NEW keys \in SUBSET Int, IsFiniteSet(keys), NEW value \in [keys -> Int]
    PROVE  Ranks(keys, value) \in Bijection(keys, 1..Cardinality(keys))
<1> DEFINE r == Ranks(keys, value)
           n == Cardinality(keys)
<1>1. r \in [keys -> 1..n] /\ \A p, q \in keys : Precedes(value, q, p) => r[q] < r[p]
  BY RanksInOrder
<1>2. \A p, q \in keys : p # q => Precedes(value, p, q) \/ Precedes(value, q, p)
  BY DEF Precedes
<1>3. n \in Nat
  BY FS_CardinalityType
<1> HIDE DEF r, n
<1>4. ASSUME NEW p \in keys, NEW q \in keys, r[p] = r[q]
      PROVE  p = q
  <2>1. r[p] \in Int /\ r[q] \in Int
    BY <1>1
  <2> QED
    BY <1>1, <1>2, <1>4, <2>1
<1>5. r \in Injection(keys, 1..n)
  BY <1>1, <1>4 DEF Injection, IsInjective
<1>6. IsFiniteSet(1..n) /\ Cardinality(1..n) = n
  BY <1>3, FS_Interval
<1>7. r \in Surjection(keys, 1..n)
  BY <1>5, <1>6, FS_Injection DEF n
<1> QED
  BY <1>5, <1>7 DEF Bijection, r, n

\* sorted: every key once, in order.
LEMMA KeysInOrder ==
    ASSUME NEW keys \in SUBSET Int, IsFiniteSet(keys)
    PROVE  /\ InOrder(keys) \in Seq(keys)
           /\ \A k \in keys : \E i \in 1..Len(InOrder(keys)) : InOrder(keys)[i] = k
           /\ \A i, j \in 1..Len(InOrder(keys)) : i < j => InOrder(keys)[i] < InOrder(keys)[j]
<1> DEFINE value == [k \in keys |-> 0]
           position == Ranks(keys, value)
           n == Cardinality(keys)
           order == InOrder(keys)
<1>1. value \in [keys -> Int]
  OBVIOUS
<1>2. position \in Bijection(keys, 1..n)
  BY <1>1, RanksAreAll
<1>3. \A p, q \in keys : q < p => position[q] < position[p]
  <2>1. \A p, q \in keys : Precedes(value, q, p) => position[q] < position[p]
    BY <1>1, RanksInOrder
  <2>2. \A p, q \in keys : q < p => Precedes(value, q, p)
    BY DEF Precedes
  <2> QED
    BY <2>1, <2>2
<1>4. n \in Nat
  BY FS_CardinalityType
<1>5. order = [i \in 1..n |-> CHOOSE k \in keys : position[k] = i]
  BY DEF InOrder
<1> HIDE DEF position, n, order, value
<1>6. \A i \in 1..n : order[i] \in keys /\ position[order[i]] = i
  <2>1. \A i \in 1..n : \E k \in keys : position[k] = i
    BY <1>2 DEF Bijection, Surjection
  <2> QED
    BY <1>5, <2>1
<1>7. order \in [1..n -> keys]
  BY <1>5, <1>6
<1>8. order \in Seq(keys) /\ Len(order) = n
  BY <1>4, <1>7
<1>9. ASSUME NEW k \in keys
      PROVE  position[k] \in 1..n /\ order[position[k]] = k
  <2>1. position[k] \in 1..n
    BY <1>2 DEF Bijection, Injection
  <2>2. order[position[k]] \in keys /\ position[order[position[k]]] = position[k]
    BY <1>6, <2>1
  <2> QED
    BY <1>2, <2>1, <2>2 DEF Bijection, Injection, IsInjective
<1>10. ASSUME NEW i \in 1..n, NEW j \in 1..n, i < j
       PROVE  order[i] < order[j]
  <2>1. order[i] \in Int /\ order[j] \in Int
    BY <1>6
  <2>2. ~(order[j] < order[i])
    <3>1. ~(position[order[j]] < position[order[i]])
      BY <1>6, <1>10
    <3> QED
      BY <1>3, <1>6, <3>1
  <2>3. order[i] # order[j]
    BY <1>6, <1>10
  <2> QED
    BY <2>1, <2>2, <2>3
<1>11. \A k \in keys : \E i \in 1..n : order[i] = k
  BY <1>9
<1> QED
  BY <1>8, <1>10, <1>11 DEF order

-----------------------------------------------------------------------------
(* Paths in the order of their keys.                                       *)

Sooner(x, y) == \E i \in DOMAIN x : x[i] < y[i] /\ \A j \in 1..(i - 1) : x[j] = y[j]

LEMMA LeastNumber ==
    ASSUME NEW T, T \subseteq Nat, T # {}
    PROVE  \E i \in T : \A j \in T : i <= j
<1>1. PICK i \in T : \A j \in T : <<j, i>> \notin OpToRel(<, Nat)
  BY NatLessThanWellFounded, WFMin
<1>2. ASSUME NEW j \in T  PROVE ~(j < i)
  <2>1. j \in Nat /\ i \in Nat
    OBVIOUS
  <2>2. j < i => <<j, i>> \in OpToRel(<, Nat)
    BY <2>1 DEF OpToRel
  <2> QED
    BY <1>1, <2>2
<1>3. \A j \in T : i <= j
  BY <1>2
<1> QED
  BY <1>3

LEMMA SoonerTransitive ==
    ASSUME NEW x \in Seq(Int), NEW y \in Seq(Int), NEW z \in Seq(Int),
           Len(x) = Len(y), Len(y) = Len(z), Sooner(x, y), Sooner(y, z)
    PROVE  Sooner(x, z)
<1> DEFINE n == Len(x)
<1>1. n \in Nat /\ x \in [1..n -> Int] /\ y \in [1..n -> Int] /\ z \in [1..n -> Int]
  BY LenProperties
<1> HIDE DEF n
<1>2. PICK i \in 1..n : x[i] < y[i] /\ \A l \in 1..(i - 1) : x[l] = y[l]
  BY <1>1 DEF Sooner
<1>3. PICK j \in 1..n : y[j] < z[j] /\ \A l \in 1..(j - 1) : y[l] = z[l]
  BY <1>1 DEF Sooner
<1> DEFINE k == IF i < j THEN i ELSE j
<1>4. k \in 1..n /\ k <= i /\ k <= j
  OBVIOUS
<1>5. \A l \in 1..(k - 1) : l \in 1..(i - 1) /\ l \in 1..(j - 1)
  BY <1>4
<1>6. \A l \in 1..(k - 1) : x[l] = z[l]
  BY <1>2, <1>3, <1>5
<1>7. x[i] \in Int /\ y[i] \in Int /\ z[i] \in Int /\ x[j] \in Int /\ y[j] \in Int /\ z[j] \in Int
  BY <1>1
<1>8. x[k] < z[k]
  <2>1. CASE i < j
    <3>1. i \in 1..(j - 1)
      BY <2>1
    <3>2. y[i] = z[i]
      BY <1>3, <3>1
    <3> QED
      BY <1>2, <2>1, <3>2
  <2>2. CASE i = j
    BY <1>2, <1>3, <1>7, <2>2
  <2>3. CASE j < i
    <3>1. j \in 1..(i - 1)
      BY <2>3
    <3>2. x[j] = y[j]
      BY <1>2, <3>1
    <3> QED
      BY <1>3, <2>3, <3>2
  <2> QED
    BY <2>1, <2>2, <2>3
<1> HIDE DEF k
<1> QED
  BY <1>1, <1>4, <1>6, <1>8 DEF Sooner

LEMMA SoonerOneMore ==
    ASSUME NEW x \in Seq(Int), NEW y \in Seq(Int), Len(x) = Len(y), NEW a \in Int, NEW b \in Int
    PROVE  /\ Sooner(x, y) => Sooner(Append(x, a), Append(y, b))
           /\ x = y /\ a < b => Sooner(Append(x, a), Append(y, b))
           /\ Sooner(Append(x, a), Append(y, b)) => Sooner(x, y) \/ (x = y /\ a < b)
<1> DEFINE u == Append(x, a)
           v == Append(y, b)
           n == Len(x)
<1>1. n \in Nat /\ x \in [1..n -> Int] /\ y \in [1..n -> Int]
  BY LenProperties
<1>2. /\ u \in Seq(Int) /\ Len(u) = n + 1 /\ (\A i \in 1..n : u[i] = x[i]) /\ u[n + 1] = a
      /\ v \in Seq(Int) /\ Len(v) = n + 1 /\ (\A i \in 1..n : v[i] = y[i]) /\ v[n + 1] = b
  BY AppendProperties
<1>3. DOMAIN u = 1..(n + 1)
  BY <1>2, LenProperties
<1> HIDE DEF u, v, n
<1>4. ASSUME Sooner(x, y)  PROVE Sooner(u, v)
  <2>1. PICK i \in 1..n : x[i] < y[i] /\ \A j \in 1..(i - 1) : x[j] = y[j]
    BY <1>1, <1>4 DEF Sooner
  <2>2. i \in 1..(n + 1) /\ \A j \in 1..(i - 1) : j \in 1..n
    BY <1>1
  <2>3. u[i] < v[i] /\ \A j \in 1..(i - 1) : u[j] = v[j]
    BY <1>2, <2>1, <2>2
  <2> QED
    BY <1>3, <2>2, <2>3 DEF Sooner
<1>5. ASSUME x = y, a < b  PROVE Sooner(u, v)
  <2>1. n + 1 \in 1..(n + 1) /\ \A j \in 1..((n + 1) - 1) : j \in 1..n
    BY <1>1
  <2>2. u[n + 1] < v[n + 1] /\ \A j \in 1..((n + 1) - 1) : u[j] = v[j]
    BY <1>2, <1>5, <2>1
  <2> QED
    BY <1>3, <2>1, <2>2 DEF Sooner
<1>6. ASSUME Sooner(u, v)  PROVE Sooner(x, y) \/ (x = y /\ a < b)
  <2>1. PICK i \in 1..(n + 1) : u[i] < v[i] /\ \A j \in 1..(i - 1) : u[j] = v[j]
    BY <1>3, <1>6 DEF Sooner
  <2>2. CASE i = n + 1
    <3>1. \A j \in 1..n : j \in 1..(i - 1)
      BY <1>1, <2>2
    <3>2. \A j \in 1..n : x[j] = y[j]
      BY <1>2, <2>1, <3>1
    <3>3. x = y
      BY <1>1, <3>2
    <3> QED
      BY <1>2, <2>1, <2>2, <3>3
  <2>3. CASE i # n + 1
    <3>1. i \in 1..n /\ \A j \in 1..(i - 1) : j \in 1..n
      BY <1>1, <2>3
    <3>2. x[i] < y[i] /\ \A j \in 1..(i - 1) : x[j] = y[j]
      BY <1>2, <2>1, <3>1
    <3> QED
      BY <1>1, <3>1, <3>2 DEF Sooner
  <2> QED
    BY <2>2, <2>3
<1> QED
  BY <1>4, <1>5, <1>6 DEF u, v

-----------------------------------------------------------------------------
(* One level of the breadth-first search: the queue is visited in order.   *)

Paths(g) == Seq(DOMAIN g) \ {<<>>}

Searches(g) == [found : SUBSET Paths(g), queue : Seq(Paths(g))]

InQueueOrder(queue) == \A i, j \in 1..Len(queue) : i < j => Sooner(queue[i], queue[j])

SameLength(queue, l) == \A i \in 1..Len(queue) : Len(queue[i]) = l

\* The first of the queue that has x as a neighbour.
FirstTo(g, queue, i, x) ==
    x \in g[Last(queue[i])] /\ \A j \in 1..(i - 1) : x \notin g[Last(queue[j])]

\* The paths that visiting the first k of the queue adds.
Added(g, old, queue, k) ==
    {p \in Paths(g) : \E i \in 1..k : \E x \in DOMAIN g \ old :
        FirstTo(g, queue, i, x) /\ p = Append(queue[i], x)}

LEMMA PathEnd ==
    ASSUME NEW g, NEW p \in Paths(g)
    PROVE  p \in Seq(DOMAIN g) /\ Len(p) \in Nat \ {0} /\ Last(p) \in DOMAIN g
<1>1. p \in Seq(DOMAIN g) /\ p # <<>>
  BY DEF Paths
<1>2. Len(p) \in Nat \ {0}
  BY <1>1, EmptySeq
<1>3. Len(p) \in 1..Len(p)
  BY <1>2
<1> QED
  BY <1>1, <1>2, <1>3, ElementOfSeq DEF Last

LEMMA PathMore ==
    ASSUME NEW g, NEW p \in Paths(g), NEW x \in DOMAIN g
    PROVE  /\ Append(p, x) \in Paths(g) /\ Last(Append(p, x)) = x
           /\ Len(Append(p, x)) = Len(p) + 1
<1>1. p \in Seq(DOMAIN g)
  BY PathEnd
<1> QED
  BY <1>1, AppendProperties DEF Paths, Last

\* What entered the queue by a visit.
Entered(g, search, path) ==
    LET new == InOrder(g[Last(path)] \ Known(search))
    IN  [i \in DOMAIN new |-> Append(path, new[i])]

LEMMA WhoEnters ==
    ASSUME NEW g, Undirected(g), NEW search, NEW path \in Paths(g)
    PROVE  /\ Visit(g, search, path) =
                  [found |-> search.found \union ToSet(Entered(g, search, path)),
                   queue |-> search.queue \o Entered(g, search, path)]
           /\ Entered(g, search, path) \in Seq(Paths(g))
           /\ \A i \in 1..Len(Entered(g, search, path)) :
                 \E x \in g[Last(path)] \ Known(search) :
                    Entered(g, search, path)[i] = Append(path, x)
           /\ \A x \in g[Last(path)] \ Known(search) :
                 \E i \in 1..Len(Entered(g, search, path)) :
                    Entered(g, search, path)[i] = Append(path, x)
           /\ InQueueOrder(Entered(g, search, path))
<1> DEFINE keys == g[Last(path)] \ Known(search)
           new == InOrder(keys)
           via == [i \in DOMAIN new |-> Append(path, new[i])]
<1>0. Entered(g, search, path) = via
  BY DEF Entered
<1>1. Visit(g, search, path) =
          [found |-> search.found \union ToSet(via), queue |-> search.queue \o via]
  BY DEF Visit
<1>2. keys \in SUBSET DOMAIN g
  BY PathEnd DEF Undirected
<1>3. keys \in SUBSET Int /\ IsFiniteSet(keys)
  BY <1>2, FS_Subset DEF Undirected
<1>4. new = InOrder(keys)
  OBVIOUS
<1> HIDE DEF keys, new
<1>5. /\ new \in Seq(keys)
      /\ \A k \in keys : \E i \in 1..Len(new) : new[i] = k
      /\ \A i, j \in 1..Len(new) : i < j => new[i] < new[j]
  BY <1>3, <1>4, KeysInOrder
<1> DEFINE n == Len(new)
<1>6. n \in Nat /\ DOMAIN new = 1..n /\ \A i \in 1..n : new[i] \in keys
  BY <1>5, LenProperties, ElementOfSeq
<1> HIDE DEF n
<1>7. \A i \in 1..n : Append(path, new[i]) \in Paths(g)
  BY <1>2, <1>6, PathMore
<1>8. via \in [1..n -> Paths(g)] /\ \A i \in 1..n : via[i] = Append(path, new[i])
  BY <1>6, <1>7
<1> HIDE DEF via
<1>9. via \in Seq(Paths(g)) /\ Len(via) = n
  BY <1>6, <1>8
<1>10. ASSUME NEW i \in 1..n, NEW j \in 1..n, i < j
       PROVE  Sooner(via[i], via[j])
  <2>1. path \in Seq(Int) /\ new[i] \in Int /\ new[j] \in Int
    <3>1. path \in Seq(DOMAIN g) /\ DOMAIN g \subseteq Int
      BY PathEnd DEF Undirected
    <3> QED
      BY <1>3, <1>6, <3>1, SeqMonotonic
  <2>2. new[i] < new[j]
    BY <1>5, <1>10 DEF n
  <2>3. Sooner(Append(path, new[i]), Append(path, new[j]))
    BY <2>1, <2>2, SoonerOneMore
  <2>4. via[i] = Append(path, new[i]) /\ via[j] = Append(path, new[j])
    BY <1>8
  <2> QED
    BY <2>3, <2>4
<1>11. InQueueOrder(via)
  BY <1>9, <1>10 DEF InQueueOrder
<1>12. \A i \in 1..Len(via) : \E x \in keys : via[i] = Append(path, x)
  BY <1>6, <1>8, <1>9
<1>13. \A x \in keys : \E i \in 1..Len(via) : via[i] = Append(path, x)
  BY <1>5, <1>8, <1>9 DEF n
<1> QED
  BY <1>0, <1>1, <1>9, <1>11, <1>12, <1>13 DEF keys

LEMMA VisitKeepsShape ==
    ASSUME NEW g, Undirected(g), NEW search \in Searches(g), NEW path \in Paths(g)
    PROVE  Visit(g, search, path) \in Searches(g)
<1> DEFINE via == Entered(g, search, path)
<1>1. /\ Visit(g, search, path) =
            [found |-> search.found \union ToSet(via), queue |-> search.queue \o via]
      /\ via \in Seq(Paths(g))
  BY WhoEnters
<1> HIDE DEF via
<1>2. ToSet(via) \subseteq Paths(g)
  BY <1>1, LenProperties, ElementOfSeq DEF ToSet
<1>3. search.found \subseteq Paths(g) /\ search.queue \in Seq(Paths(g))
  BY DEF Searches
<1>4. search.queue \o via \in Seq(Paths(g))
  BY <1>1, <1>3, ConcatProperties
<1> QED
  BY <1>1, <1>2, <1>3, <1>4 DEF Searches

LEMMA VisitsExist ==
    ASSUME NEW g, Undirected(g), NEW search \in Searches(g)
    PROVE  \E visited \in [0..Len(search.queue) -> Searches(g)] :
              /\ visited[0] = [found |-> search.found, queue |-> <<>>]
              /\ \A i \in 1..Len(search.queue) :
                    visited[i] = Visit(g, visited[i - 1], search.queue[i])
              /\ VisitAll(g, search) = visited[Len(search.queue)]
<1> DEFINE q == search.queue
           n == Len(q)
           X == Searches(g)
           start == [found |-> search.found, queue |-> <<>>]
           H == [i \in 1..n |-> [s \in X |-> Visit(g, s, q[i])]]
           E(f) == [i \in 0..n |-> IF i = 0 THEN start ELSE Visit(g, f[i - 1], q[i])]
           visited == CHOOSE f : f = E(f)
<1>1. q \in Seq(Paths(g)) /\ search.found \in SUBSET Paths(g)
  BY DEF Searches
<1>2. n \in Nat /\ \A i \in 1..n : q[i] \in Paths(g)
  BY <1>1, LenProperties, ElementOfSeq
<1>3. start \in X
  BY <1>1 DEF Searches
<1>4. VisitAll(g, search) = visited[n]
  BY DEF VisitAll
<1> HIDE DEF q, n, start
<1>5. H \in [1..n -> [X -> X]]
  BY <1>2, VisitKeepsShape
<1>6. \A i \in 1..n : \A s \in X : H[i][s] = Visit(g, s, q[i])
  OBVIOUS
<1> HIDE DEF H, X
<1>7. PICK f \in [0..n -> X] : f = [i \in 0..n |-> IF i = 0 THEN start ELSE H[i][f[i - 1]]]
  <2>1. \E f \in [0..n -> X] : Iterated(f, H, start, n)
    BY <1>2, <1>3, <1>5, Iterates
  <2> QED
    BY <2>1 DEF Iterated
<1>8. f = E(f)
  <2>1. ASSUME NEW i \in 0..n, i # 0
        PROVE  H[i][f[i - 1]] = Visit(g, f[i - 1], q[i])
    <3>1. i \in 1..n /\ i - 1 \in 0..n
      BY <1>2, <2>1
    <3> QED
      BY <1>6, <1>7, <3>1
  <2>2. ASSUME NEW i \in 0..n
        PROVE  f[i] = IF i = 0 THEN start ELSE Visit(g, f[i - 1], q[i])
    BY <1>7, <2>1
  <2> QED
    BY <1>7, <2>2
<1>9. visited = E(visited)
  BY <1>8
<1> HIDE DEF visited
<1>10. \A i \in 0..n : visited[i] = IF i = 0 THEN start ELSE Visit(g, visited[i - 1], q[i])
  BY <1>9
<1>11. visited[0] = start /\ \A i \in 1..n : visited[i] = Visit(g, visited[i - 1], q[i])
  BY <1>2, <1>10
<1> DEFINE P == {i \in 0..n : visited[i] \in X}
<1>12. 0 \in P
  BY <1>2, <1>3, <1>11
<1>13. ASSUME NEW i \in 1..n, i - 1 \in P  PROVE i \in P
  <2>1. visited[i - 1] \in Searches(g)
    BY <1>13 DEF X
  <2>2. Visit(g, visited[i - 1], q[i]) \in Searches(g)
    BY <1>2, <2>1, VisitKeepsShape
  <2>3. visited[i] \in X
    BY <1>11, <2>2 DEF X
  <2> QED
    BY <2>3
<1> HIDE DEF P
<1>14. \A i \in 0..n : i \in P
  BY <1>2, <1>12, <1>13, StepByStep
<1>15. visited \in [0..n -> X]
  <2>1. \A i \in 0..n : visited[i] \in X
    BY <1>14 DEF P
  <2>2. visited = [i \in 0..n |-> visited[i]]
    BY <1>9
  <2> QED
    BY <2>1, <2>2
<1> QED
  BY <1>4, <1>11, <1>15 DEF X, start, n, q

Visited(g, search, k, s) ==
    /\ s \in Searches(g)
    /\ s.found = search.found \union ToSet(s.queue)
    /\ ToSet(s.queue) = Added(g, Known(search), search.queue, k)
    /\ InQueueOrder(s.queue)

\* Whoever an earlier one of the queue reached is known by then.
LEMMA KnownByNow ==
    ASSUME NEW g, Undirected(g), NEW search \in Searches(g),
           NEW k \in 0..Len(search.queue), NEW s, Visited(g, search, k, s),
           NEW x \in DOMAIN g
    PROVE  x \in Known(s) <=>
              x \in Known(search) \/ \E i \in 1..k : x \in g[Last(search.queue[i])]
<1> DEFINE q == search.queue
           old == Known(search)
           A == Added(g, old, q, k)
<1>1. q \in Seq(Paths(g)) /\ Len(q) \in Nat
  BY LenProperties DEF Searches
<1>2. Known(s) = old \union {Last(p) : p \in A}
  BY DEF Known, Visited
<1>3. \A i \in 1..k : q[i] \in Paths(g)
  BY <1>1, ElementOfSeq
<1>4. ASSUME NEW p \in A
      PROVE  \E i \in 1..k : Last(p) \in g[Last(q[i])]
  <2>1. PICK i \in 1..k, y \in DOMAIN g \ old : FirstTo(g, q, i, y) /\ p = Append(q[i], y)
    BY DEF Added
  <2>2. Last(p) = y
    BY <1>3, <2>1, PathMore
  <2> QED
    BY <2>1, <2>2 DEF FirstTo
<1>5. ASSUME x \notin old, NEW i \in 1..k, x \in g[Last(q[i])]
      PROVE  \E p \in A : Last(p) = x
  <2> DEFINE T == {j \in 1..k : x \in g[Last(q[j])]}
  <2>1. T \subseteq Nat /\ T # {}
    BY <1>5
  <2>2. PICK j \in T : \A l \in T : j <= l
    BY <2>1, LeastNumber
  <2>3. j \in 1..k /\ FirstTo(g, q, j, x)
    BY <2>2 DEF FirstTo
  <2> DEFINE p == Append(q[j], x)
  <2>4. p \in Paths(g) /\ Last(p) = x
    BY <1>3, <2>3, PathMore
  <2> HIDE DEF p
  <2>5. p \in A
    BY <1>5, <2>3, <2>4 DEF Added, p
  <2> QED
    BY <2>4, <2>5
<1> HIDE DEF A, q, old
<1>6. x \in {Last(p) : p \in A} => \E i \in 1..k : x \in g[Last(q[i])]
  BY <1>4
<1>7. x \notin old /\ (\E i \in 1..k : x \in g[Last(q[i])]) => x \in {Last(p) : p \in A}
  BY <1>5
<1>8. x \in Known(s) <=> x \in old \/ \E i \in 1..k : x \in g[Last(q[i])]
  BY <1>2, <1>6, <1>7
<1> QED
  BY <1>8 DEF q, old

LEMMA VisitOnce ==
    ASSUME NEW g, Undirected(g), NEW search \in Searches(g),
           InQueueOrder(search.queue), NEW l, SameLength(search.queue, l),
           NEW k \in 1..Len(search.queue), NEW s, Visited(g, search, k - 1, s)
    PROVE  Visited(g, search, k, Visit(g, s, search.queue[k]))
<1> DEFINE q == search.queue
           old == Known(search)
           via == Entered(g, s, q[k])
           next == Visit(g, s, q[k])
<1>1. q \in Seq(Paths(g)) /\ Len(q) \in Nat
  BY LenProperties DEF Searches
<1>2. \A i \in 1..k : q[i] \in Paths(g)
  BY <1>1, ElementOfSeq
<1>3. k \in 1..k /\ k - 1 \in 0..Len(q) /\ s \in Searches(g)
  BY <1>1 DEF Visited
<1>4. /\ next = [found |-> s.found \union ToSet(via), queue |-> s.queue \o via]
      /\ via \in Seq(Paths(g))
      /\ \A i \in 1..Len(via) : \E x \in g[Last(q[k])] \ Known(s) : via[i] = Append(q[k], x)
      /\ \A x \in g[Last(q[k])] \ Known(s) : \E i \in 1..Len(via) : via[i] = Append(q[k], x)
      /\ InQueueOrder(via)
  BY <1>2, <1>3, WhoEnters
<1>5. next \in Searches(g)
  BY <1>2, <1>3, VisitKeepsShape
<1>6. g[Last(q[k])] \subseteq DOMAIN g
  BY <1>2, <1>3, PathEnd DEF Undirected
<1>7. \A x \in DOMAIN g : x \in Known(s) <=>
          x \in old \/ \E i \in 1..(k - 1) : x \in g[Last(q[i])]
  BY <1>3, KnownByNow
<1>8. \A x \in DOMAIN g : x \in g[Last(q[k])] \ Known(s) <=> x \notin old /\ FirstTo(g, q, k, x)
  BY <1>7 DEF FirstTo
<1> DEFINE sq == s.queue
<1>9. sq \in Seq(Paths(g)) /\ ToSet(sq) = Added(g, old, q, k - 1) /\ InQueueOrder(sq)
      /\ s.found = search.found \union ToSet(sq)
  BY <1>3 DEF Visited, Searches
<1> HIDE DEF next, via, old, q, sq
<1>10. next.found = s.found \union ToSet(via) /\ next.queue = sq \o via
  BY <1>4 DEF sq
<1>11. /\ sq \o via \in Seq(Paths(g)) /\ Len(sq) \in Nat /\ Len(via) \in Nat
       /\ Len(sq \o via) = Len(sq) + Len(via)
       /\ \A i \in 1..(Len(sq) + Len(via)) :
             (sq \o via)[i] = IF i <= Len(sq) THEN sq[i] ELSE via[i - Len(sq)]
  BY <1>4, <1>9, ConcatProperties, LenProperties
<1>12. DOMAIN sq = 1..Len(sq) /\ DOMAIN via = 1..Len(via)
       /\ DOMAIN (sq \o via) = 1..(Len(sq) + Len(via))
  BY <1>4, <1>9, <1>11, LenProperties
<1> DEFINE both == sq \o via
<1> HIDE DEF both
<1>13. ToSet(both) = ToSet(sq) \union ToSet(via)
  <2>1. \A i \in 1..(Len(sq) + Len(via)) :
            (i \in 1..Len(sq) /\ both[i] = sq[i])
            \/ (i - Len(sq) \in 1..Len(via) /\ both[i] = via[i - Len(sq)])
    BY <1>11 DEF both
  <2>2. \A i \in 1..Len(sq) : i \in 1..(Len(sq) + Len(via)) /\ both[i] = sq[i]
    BY <1>11 DEF both
  <2>3. \A i \in 1..Len(via) : i + Len(sq) \in 1..(Len(sq) + Len(via)) /\ both[i + Len(sq)] = via[i]
    BY <1>11 DEF both
  <2>4. DOMAIN both = 1..(Len(sq) + Len(via))
    BY <1>12 DEF both
  <2>5. ToSet(sq) = {sq[i] : i \in 1..Len(sq)} /\ ToSet(via) = {via[i] : i \in 1..Len(via)}
        /\ ToSet(both) = {both[i] : i \in 1..(Len(sq) + Len(via))}
    BY <1>12, <2>4 DEF ToSet
  <2>6. ASSUME NEW p \in ToSet(both)
        PROVE  p \in ToSet(sq) \/ p \in ToSet(via)
    <3>1. PICK i \in 1..(Len(sq) + Len(via)) : p = both[i]
      BY <2>5
    <3>2. CASE i \in 1..Len(sq) /\ both[i] = sq[i]
      BY <2>5, <3>1, <3>2
    <3>3. CASE i - Len(sq) \in 1..Len(via) /\ both[i] = via[i - Len(sq)]
      BY <2>5, <3>1, <3>3
    <3> QED
      BY <2>1, <3>2, <3>3
  <2>7. ASSUME NEW p \in ToSet(sq)
        PROVE  p \in ToSet(both)
    <3>1. PICK i \in 1..Len(sq) : p = sq[i]
      BY <2>5
    <3> QED
      BY <2>2, <2>5, <3>1
  <2>8. ASSUME NEW p \in ToSet(via)
        PROVE  p \in ToSet(both)
    <3>1. PICK i \in 1..Len(via) : p = via[i]
      BY <2>5
    <3>2. i + Len(sq) \in 1..(Len(sq) + Len(via)) /\ both[i + Len(sq)] = p
      BY <2>3, <3>1
    <3> QED
      BY <2>5, <3>2
  <2> QED
    BY <2>6, <2>7, <2>8
<1>14. \A p : p \in ToSet(via) <=>
           p \in Paths(g) /\ \E x \in DOMAIN g \ old : FirstTo(g, q, k, x) /\ p = Append(q[k], x)
  <2>1. \A p : p \in ToSet(via) <=> \E x \in g[Last(q[k])] \ Known(s) : p = Append(q[k], x)
    BY <1>4, <1>12 DEF ToSet, via, q
  <2>2. \A x \in DOMAIN g : Append(q[k], x) \in Paths(g)
    BY <1>2, <1>3, PathMore DEF q
  <2> QED
    BY <1>6, <1>8, <2>1, <2>2 DEF q, old
<1>15. \A p : p \in Added(g, old, q, k) <=> p \in Added(g, old, q, k - 1) \/ p \in ToSet(via)
  <2>1. \A i : i \in 1..k <=> i \in 1..(k - 1) \/ i = k
    BY <1>1, <1>3 DEF q
  <2>2. \A p : p \in Added(g, old, q, k) <=>
            p \in Paths(g) /\ \E i \in 1..k : \E x \in DOMAIN g \ old :
                FirstTo(g, q, i, x) /\ p = Append(q[i], x)
    BY DEF Added
  <2>3. \A p : p \in Added(g, old, q, k - 1) <=>
            p \in Paths(g) /\ \E i \in 1..(k - 1) : \E x \in DOMAIN g \ old :
                FirstTo(g, q, i, x) /\ p = Append(q[i], x)
    BY DEF Added
  <2> QED
    BY <1>14, <2>1, <2>2, <2>3
<1>16. ToSet(both) = Added(g, old, q, k)
  BY <1>9, <1>13, <1>15
<1>17. InQueueOrder(both)
  <2> SUFFICES ASSUME NEW i \in 1..(Len(sq) + Len(via)), NEW j \in 1..(Len(sq) + Len(via)), i < j
               PROVE  Sooner(both[i], both[j])
    BY <1>11 DEF InQueueOrder, both
  <2>1. CASE j <= Len(sq)
    BY <1>9, <1>11, <2>1 DEF InQueueOrder, both
  <2>2. CASE i > Len(sq)
    <3>1. i - Len(sq) \in 1..Len(via) /\ j - Len(sq) \in 1..Len(via) /\ i - Len(sq) < j - Len(sq)
      BY <1>11, <2>2
    <3>2. both[i] = via[i - Len(sq)] /\ both[j] = via[j - Len(sq)]
      BY <1>11, <2>2 DEF both
    <3>3. InQueueOrder(via)
      BY <1>4 DEF via, q
    <3> QED
      BY <3>1, <3>2, <3>3 DEF InQueueOrder
  <2>3. CASE i <= Len(sq) /\ j > Len(sq)
    <3>1. i \in 1..Len(sq) /\ both[i] = sq[i]
      BY <1>11, <2>3 DEF both
    <3>2. j - Len(sq) \in 1..Len(via) /\ both[j] = via[j - Len(sq)]
      BY <1>11, <2>3 DEF both
    <3>3. sq[i] \in Added(g, old, q, k - 1)
      BY <1>9, <1>12, <3>1 DEF ToSet
    <3>4. PICK a \in 1..(k - 1), x \in DOMAIN g : sq[i] = Append(q[a], x)
      BY <3>3 DEF Added
    <3>5. PICK y \in DOMAIN g : via[j - Len(sq)] = Append(q[k], y)
      BY <1>4, <1>6, <3>2 DEF via, q
    <3>6. a \in 1..k /\ a \in 1..Len(q) /\ k \in 1..Len(q) /\ a < k
      BY <1>1, <1>3 DEF q
    <3>7. Sooner(q[a], q[k]) /\ Len(q[a]) = Len(q[k])
      BY <3>6 DEF InQueueOrder, SameLength, q
    <3>8. q[a] \in Seq(Int) /\ q[k] \in Seq(Int) /\ x \in Int /\ y \in Int
      <4>1. q[a] \in Seq(DOMAIN g) /\ q[k] \in Seq(DOMAIN g) /\ DOMAIN g \subseteq Int
        BY <1>2, <1>3, <3>6, PathEnd DEF Undirected, q
      <4> QED
        BY <4>1, SeqMonotonic
    <3>9. Sooner(Append(q[a], x), Append(q[k], y))
      BY <3>7, <3>8, SoonerOneMore
    <3> QED
      BY <3>1, <3>2, <3>4, <3>5, <3>9
  <2> QED
    BY <1>11, <2>1, <2>2, <2>3
<1>18. next.found = search.found \union ToSet(both)
  BY <1>9, <1>10, <1>13
<1>19. next.queue = both
  BY <1>10 DEF both
<1>20. Visited(g, search, k, next)
  BY <1>5, <1>16, <1>17, <1>18, <1>19 DEF Visited, next, q, old
<1> QED
  BY <1>20 DEF next, q

LEMMA AllVisited ==
    ASSUME NEW g, Undirected(g), NEW search \in Searches(g),
           InQueueOrder(search.queue), NEW l, SameLength(search.queue, l)
    PROVE  Visited(g, search, Len(search.queue), VisitAll(g, search))
<1> DEFINE n == Len(search.queue)
<1>1. PICK visited \in [0..n -> Searches(g)] :
         /\ visited[0] = [found |-> search.found, queue |-> <<>>]
         /\ \A i \in 1..n : visited[i] = Visit(g, visited[i - 1], search.queue[i])
         /\ VisitAll(g, search) = visited[n]
  BY VisitsExist
<1>2. n \in Nat
  BY LenProperties DEF Searches
<1> DEFINE P == {i \in 0..n : Visited(g, search, i, visited[i])}
<1>3. 0 \in P
  <2>1. visited[0] \in Searches(g) /\ visited[0].queue = <<>> /\ visited[0].found = search.found
    BY <1>1, <1>2
  <2>2. ToSet(<<>>) = {} /\ InQueueOrder(<<>>)
    BY DEF ToSet, InQueueOrder
  <2>3. Added(g, Known(search), search.queue, 0) = {}
    BY DEF Added
  <2>4. Visited(g, search, 0, visited[0])
    BY <2>1, <2>2, <2>3 DEF Visited
  <2> QED
    BY <1>2, <2>4
<1>4. ASSUME NEW i \in 1..n, i - 1 \in P  PROVE i \in P
  <2>1. Visited(g, search, i - 1, visited[i - 1])
    BY <1>4
  <2>2. Visited(g, search, i, Visit(g, visited[i - 1], search.queue[i]))
    BY <2>1, VisitOnce
  <2>3. Visited(g, search, i, visited[i])
    BY <1>1, <2>2
  <2> QED
    BY <2>3
<1> HIDE DEF P
<1>5. \A i \in 0..n : i \in P
  BY <1>2, <1>3, <1>4, StepByStep
<1>6. Visited(g, search, n, visited[n])
  <2>1. n \in 0..n
    BY <1>2
  <2> QED
    BY <1>5, <2>1 DEF P
<1> QED
  BY <1>1, <1>6

-----------------------------------------------------------------------------
(* The whole search, a level at a time.                                    *)

LEMMA SearchesExist ==
    ASSUME NEW g, Undirected(g), NEW source \in DOMAIN g, NEW n \in Nat
    PROVE  \E search \in [0..n -> Searches(g)] :
              /\ search[0] = [found |-> {<<source>>}, queue |-> <<<<source>>>>]
              /\ \A i \in 1..n : search[i] = VisitAll(g, search[i - 1])
              /\ Search(g, source, n) = search[n]
<1> DEFINE X == Searches(g)
           start == [found |-> {<<source>>}, queue |-> <<<<source>>>>]
           H == [i \in 1..n |-> [s \in X |-> VisitAll(g, s)]]
           E(f) == [i \in 0..n |-> IF i = 0 THEN start ELSE VisitAll(g, f[i - 1])]
           search == CHOOSE f : f = E(f)
<1>1. start \in X
  <2>1. <<source>> \in Paths(g)
    BY DEF Paths
  <2> QED
    BY <2>1 DEF Searches
<1>2. \A s \in X : VisitAll(g, s) \in X
  <2> SUFFICES ASSUME NEW s \in X PROVE VisitAll(g, s) \in X
    OBVIOUS
  <2>1. Len(s.queue) \in 0..Len(s.queue)
    <3>1. Len(s.queue) \in Nat
      BY LenProperties DEF Searches
    <3> QED
      BY <3>1
  <2>2. PICK visited \in [0..Len(s.queue) -> X] : VisitAll(g, s) = visited[Len(s.queue)]
    BY VisitsExist
  <2> QED
    BY <2>1, <2>2
<1>3. Search(g, source, n) = search[n]
  BY DEF Search
<1> HIDE DEF start
<1>4. H \in [1..n -> [X -> X]]
  BY <1>2
<1>5. \A i \in 1..n : \A s \in X : H[i][s] = VisitAll(g, s)
  OBVIOUS
<1> HIDE DEF H, X
<1>6. PICK f \in [0..n -> X] : f = [i \in 0..n |-> IF i = 0 THEN start ELSE H[i][f[i - 1]]]
  <2>1. \E f \in [0..n -> X] : Iterated(f, H, start, n)
    BY <1>1, <1>4, Iterates
  <2> QED
    BY <2>1 DEF Iterated
<1>7. f = E(f)
  <2>1. ASSUME NEW i \in 0..n, i # 0
        PROVE  H[i][f[i - 1]] = VisitAll(g, f[i - 1])
    <3>1. i \in 1..n /\ i - 1 \in 0..n
      BY <2>1
    <3> QED
      BY <1>5, <1>6, <3>1
  <2>2. ASSUME NEW i \in 0..n
        PROVE  f[i] = IF i = 0 THEN start ELSE VisitAll(g, f[i - 1])
    BY <1>6, <2>1
  <2> QED
    BY <1>6, <2>2
<1>8. search = E(search)
  BY <1>7
<1> HIDE DEF search
<1>9. \A i \in 0..n : search[i] = IF i = 0 THEN start ELSE VisitAll(g, search[i - 1])
  BY <1>8
<1>10. search[0] = start /\ \A i \in 1..n : search[i] = VisitAll(g, search[i - 1])
  BY <1>9
<1> DEFINE P == {i \in 0..n : search[i] \in X}
<1>11. 0 \in P
  BY <1>1, <1>10
<1>12. ASSUME NEW i \in 1..n, i - 1 \in P  PROVE i \in P
  BY <1>2, <1>10, <1>12
<1> HIDE DEF P
<1>13. \A i \in 0..n : i \in P
  BY <1>11, <1>12, StepByStep
<1>14. search \in [0..n -> X]
  <2>1. \A i \in 0..n : search[i] \in X
    BY <1>13 DEF P
  <2>2. search = [i \in 0..n |-> search[i]]
    BY <1>8
  <2> QED
    BY <2>1, <2>2
<1> QED
  BY <1>3, <1>10, <1>14 DEF X, start

\* No shortest path to the same person comes before p.
Least(g, met, p) == \A r \in GeodesicsTo(g, met, Last(p)) : ~Sooner(r, p)

\* After i levels: the first i + 1 levels are known, each of their people by
\* the least of the shortest paths, and the last of them are in the queue.
Explored(g, met, i, s) ==
    /\ s \in Searches(g)
    /\ \A p \in s.found : Geodesic(g, met, p) /\ Len(p) <= i + 1 /\ Least(g, met, p)
    /\ \A j \in 1..(i + 1) : met[j] \subseteq Known(s)
    /\ ToSet(s.queue) = {p \in s.found : Len(p) = i + 1}
    /\ InQueueOrder(s.queue)

LEMMA ExploredAtFirst ==
    ASSUME NEW g, Undirected(g), NEW source \in DOMAIN g, NEW n \in Nat,
           NEW met, IsMet(met, g, source, n)
    PROVE  Explored(g, met, 0, [found |-> {<<source>>}, queue |-> <<<<source>>>>])
<1> DEFINE one == <<source>>
           s == [found |-> {one}, queue |-> <<one>>]
<1>1. one \in Seq(DOMAIN g) /\ Len(one) = 1 /\ one[1] = source /\ Last(one) = source
  BY DEF Last
<1>2. one \in Paths(g)
  BY DEF Paths
<1>3. Len(met) = n + 1 /\ met[1] = {source}
  BY DEF IsMet
<1> HIDE DEF one
<1>4. Geodesic(g, met, one)
  BY <1>1, <1>3 DEF Geodesic
<1>5. Least(g, met, one)
  <2> SUFFICES ASSUME NEW r \in GeodesicsTo(g, met, source) PROVE ~Sooner(r, one)
    BY <1>1 DEF Least
  <2>1. Geodesic(g, met, r)
    BY DEF GeodesicsTo
  <2>2. r \in Seq(DOMAIN g) /\ DOMAIN r = 1..Len(r) /\ Len(r) \in Nat \ {0}
    BY <2>1, GeodesicEnds, LenProperties DEF Geodesic
  <2>3. r[1] = source
    BY <1>3, <2>1, <2>2 DEF Geodesic
  <2>4. source \in Int
    BY DEF Undirected
  <2>5. ASSUME NEW i \in 1..Len(r), r[i] < one[i], \A j \in 1..(i - 1) : r[j] = one[j]
        PROVE  FALSE
    <3>1. r[i] \in Int
      BY <2>2, ElementOfSeq DEF Undirected
    <3>2. CASE i = 1
      BY <1>1, <2>3, <2>4, <2>5, <3>2
    <3>3. CASE i # 1
      <4>1. Geodesic(g, met, r) /\ Last(r) = source
        BY <2>1 DEF GeodesicsTo
      <4>2. source \in met[Len(r)] /\ Len(r) \in 1..(n + 1)
        BY <1>3, <4>1, GeodesicEnds DEF Geodesic
      <4>3. 1 \in 1..(n + 1) /\ source \in met[1]
        BY <1>3
      <4>4. Len(r) = 1
        <5>1. Apart(met, n)
          BY AllApart
        <5> QED
          BY <4>2, <4>3, <5>1 DEF Apart
      <4> QED
        BY <3>3, <4>4
    <3> QED
      BY <3>2, <3>3
  <2> QED
    BY <2>2, <2>5 DEF Sooner
<1>6. s \in Searches(g)
  BY <1>2 DEF Searches
<1>7. Known(s) = {source}
  BY <1>1 DEF Known
<1>8. ToSet(<<one>>) = {one} /\ InQueueOrder(<<one>>)
  BY DEF ToSet, InQueueOrder
<1>9. s.found = {one} /\ s.queue = <<one>>
  OBVIOUS
<1> HIDE DEF s
<1>10. \A p \in s.found : Geodesic(g, met, p) /\ Len(p) <= 0 + 1 /\ Least(g, met, p)
  <2>1. Len(one) <= 0 + 1
    BY <1>1
  <2>2. \A p \in s.found : p = one
    BY <1>9
  <2> QED
    BY <1>4, <1>5, <2>1, <2>2, Zenon
<1>11. \A j \in 1..(0 + 1) : met[j] \subseteq Known(s)
  BY <1>3, <1>7
<1>12. ToSet(s.queue) = {p \in s.found : Len(p) = 0 + 1}
  BY <1>1, <1>8, <1>9
<1>13. InQueueOrder(s.queue)
  BY <1>8, <1>9
<1>14. Explored(g, met, 0, s)
  BY <1>6, <1>10, <1>11, <1>12, <1>13 DEF Explored
<1> QED
  BY <1>14 DEF s, one

LEMMA ExploredFurther ==
    ASSUME NEW g, Undirected(g), NEW source \in DOMAIN g, NEW n \in Nat,
           NEW met, IsMet(met, g, source, n),
           NEW i \in 1..n, NEW s, Explored(g, met, i - 1, s)
    PROVE  Explored(g, met, i, VisitAll(g, s))
<1> DEFINE q == s.queue
           next == VisitAll(g, s)
           A == Added(g, Known(s), q, Len(q))
<1>1. /\ s \in Searches(g) /\ InQueueOrder(q)
      /\ \A p \in s.found : Geodesic(g, met, p) /\ Len(p) <= i /\ Least(g, met, p)
      /\ \A j \in 1..i : met[j] \subseteq Known(s)
      /\ ToSet(q) = {p \in s.found : Len(p) = i}
  BY DEF Explored
<1>2. /\ q \in Seq(Paths(g)) /\ Len(q) \in Nat /\ DOMAIN q = 1..Len(q)
      /\ \A a \in 1..Len(q) : q[a] \in Paths(g)
  <2>1. q \in Seq(Paths(g))
    BY <1>1 DEF Searches
  <2> QED
    BY <2>1, LenProperties, ElementOfSeq
<1>3. \A a \in 1..Len(q) : q[a] \in s.found /\ Len(q[a]) = i
  BY <1>1, <1>2 DEF ToSet
<1>4. \A p \in s.found : Len(p) = i => \E a \in 1..Len(q) : q[a] = p
  BY <1>1, <1>2 DEF ToSet
<1>5. Visited(g, s, Len(q), next)
  <2>1. SameLength(q, i)
    BY <1>3 DEF SameLength
  <2> QED
    BY <1>1, <2>1, AllVisited
<1>6. /\ next \in Searches(g) /\ next.found = s.found \union ToSet(next.queue)
      /\ ToSet(next.queue) = A /\ InQueueOrder(next.queue)
  BY <1>5 DEF Visited
<1>7. \A x \in DOMAIN g : x \in Known(next) <=>
          x \in Known(s) \/ \E a \in 1..Len(q) : x \in g[Last(q[a])]
  <2>1. Len(q) \in 0..Len(q)
    BY <1>2
  <2> QED
    BY <1>1, <1>5, <2>1, KnownByNow
<1>8. /\ Apart(met, n) /\ Len(met) = n + 1 /\ met \in Seq(SUBSET DOMAIN g)
      /\ met[i + 1] = Fresh(g, met, i)
  BY AllApart DEF IsMet
<1>9. \A x \in Known(s) : \E j \in 1..i : x \in met[j]
  <2> SUFFICES ASSUME NEW p \in s.found PROVE \E j \in 1..i : Last(p) \in met[j]
    BY DEF Known
  <2>1. Len(p) \in 1..i /\ Last(p) \in met[Len(p)]
    BY <1>1, GeodesicEnds
  <2> QED
    BY <2>1
<1> HIDE DEF q, next, A
\* A path that was added.
<1>10. ASSUME NEW p \in A
       PROVE  Geodesic(g, met, p) /\ Len(p) = i + 1 /\ Least(g, met, p)
  <2>1. PICK a \in 1..Len(q), x \in DOMAIN g \ Known(s) :
            FirstTo(g, q, a, x) /\ p = Append(q[a], x)
    BY DEF A, Added
  <2>2. /\ x \in g[Last(q[a])] /\ \A b \in 1..(a - 1) : x \notin g[Last(q[b])]
    BY <2>1 DEF FirstTo
  <2>3. q[a] \in s.found /\ Len(q[a]) = i /\ Geodesic(g, met, q[a]) /\ q[a] \in Paths(g)
    BY <1>1, <1>2, <1>3
  <2>4. Last(q[a]) \in met[i]
    BY <2>3, GeodesicEnds
  <2>5. x \in met[i + 1]
    <3>1. \A j \in 1..i : x \notin met[j]
      BY <1>1, <2>1
    <3>2. x \in UNION {g[m] : m \in met[i]}
      BY <2>2, <2>4
    <3> QED
      BY <1>8, <3>1, <3>2 DEF Fresh
  <2>6. Geodesic(g, met, p) /\ Last(p) = x
    BY <1>8, <2>1, <2>2, <2>3, <2>5, GeodesicMore
  <2>7. Len(p) = i + 1
    BY <2>1, <2>3, PathMore
  <2>8. ASSUME NEW r, Geodesic(g, met, r), Last(r) = x, Sooner(r, p)
        PROVE  FALSE
    <3>1. Len(r) \in 1..(n + 1) /\ x \in met[Len(r)]
      BY <1>8, <2>8, GeodesicEnds DEF Geodesic
    <3>2. Len(r) = i + 1
      BY <1>8, <2>5, <3>1 DEF Apart
    <3>3. PICK o : /\ Geodesic(g, met, o) /\ Len(o) = Len(r) - 1
                   /\ r = Append(o, Last(r)) /\ Last(r) \in g[Last(o)]
      <4>1. Len(r) > 1 /\ Len(met) \in Nat
        BY <1>8, <3>2
      <4> QED
        BY <2>8, <4>1, GeodesicLess
    <3>4. Len(o) = i /\ r = Append(o, x) /\ x \in g[Last(o)]
      BY <2>8, <3>2, <3>3
    <3>5. o \in Seq(Int) /\ q[a] \in Seq(Int) /\ x \in Int
      <4>1. o \in Seq(DOMAIN g) /\ q[a] \in Seq(DOMAIN g) /\ DOMAIN g \subseteq Int
        BY <2>3, <3>3 DEF Geodesic, Undirected
      <4> QED
        BY <4>1, SeqMonotonic
    <3>6. Sooner(o, q[a])
      <4>1. Sooner(Append(o, x), Append(q[a], x))
        BY <2>1, <2>8, <3>4
      <4>2. Sooner(o, q[a]) \/ (o = q[a] /\ x < x)
        BY <2>3, <3>4, <3>5, <4>1, SoonerOneMore
      <4> QED
        BY <3>5, <4>2
    <3>7. Last(o) \in met[i]
      BY <3>3, <3>4, GeodesicEnds
    <3>8. PICK f \in s.found : Last(f) = Last(o)
      <4>1. Last(o) \in Known(s)
        BY <1>1, <3>7
      <4> QED
        BY <4>1 DEF Known
    <3>9. Len(f) = i
      <4>1. Geodesic(g, met, f) /\ Len(f) \in 1..(n + 1) /\ Last(f) \in met[Len(f)]
        BY <1>1, <1>8, GeodesicEnds DEF Geodesic
      <4>2. i \in 1..(n + 1)
        OBVIOUS
      <4> QED
        BY <1>8, <3>7, <3>8, <4>1, <4>2 DEF Apart
    <3>10. PICK b \in 1..Len(q) : q[b] = f
      BY <1>4, <3>9
    <3>11. ~Sooner(o, q[b])
      <4>1. o \in GeodesicsTo(g, met, Last(f))
        BY <3>3, <3>8 DEF GeodesicsTo, Geodesic
      <4> QED
        BY <1>1, <3>10, <4>1 DEF Least
    <3>12. x \in g[Last(q[b])]
      BY <3>4, <3>8, <3>10
    <3>13. ~(b < a)
      BY <2>2, <3>12
    <3>14. a # b
      BY <3>6, <3>11
    <3>15. Sooner(q[a], q[b])
      BY <1>1, <3>13, <3>14 DEF InQueueOrder, q
    <3>16. q[b] \in Seq(Int)
      <4>1. q[b] \in Seq(DOMAIN g) /\ DOMAIN g \subseteq Int
        BY <1>2, PathEnd DEF Undirected
      <4> QED
        BY <4>1, SeqMonotonic
    <3>17. Sooner(o, q[b])
      BY <2>3, <3>4, <3>5, <3>6, <3>9, <3>10, <3>15, <3>16, SoonerTransitive
    <3> QED
      BY <3>11, <3>17
  <2>9. Least(g, met, p)
    BY <2>6, <2>8 DEF Least, GeodesicsTo
  <2> QED
    BY <2>6, <2>7, <2>9
<1>11. \A p \in next.found : Geodesic(g, met, p) /\ Len(p) <= i + 1 /\ Least(g, met, p)
  <2> SUFFICES ASSUME NEW p \in next.found
               PROVE  Geodesic(g, met, p) /\ Len(p) <= i + 1 /\ Least(g, met, p)
    OBVIOUS
  <2>1. CASE p \in s.found
    <3>1. Geodesic(g, met, p) /\ Len(p) <= i /\ Least(g, met, p) /\ Len(p) \in Nat
      BY <1>1, <2>1, GeodesicEnds
    <3> QED
      BY <3>1
  <2>2. CASE p \in A
    <3>1. Geodesic(g, met, p) /\ Len(p) = i + 1 /\ Least(g, met, p)
      BY <1>10, <2>2
    <3> QED
      BY <3>1
  <2> QED
    BY <1>6, <2>1, <2>2
<1>12. \A j \in 1..(i + 1) : met[j] \subseteq Known(next)
  <2> SUFFICES ASSUME NEW j \in 1..(i + 1), NEW x \in met[j] PROVE x \in Known(next)
    OBVIOUS
  <2>1. x \in DOMAIN g
    <3>1. j \in 1..Len(met)
      BY <1>8
    <3> QED
      BY <1>8, <3>1, ElementOfSeq
  <2>2. CASE j \in 1..i
    BY <1>1, <1>7, <2>1, <2>2
  <2>3. CASE j = i + 1
    <3>1. PICK m \in met[i] : x \in g[m]
      BY <1>8, <2>3 DEF Fresh
    <3>2. PICK f \in s.found : Last(f) = m
      <4>1. m \in Known(s)
        BY <1>1
      <4> QED
        BY <4>1 DEF Known
    <3>3. Len(f) = i
      <4>1. Geodesic(g, met, f) /\ Len(f) \in 1..(n + 1) /\ Last(f) \in met[Len(f)]
        BY <1>1, <1>8, GeodesicEnds DEF Geodesic
      <4>2. i \in 1..(n + 1)
        OBVIOUS
      <4> QED
        BY <1>8, <3>2, <4>1, <4>2 DEF Apart
    <3>4. PICK b \in 1..Len(q) : q[b] = f
      BY <1>4, <3>3
    <3> QED
      BY <1>7, <2>1, <3>1, <3>2, <3>4
  <2> QED
    BY <2>2, <2>3
<1>13. ToSet(next.queue) = {p \in next.found : Len(p) = i + 1}
  <2>1. ASSUME NEW p \in s.found PROVE Len(p) # i + 1
    <3>1. Len(p) <= i /\ Len(p) \in Nat
      BY <1>1, GeodesicEnds
    <3> QED
      BY <3>1
  <2>2. \A p \in A : Len(p) = i + 1
    BY <1>10
  <2> QED
    BY <1>6, <2>1, <2>2
<1>14. Explored(g, met, i, next)
  BY <1>6, <1>11, <1>12, <1>13 DEF Explored
<1> QED
  BY <1>14 DEF next

LEMMA SearchExplores ==
    ASSUME NEW g, Undirected(g), NEW source \in DOMAIN g, NEW n \in Nat
    PROVE  Explored(g, levels(g, source, n), n, Search(g, source, n))
<1> DEFINE met == levels(g, source, n)
<1>1. IsMet(met, g, source, n)
  BY LevelsAreMet DEF Undirected
<1> HIDE DEF met
<1>2. PICK search \in [0..n -> Searches(g)] :
         /\ search[0] = [found |-> {<<source>>}, queue |-> <<<<source>>>>]
         /\ \A i \in 1..n : search[i] = VisitAll(g, search[i - 1])
         /\ Search(g, source, n) = search[n]
  BY SearchesExist
<1> DEFINE P == {i \in 0..n : Explored(g, met, i, search[i])}
<1>3. 0 \in P
  <2>1. Explored(g, met, 0, search[0])
    BY <1>1, <1>2, ExploredAtFirst
  <2> QED
    BY <2>1
<1>4. ASSUME NEW i \in 1..n, i - 1 \in P  PROVE i \in P
  <2>1. Explored(g, met, i - 1, search[i - 1])
    BY <1>4
  <2>2. Explored(g, met, i, VisitAll(g, search[i - 1]))
    BY <1>1, <2>1, ExploredFurther
  <2>3. Explored(g, met, i, search[i])
    BY <1>2, <2>2
  <2> QED
    BY <2>3
<1> HIDE DEF P
<1>5. \A i \in 0..n : i \in P
  BY <1>3, <1>4, StepByStep
<1>6. Explored(g, met, n, search[n])
  <2>1. n \in 0..n
    OBVIOUS
  <2> QED
    BY <1>5, <2>1 DEF P
<1> QED
  BY <1>2, <1>6 DEF met

\* The bridge is the least of the shortest paths, and there is one exactly
\* when there is a path.
LEMMA BridgeIsLeastPath ==
    ASSUME NEW g, Undirected(g), NEW s \in DOMAIN g, NEW t \in DOMAIN g, NEW n \in Nat
    PROVE  /\ (shortest_communication_bridge(g, s, t, n) = <<>>)
                = (all_shortest_paths(g, s, t, n) = {})
           /\ all_shortest_paths(g, s, t, n) # {} =>
                /\ shortest_communication_bridge(g, s, t, n) \in all_shortest_paths(g, s, t, n)
                /\ \A p \in all_shortest_paths(g, s, t, n) :
                      ~Sooner(p, shortest_communication_bridge(g, s, t, n))
<1> DEFINE met == levels(g, s, n)
           found == Search(g, s, n).found
           bridge == shortest_communication_bridge(g, s, t, n)
           paths == all_shortest_paths(g, s, t, n)
<1>1. Explored(g, met, n, Search(g, s, n))
  BY SearchExplores
<1>2. /\ \A p \in found : Geodesic(g, met, p) /\ Least(g, met, p)
      /\ \A j \in 1..(n + 1) : \A x \in met[j] : \E p \in found : Last(p) = x
  BY <1>1 DEF Explored, Known
<1>3. paths = GeodesicsTo(g, met, t)
  BY ShortestAreGeodesics
<1>4. bridge = IF \E p \in found : Last(p) = t
               THEN CHOOSE p \in found : Last(p) = t ELSE <<>>
  BY DEF shortest_communication_bridge
<1>5. Len(met) = n + 1
  BY LevelsAreMet DEF IsMet, Undirected
<1> HIDE DEF met, found, bridge, paths
<1>6. CASE \E p \in found : Last(p) = t
  <2>1. bridge \in found /\ Last(bridge) = t
    BY <1>4, <1>6
  <2>2. Geodesic(g, met, bridge) /\ Least(g, met, bridge)
    BY <1>2, <2>1
  <2>3. bridge \in paths
    BY <1>3, <2>1, <2>2 DEF GeodesicsTo, Geodesic
  <2>4. bridge # <<>>
    <3>1. Len(bridge) # 0
      BY <2>2, GeodesicEnds
    <3> QED
      BY <3>1
  <2>5. \A p \in paths : ~Sooner(p, bridge)
    BY <1>3, <2>1, <2>2 DEF Least
  <2> QED
    BY <2>3, <2>4, <2>5 DEF paths, bridge
<1>7. CASE ~\E p \in found : Last(p) = t
  <2>1. bridge = <<>>
    BY <1>4, <1>7
  <2>2. ASSUME NEW p \in paths PROVE FALSE
    <3>1. Geodesic(g, met, p) /\ Last(p) = t
      BY <1>3 DEF GeodesicsTo
    <3>2. Len(p) \in 1..(n + 1) /\ t \in met[Len(p)]
      BY <1>5, <3>1, GeodesicEnds DEF Geodesic
    <3> QED
      BY <1>2, <1>7, <3>2
  <2> QED
    BY <2>1, <2>2 DEF paths, bridge
<1> QED
  BY <1>6, <1>7

-----------------------------------------------------------------------------
(* Sums of multiples, of two functions, of part of a set, of a table by    *)
(* its rows or its columns; the size of a union of sets that are apart.    *)

LEMMA SumScaled ==
    ASSUME NEW S, NEW F, Numbers(F, S), NEW c \in Nat
    PROVE  /\ Numbers([x \in S |-> c * F[x]], S)
           /\ SumFunctionOnSet([x \in S |-> c * F[x]], S) = c * SumFunctionOnSet(F, S)
<1> DEFINE G == [x \in S |-> c * F[x]]
           P == {T \in SUBSET S : SumFunctionOnSet(G, T) = c * SumFunctionOnSet(F, T)}
<1>1. IsFiniteSet(S) /\ \A x \in S : F[x] \in Nat
  BY DEF Numbers
<1>2. \A x \in S : G[x] = c * F[x] /\ G[x] \in Nat
  BY <1>1
<1> HIDE DEF G
<1>3. Numbers(G, S)
  BY <1>1, <1>2 DEF Numbers
<1>4. /\ SumFunctionOnSet(F, {}) = 0 /\ SumFunctionOnSet(G, {}) = 0
      /\ \A T \in SUBSET S : SumFunctionOnSet(F, T) \in Nat /\ SumFunctionOnSet(G, T) \in Nat
  BY <1>3, SumByPick
<1>5. ASSUME NEW T \in SUBSET S, \A x \in T : T \ {x} \in P  PROVE T \in P
  <2>1. CASE T = {}
    BY <1>4, <2>1
  <2>2. ASSUME NEW x \in T  PROVE T \in P
    <3> DEFINE a == SumFunctionOnSet(F, T \ {x})
               b == SumFunctionOnSet(G, T \ {x})
    <3>1. SumFunctionOnSet(F, T) = F[x] + a /\ SumFunctionOnSet(G, T) = G[x] + b
      BY <1>3, SumSplits
    <3>2. b = c * a
      BY <1>5, <2>2
    <3>3. a \in Nat /\ F[x] \in Nat /\ G[x] = c * F[x]
      BY <1>1, <1>2, <1>4
    <3> HIDE DEF a, b
    <3>4. c * (F[x] + a) = c * F[x] + c * a
      BY <3>3
    <3> QED
      BY <3>1, <3>2, <3>3, <3>4
  <2> QED
    BY <2>1, <2>2
<1> HIDE DEF P
<1>6. \A T \in SUBSET S : T \in P
  BY <1>1, <1>5, FiniteByStep
<1>7. S \in P
  BY <1>6
<1> QED
  BY <1>3, <1>7 DEF P, G

LEMMA SumPlus ==
    ASSUME NEW S, NEW F, NEW G, Numbers(F, S), Numbers(G, S)
    PROVE  /\ Numbers([x \in S |-> F[x] + G[x]], S)
           /\ SumFunctionOnSet([x \in S |-> F[x] + G[x]], S)
                = SumFunctionOnSet(F, S) + SumFunctionOnSet(G, S)
<1> DEFINE H == [x \in S |-> F[x] + G[x]]
           P == {T \in SUBSET S : SumFunctionOnSet(H, T)
                                    = SumFunctionOnSet(F, T) + SumFunctionOnSet(G, T)}
<1>1. IsFiniteSet(S) /\ \A x \in S : F[x] \in Nat /\ G[x] \in Nat
  BY DEF Numbers
<1>2. \A x \in S : H[x] = F[x] + G[x] /\ H[x] \in Nat
  BY <1>1
<1> HIDE DEF H
<1>3. Numbers(H, S)
  BY <1>1, <1>2 DEF Numbers
<1>4. /\ SumFunctionOnSet(F, {}) = 0 /\ SumFunctionOnSet(G, {}) = 0 /\ SumFunctionOnSet(H, {}) = 0
      /\ \A T \in SUBSET S : /\ SumFunctionOnSet(F, T) \in Nat /\ SumFunctionOnSet(G, T) \in Nat
                             /\ SumFunctionOnSet(H, T) \in Nat
  BY <1>3, SumByPick
<1>5. ASSUME NEW T \in SUBSET S, \A x \in T : T \ {x} \in P  PROVE T \in P
  <2>1. CASE T = {}
    BY <1>4, <2>1
  <2>2. ASSUME NEW x \in T  PROVE T \in P
    <3> DEFINE a == SumFunctionOnSet(F, T \ {x})
               b == SumFunctionOnSet(G, T \ {x})
               d == SumFunctionOnSet(H, T \ {x})
    <3>1. /\ SumFunctionOnSet(F, T) = F[x] + a /\ SumFunctionOnSet(G, T) = G[x] + b
          /\ SumFunctionOnSet(H, T) = H[x] + d
      BY <1>3, SumSplits
    <3>2. d = a + b
      BY <1>5, <2>2
    <3>3. a \in Nat /\ b \in Nat /\ F[x] \in Nat /\ G[x] \in Nat /\ H[x] = F[x] + G[x]
      BY <1>1, <1>2, <1>4
    <3> HIDE DEF a, b, d
    <3> QED
      BY <3>1, <3>2, <3>3
  <2> QED
    BY <2>1, <2>2
<1> HIDE DEF P
<1>6. \A T \in SUBSET S : T \in P
  BY <1>1, <1>5, FiniteByStep
<1>7. S \in P
  BY <1>6
<1> QED
  BY <1>3, <1>7 DEF P, H

\* What adds nothing can be left out.
LEMMA SumOfRest ==
    ASSUME NEW S, NEW F, Numbers(F, S), NEW R \in SUBSET S, \A x \in S \ R : F[x] = 0
    PROVE  Numbers(F, R) /\ SumFunctionOnSet(F, S) = SumFunctionOnSet(F, R)
<1> DEFINE O == S \ R
           P == {T \in SUBSET O : SumFunctionOnSet(F, R \union T) = SumFunctionOnSet(F, R)}
<1>1. IsFiniteSet(S) /\ (\A x \in S : F[x] \in Nat) /\ IsFiniteSet(O) /\ IsFiniteSet(R)
  BY FS_Subset DEF Numbers
<1>2. \A x \in O : F[x] = 0
  OBVIOUS
<1>3. \A T \in SUBSET S : SumFunctionOnSet(F, T) \in Nat
  BY SumByPick
<1>4. ASSUME NEW T \in SUBSET O, \A x \in T : T \ {x} \in P  PROVE T \in P
  <2>1. CASE T = {}
    <3>1. R \union T = R
      BY <2>1
    <3> QED
      BY <3>1
  <2>2. ASSUME NEW x \in T  PROVE T \in P
    <3>1. x \in R \union T /\ (R \union T) \ {x} = R \union (T \ {x}) /\ R \union T \in SUBSET S
      OBVIOUS
    <3>2. SumFunctionOnSet(F, R \union T) = F[x] + SumFunctionOnSet(F, R \union (T \ {x}))
      BY <3>1, SumSplits
    <3>3. SumFunctionOnSet(F, R \union (T \ {x})) = SumFunctionOnSet(F, R)
      BY <1>4, <2>2
    <3>4. F[x] = 0 /\ SumFunctionOnSet(F, R) \in Nat
      BY <1>2, <1>3
    <3> QED
      BY <3>2, <3>3, <3>4
  <2> QED
    BY <2>1, <2>2
<1> HIDE DEF P
<1>5. \A T \in SUBSET O : T \in P
  BY <1>1, <1>4, FiniteByStep
<1>6. O \in P
  BY <1>5
<1>7. R \union O = S
  OBVIOUS
<1> QED
  BY <1>1, <1>6, <1>7 DEF P, Numbers

\* The sums of a table by rows and by columns are the same.
Table(M, S, R) == IsFiniteSet(S) /\ IsFiniteSet(R) /\ \A x \in S : \A y \in R : M[x][y] \in Nat

Rows(M, S, R) == [x \in S |-> SumFunctionOnSet(M[x], R)]

Column(M, S, y) == [x \in S |-> M[x][y]]

Columns(M, S, R) == [y \in R |-> SumFunctionOnSet(Column(M, S, y), S)]

LEMMA TableNumbers ==
    ASSUME NEW S, NEW R, NEW M, Table(M, S, R)
    PROVE  /\ \A x \in S : Numbers(M[x], R)
           /\ \A y \in R : Numbers(Column(M, S, y), S)
           /\ Numbers(Rows(M, S, R), S) /\ Numbers(Columns(M, S, R), R)
<1>1. IsFiniteSet(S) /\ IsFiniteSet(R) /\ \A x \in S : \A y \in R : M[x][y] \in Nat
  BY DEF Table
<1>2. \A x \in S : Numbers(M[x], R)
  BY <1>1 DEF Numbers
<1>3. ASSUME NEW y \in R PROVE Numbers(Column(M, S, y), S)
  <2>1. \A x \in S : Column(M, S, y)[x] = M[x][y]
    BY DEF Column
  <2> QED
    BY <1>1, <2>1 DEF Numbers
<1>4. ASSUME NEW x \in S PROVE Rows(M, S, R)[x] \in Nat
  <2>1. SumFunctionOnSet(M[x], R) \in Nat
    <3>1. R \in SUBSET R
      OBVIOUS
    <3> QED
      BY <1>2, <3>1, SumByPick
  <2> QED
    BY <2>1 DEF Rows
<1>5. ASSUME NEW y \in R PROVE Columns(M, S, R)[y] \in Nat
  <2>1. SumFunctionOnSet(Column(M, S, y), S) \in Nat
    <3>1. S \in SUBSET S
      OBVIOUS
    <3> QED
      BY <1>3, <3>1, SumByPick
  <2> QED
    BY <2>1 DEF Columns
<1> QED
  BY <1>1, <1>2, <1>3, <1>4, <1>5 DEF Numbers

LEMMA SumsExchange ==
    ASSUME NEW S, NEW R, NEW M, Table(M, S, R)
    PROVE  SumFunctionOnSet(Rows(M, S, R), S) = SumFunctionOnSet(Columns(M, S, R), R)
<1> DEFINE P == {T \in SUBSET S : SumFunctionOnSet(Rows(M, T, R), T)
                                    = SumFunctionOnSet(Columns(M, T, R), R)}
<1>1. IsFiniteSet(S)
  BY DEF Table
<1>2. \A T \in SUBSET S : Table(M, T, R)
  BY FS_Subset DEF Table
<1>3. ASSUME NEW T \in SUBSET S, \A x \in T : T \ {x} \in P  PROVE T \in P
  <2>0. Table(M, T, R)
    BY <1>2
  <2>1. CASE T = {}
    <3>1. Numbers(Rows(M, T, R), T) /\ Numbers(Columns(M, T, R), R)
      BY <2>0, TableNumbers
    <3>2. SumFunctionOnSet(Rows(M, T, R), T) = 0
      BY <2>1, <3>1, SumByPick
    <3>3. ASSUME NEW y \in R PROVE Columns(M, T, R)[y] = 0
      <4>1. Numbers(Column(M, T, y), T)
        BY <2>0, TableNumbers
      <4>2. SumFunctionOnSet(Column(M, T, y), T) = 0
        BY <2>1, <4>1, SumByPick
      <4> QED
        BY <4>2 DEF Columns
    <3>4. SumFunctionOnSet(Columns(M, T, R), R) = 0
      BY <3>1, <3>3, SumZero
    <3> QED
      BY <3>2, <3>4
  <2>2. ASSUME NEW x \in T  PROVE T \in P
    <3> DEFINE U == T \ {x}
    <3>1. U \in SUBSET S /\ U \in P /\ Table(M, U, R) /\ x \in T
      BY <1>2, <1>3
    <3>2. T \in SUBSET T /\ T \ {x} = U
      OBVIOUS
    <3> HIDE DEF U
    <3>3. Numbers(Rows(M, T, R), T) /\ Numbers(Columns(M, T, R), R) /\ Numbers(M[x], R)
      BY <2>0, TableNumbers
    <3>4. Numbers(Rows(M, U, R), U) /\ Numbers(Columns(M, U, R), R)
      BY <3>1, TableNumbers
    <3>5. SumFunctionOnSet(Rows(M, T, R), T)
            = Rows(M, T, R)[x] + SumFunctionOnSet(Rows(M, T, R), U)
      BY <3>1, <3>2, <3>3, SumSplits
    <3>6. SumFunctionOnSet(Rows(M, T, R), U) = SumFunctionOnSet(Rows(M, U, R), U)
      <4>1. \A z \in U : Rows(M, U, R)[z] = Rows(M, T, R)[z]
        BY DEF Rows, U
      <4> QED
        BY <3>4, <4>1, SumCongruent
    <3>7. Rows(M, T, R)[x] = SumFunctionOnSet(M[x], R)
      BY <3>1 DEF Rows
    <3>8. \A y \in R : Columns(M, T, R)[y] = M[x][y] + Columns(M, U, R)[y]
      <4> SUFFICES ASSUME NEW y \in R
                   PROVE  Columns(M, T, R)[y] = M[x][y] + Columns(M, U, R)[y]
        OBVIOUS
      <4>1. Numbers(Column(M, T, y), T) /\ Numbers(Column(M, U, y), U)
        BY <2>0, <3>1, TableNumbers
      <4>2. SumFunctionOnSet(Column(M, T, y), T)
              = Column(M, T, y)[x] + SumFunctionOnSet(Column(M, T, y), U)
        BY <3>1, <3>2, <4>1, SumSplits
      <4>3. SumFunctionOnSet(Column(M, T, y), U) = SumFunctionOnSet(Column(M, U, y), U)
        <5>1. \A z \in U : Column(M, U, y)[z] = Column(M, T, y)[z]
          BY DEF Column, U
        <5> QED
          BY <4>1, <5>1, SumCongruent
      <4>4. Column(M, T, y)[x] = M[x][y]
        BY <3>1 DEF Column
      <4> QED
        BY <4>2, <4>3, <4>4 DEF Columns
    <3> DEFINE H == [y \in R |-> M[x][y] + Columns(M, U, R)[y]]
    <3>9. SumFunctionOnSet(H, R) = SumFunctionOnSet(M[x], R) + SumFunctionOnSet(Columns(M, U, R), R)
      BY <3>3, <3>4, SumPlus
    <3>10. \A y \in R : Columns(M, T, R)[y] = H[y]
      BY <3>8
    <3> HIDE DEF H
    <3>11. SumFunctionOnSet(Columns(M, T, R), R) = SumFunctionOnSet(H, R)
      BY <3>3, <3>10, SumCongruent
    <3>12. SumFunctionOnSet(Rows(M, U, R), U) = SumFunctionOnSet(Columns(M, U, R), R)
      BY <3>1
    <3>13. SumFunctionOnSet(Rows(M, T, R), T) = SumFunctionOnSet(Columns(M, T, R), R)
      BY <3>5, <3>6, <3>7, <3>9, <3>11, <3>12
    <3> QED
      BY <3>13
  <2> QED
    BY <2>1, <2>2
<1> HIDE DEF P
<1>4. \A T \in SUBSET S : T \in P
  BY <1>1, <1>3, FiniteByStep
<1>5. S \in P
  BY <1>4
<1> QED
  BY <1>5 DEF P

\* As many as there are in the parts, when no two parts have a member in common.
Pieces(Q, S) ==
    /\ IsFiniteSet(S) /\ \A x \in S : IsFiniteSet(Q[x])
    /\ \A x, y \in S : x # y => Q[x] \intersect Q[y] = {}

Sizes(Q, S) == [x \in S |-> Cardinality(Q[x])]

LEMMA PartsAddUp ==
    ASSUME NEW S, NEW Q, Pieces(Q, S)
    PROVE  /\ IsFiniteSet(UNION {Q[x] : x \in S}) /\ Numbers(Sizes(Q, S), S)
           /\ Cardinality(UNION {Q[x] : x \in S}) = SumFunctionOnSet(Sizes(Q, S), S)
<1> DEFINE All(T) == UNION {Q[x] : x \in T}
           F == Sizes(Q, S)
           P == {T \in SUBSET S : IsFiniteSet(All(T)) /\ Cardinality(All(T)) = SumFunctionOnSet(F, T)}
<1>1. IsFiniteSet(S) /\ (\A x \in S : IsFiniteSet(Q[x]) /\ Cardinality(Q[x]) \in Nat)
  BY FS_CardinalityType DEF Pieces
<1>2. \A x \in S : F[x] = Cardinality(Q[x])
  BY DEF Sizes
<1> HIDE DEF F
<1>3. Numbers(F, S)
  BY <1>1, <1>2 DEF Numbers
<1>4. SumFunctionOnSet(F, {}) = 0
  BY <1>3, SumByPick
<1>5. ASSUME NEW T \in SUBSET S, \A x \in T : T \ {x} \in P  PROVE T \in P
  <2>1. CASE T = {}
    <3>1. All(T) = {}
      BY <2>1
    <3> QED
      BY <1>4, <2>1, <3>1, FS_EmptySet
  <2>2. ASSUME NEW x \in T  PROVE T \in P
    <3> DEFINE U == T \ {x}
               A == All(U)
               B == Q[x]
    <3>1. All(T) = A \union B
      OBVIOUS
    <3>2. A \intersect B = {}
      BY DEF Pieces
    <3>3. IsFiniteSet(A) /\ Cardinality(A) = SumFunctionOnSet(F, U)
      BY <1>5
    <3>4. IsFiniteSet(B) /\ F[x] = Cardinality(B)
      BY <1>1, <1>2
    <3>5. SumFunctionOnSet(F, T) = F[x] + SumFunctionOnSet(F, U)
      BY <1>3, SumSplits
    <3> HIDE DEF A, B, U, All
    <3>6. /\ IsFiniteSet(A \union B) /\ Cardinality(A) \in Nat /\ Cardinality(B) \in Nat
          /\ Cardinality(A \union B) = Cardinality(A) + Cardinality(B)
      <4>1. Cardinality(A \intersect B) = 0
        BY <3>2, FS_EmptySet
      <4>2. Cardinality(A) \in Nat /\ Cardinality(B) \in Nat
        BY <3>3, <3>4, FS_CardinalityType
      <4>3. /\ IsFiniteSet(A \union B)
            /\ Cardinality(A \union B)
                 = Cardinality(A) + Cardinality(B) - Cardinality(A \intersect B)
        BY <3>3, <3>4, FS_Union
      <4> QED
        BY <4>1, <4>2, <4>3
    <3>7. IsFiniteSet(All(T)) /\ Cardinality(All(T)) = SumFunctionOnSet(F, T)
      BY <3>1, <3>3, <3>4, <3>5, <3>6
    <3> QED
      BY <3>7
  <2> QED
    BY <2>1, <2>2
<1> HIDE DEF P
<1>6. \A T \in SUBSET S : T \in P
  BY <1>1, <1>5, FiniteByStep
<1>7. S \in P
  BY <1>6
<1> QED
  BY <1>3, <1>7 DEF P, F

-----------------------------------------------------------------------------
(* Counting shortest paths.                                                *)

Searched(g, s, n, met) == Undirected(g) /\ s \in DOMAIN g /\ n \in Nat /\ IsMet(met, g, s, n)

\* Neighbours of one level and the next, seen from either of them.
LEMMA BeforeAndAfter ==
    ASSUME NEW g, NEW s, NEW n, NEW met, Searched(g, s, n, met)
    PROVE  /\ \A x \in DOMAIN g : \A y : y \in Before(g, met, x) <=>
                  y \in g[x] /\ \E i \in 1..n : y \in met[i] /\ x \in met[i + 1]
           /\ \A x \in DOMAIN g : \A y : y \in After(g, met, x) <=>
                  y \in g[x] /\ \E i \in 1..n : x \in met[i] /\ y \in met[i + 1]
           /\ \A x \in DOMAIN g : Before(g, met, x) \subseteq DOMAIN g /\ After(g, met, x) \subseteq DOMAIN g
           /\ \A x, y \in DOMAIN g : y \in After(g, met, x) <=> x \in Before(g, met, y)
<1>1. Undirected(g) /\ IsMet(met, g, s, n) /\ Len(met) - 1 = n
  BY DEF Searched, IsMet
<1>2. \A x \in DOMAIN g : g[x] \subseteq DOMAIN g
  BY <1>1 DEF Undirected
<1>3. \A x \in DOMAIN g : \A y : y \in Before(g, met, x) <=>
                  y \in g[x] /\ \E i \in 1..n : y \in met[i] /\ x \in met[i + 1]
  BY <1>1 DEF Before
<1>4. \A x \in DOMAIN g : \A y : y \in After(g, met, x) <=>
                  y \in g[x] /\ \E i \in 1..n : x \in met[i] /\ y \in met[i + 1]
  BY <1>1 DEF After
<1>5. \A x, y \in DOMAIN g : y \in g[x] <=> x \in g[y]
  BY <1>1 DEF Undirected
<1> QED
  BY <1>2, <1>3, <1>4, <1>5

\* From the source outwards.
LEMMA ByLevel ==
    ASSUME NEW g, NEW s, NEW n, NEW met, Searched(g, s, n, met),
           NEW P, \A x \in DOMAIN g : (\A y \in Before(g, met, x) : y \in P) => x \in P
    PROVE  \A x \in DOMAIN g : x \in P
<1> DEFINE Q == {i \in 0..n : \A x \in DOMAIN g : x \in met[i + 1] => x \in P}
<1>1. n \in Nat /\ Apart(met, n)
  BY AllApart DEF Searched
<1>2. ASSUME NEW x \in DOMAIN g, NEW i \in 0..n, x \in met[i + 1],
             \A y \in DOMAIN g : (i \in 1..n /\ y \in met[i]) => y \in P
      PROVE  x \in P
  <2> SUFFICES ASSUME NEW y \in Before(g, met, x) PROVE y \in P
    OBVIOUS
  <2>1. y \in DOMAIN g
    BY BeforeAndAfter
  <2>2. PICK j \in 1..n : y \in met[j] /\ x \in met[j + 1]
    BY BeforeAndAfter
  <2>3. i + 1 \in 1..(n + 1) /\ j + 1 \in 1..(n + 1)
    BY <1>1
  <2>4. i + 1 = j + 1
    BY <1>1, <1>2, <2>2, <2>3 DEF Apart
  <2>5. i = j
    BY <1>1, <2>4
  <2> QED
    BY <1>2, <2>1, <2>2, <2>5
<1>3. 0 \in Q
  <2>1. 0 \in 0..n /\ 0 \notin 1..n
    BY <1>1
  <2>2. \A x \in DOMAIN g : x \in met[0 + 1] => x \in P
    BY <1>2, <2>1
  <2> QED
    BY <2>1, <2>2
<1>4. ASSUME NEW i \in 1..n, i - 1 \in Q  PROVE i \in Q
  <2>1. (i - 1) + 1 = i /\ i \in 0..n
    BY <1>1
  <2>2. \A y \in DOMAIN g : y \in met[i] => y \in P
    BY <1>4, <2>1
  <2>3. \A x \in DOMAIN g : x \in met[i + 1] => x \in P
    BY <1>2, <2>1, <2>2
  <2> QED
    BY <2>1, <2>3
<1>5. \A i \in 0..n : \A x \in DOMAIN g : x \in met[i + 1] => x \in P
  <2> HIDE DEF Q
  <2>1. \A i \in 0..n : i \in Q
    BY <1>1, <1>3, <1>4, StepByStep
  <2> QED
    BY <2>1 DEF Q
<1>6. ASSUME NEW x \in DOMAIN g, NEW y \in Before(g, met, x)  PROVE y \in P
  <2>1. PICK j \in 1..n : y \in met[j] /\ x \in met[j + 1]
    BY BeforeAndAfter
  <2>2. j - 1 \in 0..n /\ (j - 1) + 1 = j /\ y \in DOMAIN g
    BY <1>1, BeforeAndAfter
  <2> QED
    BY <1>5, <2>1, <2>2
<1> QED
  BY <1>6

\* From the last level back to the source.
LEMMA ByLevelDown ==
    ASSUME NEW g, NEW s, NEW n, NEW met, Searched(g, s, n, met),
           NEW P, \A x \in DOMAIN g : (\A y \in After(g, met, x) : y \in P) => x \in P
    PROVE  \A x \in DOMAIN g : x \in P
<1> DEFINE Q == {i \in 0..n : \A x \in DOMAIN g : x \in met[(n + 1) - i] => x \in P}
<1>1. n \in Nat /\ Apart(met, n)
  BY AllApart DEF Searched
<1>2. ASSUME NEW x \in DOMAIN g, NEW k \in 1..(n + 1), x \in met[k],
             \A y \in DOMAIN g : (k \in 1..n /\ y \in met[k + 1]) => y \in P
      PROVE  x \in P
  <2> SUFFICES ASSUME NEW y \in After(g, met, x) PROVE y \in P
    OBVIOUS
  <2>1. y \in DOMAIN g
    BY BeforeAndAfter
  <2>2. PICK j \in 1..n : x \in met[j] /\ y \in met[j + 1]
    BY BeforeAndAfter
  <2>3. j \in 1..(n + 1)
    BY <1>1
  <2>4. k = j
    BY <1>1, <1>2, <2>2, <2>3 DEF Apart
  <2> QED
    BY <1>2, <2>1, <2>2, <2>4
<1>3. 0 \in Q
  <2>1. (n + 1) - 0 \in 1..(n + 1) /\ (n + 1) - 0 \notin 1..n /\ 0 \in 0..n
    BY <1>1
  <2> DEFINE k == (n + 1) - 0
  <2>2. \A x \in DOMAIN g : x \in met[k] => x \in P
    BY <1>2, <2>1
  <2> QED
    BY <2>1, <2>2
<1>4. ASSUME NEW i \in 1..n, i - 1 \in Q  PROVE i \in Q
  <2> DEFINE k == (n + 1) - i
  <2>1. (n + 1) - (i - 1) = k + 1 /\ k \in 1..(n + 1) /\ i \in 0..n
    BY <1>1
  <2>2. \A y \in DOMAIN g : y \in met[k + 1] => y \in P
    BY <1>4, <2>1
  <2>3. \A x \in DOMAIN g : x \in met[k] => x \in P
    BY <1>2, <2>1, <2>2
  <2> QED
    BY <2>1, <2>3
<1>5. \A i \in 0..n : \A x \in DOMAIN g : x \in met[(n + 1) - i] => x \in P
  <2> HIDE DEF Q
  <2>1. \A i \in 0..n : i \in Q
    BY <1>1, <1>3, <1>4, StepByStep
  <2> QED
    BY <2>1 DEF Q
<1>6. ASSUME NEW x \in DOMAIN g, NEW y \in After(g, met, x)  PROVE y \in P
  <2>1. PICK j \in 1..n : x \in met[j] /\ y \in met[j + 1]
    BY BeforeAndAfter
  <2> DEFINE i == n - j
  <2>2. i \in 0..n /\ (n + 1) - i = j + 1 /\ y \in DOMAIN g
    BY <1>1, BeforeAndAfter
  <2> HIDE DEF i
  <2> QED
    BY <1>5, <2>1, <2>2
<1> QED
  BY <1>6

LEMMA AppendCounts ==
    ASSUME NEW D, NEW Q, Q \subseteq Seq(D), IsFiniteSet(Q), NEW x \in D
    PROVE  /\ IsFiniteSet({Append(q, x) : q \in Q})
           /\ Cardinality({Append(q, x) : q \in Q}) = Cardinality(Q)
<1> DEFINE T == {Append(q, x) : q \in Q}
           F == [q \in Q |-> Append(q, x)]
<1>1. \A p, q \in Q : Append(p, x) = Append(q, x) => p = q
  BY AppendInjective
<1>2. F \in [Q -> T] /\ \A q \in Q : F[q] = Append(q, x)
  OBVIOUS
<1>3. \A y \in T : \E q \in Q : F[q] = y
  BY <1>2
<1> HIDE DEF T, F
<1>4. F \in Bijection(Q, T)
  BY <1>1, <1>2, <1>3 DEF Bijection, Injection, Surjection, IsInjective
<1>5. ExistsBijection(Q, T)
  BY <1>4 DEF ExistsBijection
<1>6. IsFiniteSet(T) /\ Cardinality(T) = Cardinality(Q)
  BY <1>5, FS_Bijection
<1> QED
  BY <1>6 DEF T

\* Paths that go on to x from the nodes before it.
Longer(Q, x) == {Append(q, x) : q \in Q}

Onwards(g, met, Q, x) == UNION {Longer(Q[y], x) : y \in Before(g, met, x)}

\* Some of the shortest paths to each of the nodes before x, finitely many.
Some(g, met, Q, x) ==
    \A y \in Before(g, met, x) : IsFiniteSet(Q[y]) /\ Q[y] \subseteq GeodesicsTo(g, met, y)

LEMMA OnwardsAddUp ==
    ASSUME NEW g, NEW s, NEW n, NEW met, Searched(g, s, n, met), NEW x \in DOMAIN g,
           NEW Q, Some(g, met, Q, x)
    PROVE  /\ IsFiniteSet(Onwards(g, met, Q, x))
           /\ Numbers(Sizes(Q, Before(g, met, x)), Before(g, met, x))
           /\ Cardinality(Onwards(g, met, Q, x))
                = SumFunctionOnSet(Sizes(Q, Before(g, met, x)), Before(g, met, x))
<1> DEFINE B == Before(g, met, x)
           L == [y \in B |-> Longer(Q[y], x)]
<1>1. B \subseteq DOMAIN g /\ IsFiniteSet(B)
  <2>1. B \subseteq DOMAIN g
    BY BeforeAndAfter
  <2> QED
    BY <2>1, FS_Subset DEF Searched, Undirected
<1>2. \A y \in B : IsFiniteSet(Q[y]) /\ Q[y] \subseteq Seq(DOMAIN g) /\ \A q \in Q[y] : Last(q) = y
  BY DEF Some, GeodesicsTo
<1>3. \A y \in B : L[y] = Longer(Q[y], x)
  OBVIOUS
<1>4. Onwards(g, met, Q, x) = UNION {L[y] : y \in B}
  BY DEF Onwards
<1> HIDE DEF B, L
<1>5. ASSUME NEW y \in B
      PROVE  IsFiniteSet(L[y]) /\ Cardinality(L[y]) = Cardinality(Q[y])
  <2>1. IsFiniteSet(Q[y]) /\ Q[y] \subseteq Seq(DOMAIN g)
    BY <1>2
  <2>2. /\ IsFiniteSet({Append(q, x) : q \in Q[y]})
        /\ Cardinality({Append(q, x) : q \in Q[y]}) = Cardinality(Q[y])
    BY <2>1, AppendCounts
  <2> QED
    BY <1>3, <2>2 DEF Longer
<1>6. ASSUME NEW y \in B, NEW z \in B, y # z
      PROVE  L[y] \intersect L[z] = {}
  <2> SUFFICES ASSUME NEW p \in Q[y], NEW q \in Q[z], Append(p, x) = Append(q, x) PROVE FALSE
    BY <1>3 DEF Longer
  <2>1. p = q
    BY <1>2, AppendInjective
  <2> QED
    BY <1>2, <1>6, <2>1
<1>7. Pieces(L, B)
  BY <1>1, <1>5, <1>6 DEF Pieces
<1>8. /\ IsFiniteSet(UNION {L[y] : y \in B}) /\ Numbers(Sizes(L, B), B)
      /\ Cardinality(UNION {L[y] : y \in B}) = SumFunctionOnSet(Sizes(L, B), B)
  BY <1>7, PartsAddUp
<1>9. \A y \in B : Sizes(L, B)[y] = Sizes(Q, B)[y]
  BY <1>5 DEF Sizes
<1>10. /\ SumFunctionOnSet(Sizes(L, B), B) = SumFunctionOnSet(Sizes(Q, B), B)
       /\ Numbers(Sizes(Q, B), B)
  BY <1>8, <1>9, SumCongruent
<1> QED
  BY <1>4, <1>8, <1>10 DEF B

\* The shortest paths to each node.
AllTo(g, met) == [x \in DOMAIN g |-> GeodesicsTo(g, met, x)]

LEMMA GeodesicsGoOn ==
    ASSUME NEW g, NEW s, NEW n, NEW met, Searched(g, s, n, met), NEW x \in DOMAIN g, x # s
    PROVE  GeodesicsTo(g, met, x) = Onwards(g, met, AllTo(g, met), x)
<1>1. GeodesicsTo(g, met, x) = PathsBack(g, met, s, AllTo(g, met), x)
  BY GeodesicsGoBack DEF Searched, AllTo
<1> QED
  BY <1>1 DEF PathsBack, Onwards, Longer

LEMMA NothingBeforeSource ==
    ASSUME NEW g, NEW s, NEW n, NEW met, Searched(g, s, n, met)
    PROVE  s \in DOMAIN g /\ Before(g, met, s) = {} /\ GeodesicsTo(g, met, s) = {<<s>>}
<1>1. s \in DOMAIN g /\ n \in Nat /\ IsMet(met, g, s, n) /\ met[1] = {s} /\ Apart(met, n)
  BY AllApart DEF Searched, IsMet
<1>2. ASSUME NEW y \in Before(g, met, s) PROVE FALSE
  <2>1. PICK i \in 1..n : s \in met[i + 1]
    BY <1>1, BeforeAndAfter
  <2>2. 1 \in 1..(n + 1) /\ i + 1 \in 1..(n + 1) /\ i + 1 # 1 /\ s \in met[1]
    BY <1>1
  <2> QED
    BY <1>1, <2>1, <2>2 DEF Apart
<1> QED
  BY <1>1, <1>2, SourceGeodesics

LEMMA GeodesicsAreFinite ==
    ASSUME NEW g, NEW s, NEW n, NEW met, Searched(g, s, n, met)
    PROVE  \A x \in DOMAIN g : IsFiniteSet(GeodesicsTo(g, met, x))
<1> DEFINE P == {x \in DOMAIN g : IsFiniteSet(GeodesicsTo(g, met, x))}
<1>1. ASSUME NEW x \in DOMAIN g, \A y \in Before(g, met, x) : y \in P  PROVE x \in P
  <2>1. CASE x = s
    <3>1. GeodesicsTo(g, met, s) = {<<s>>}
      BY NothingBeforeSource
    <3>2. IsFiniteSet({<<s>>})
      BY FS_Singleton
    <3> QED
      BY <2>1, <3>1, <3>2
  <2>2. CASE x # s
    <3>1. Some(g, met, AllTo(g, met), x)
      BY <1>1 DEF Some, AllTo
    <3>2. IsFiniteSet(Onwards(g, met, AllTo(g, met), x))
      BY <3>1, OnwardsAddUp
    <3> QED
      BY <2>2, <3>2, GeodesicsGoOn
  <2> QED
    BY <2>1, <2>2
<1> HIDE DEF P
<1>2. \A x \in DOMAIN g : x \in P
  BY <1>1, ByLevel
<1> QED
  BY <1>2 DEF P

HowMany(g, met, x) == Cardinality(GeodesicsTo(g, met, x))

Counts(g, met) == [x \in DOMAIN g |-> HowMany(g, met, x)]

\* As many shortest paths lead to a node as to the nodes before it together.
LEMMA CountsAddUp ==
    ASSUME NEW g, NEW s, NEW n, NEW met, Searched(g, s, n, met), NEW x \in DOMAIN g
    PROVE  /\ Counts(g, met)[x] \in Nat /\ Numbers(Counts(g, met), Before(g, met, x))
           /\ Counts(g, met)[x] = IF x = s THEN 1
                                   ELSE SumFunctionOnSet(Counts(g, met), Before(g, met, x))
<1> DEFINE B == Before(g, met, x)
           C == Counts(g, met)
           A == AllTo(g, met)
<1>1. B \subseteq DOMAIN g
  BY BeforeAndAfter
<1>2. \A y \in DOMAIN g : /\ C[y] = Cardinality(GeodesicsTo(g, met, y)) /\ C[y] \in Nat
                           /\ A[y] = GeodesicsTo(g, met, y) /\ IsFiniteSet(A[y])
  BY GeodesicsAreFinite, FS_CardinalityType DEF Counts, HowMany, AllTo
<1>3. Some(g, met, A, x)
  BY <1>1, <1>2 DEF Some
<1> HIDE DEF A, C
<1>4. /\ Numbers(Sizes(A, B), B)
      /\ Cardinality(Onwards(g, met, A, x)) = SumFunctionOnSet(Sizes(A, B), B)
  BY <1>3, OnwardsAddUp
<1>5. \A y \in B : Sizes(A, B)[y] = C[y]
  BY <1>1, <1>2 DEF Sizes
<1>6. SumFunctionOnSet(Sizes(A, B), B) = SumFunctionOnSet(C, B) /\ Numbers(C, B)
  <2> HIDE DEF B
  <2> QED
    BY <1>4, <1>5, SumCongruent
<1>7. CASE x = s
  <2>1. GeodesicsTo(g, met, s) = {<<s>>}
    BY NothingBeforeSource
  <2>2. Cardinality({<<s>>}) = 1
    BY FS_Singleton
  <2> QED
    BY <1>2, <1>6, <1>7, <2>1, <2>2 DEF C
<1>8. CASE x # s
  <2>1. C[x] = Cardinality(Onwards(g, met, A, x))
    BY <1>2, <1>8, GeodesicsGoOn DEF A
  <2> QED
    BY <1>2, <1>4, <1>6, <1>8, <2>1 DEF C
<1> QED
  BY <1>7, <1>8

-----------------------------------------------------------------------------
(* PathCounts is the number of shortest paths.  Those through a node are   *)
(* counted the same way, from that node on.                                *)

CountingUp(g, met, f) ==
    [x \in DOMAIN g |-> IF x \in met[1] THEN 1 ELSE SumFunctionOnSet(f, Before(g, met, x))]

LEMMA CountsAreUnique ==
    ASSUME NEW g, NEW s, NEW n, NEW met, Searched(g, s, n, met),
           NEW f, f = CountingUp(g, met, f)
    PROVE  f = Counts(g, met)
<1> DEFINE C == Counts(g, met)
           P == {x \in DOMAIN g : C[x] = f[x]}
<1>1. met[1] = {s}
  BY DEF Searched, IsMet
<1>2. \A x \in DOMAIN g : f[x] = IF x = s THEN 1 ELSE SumFunctionOnSet(f, Before(g, met, x))
  BY <1>1 DEF CountingUp
<1>3. \A x \in DOMAIN g : /\ Numbers(C, Before(g, met, x))
                          /\ C[x] = IF x = s THEN 1 ELSE SumFunctionOnSet(C, Before(g, met, x))
  BY CountsAddUp
<1>4. C = [x \in DOMAIN g |-> C[x]] /\ f = [x \in DOMAIN g |-> f[x]]
  BY DEF Counts, CountingUp
<1> HIDE DEF C
<1>5. ASSUME NEW x \in DOMAIN g, \A y \in Before(g, met, x) : y \in P  PROVE x \in P
  <2>1. SumFunctionOnSet(C, Before(g, met, x)) = SumFunctionOnSet(f, Before(g, met, x))
    <3> DEFINE B == Before(g, met, x)
    <3>1. Numbers(C, B) /\ \A y \in B : C[y] = f[y]
      BY <1>3, <1>5
    <3> HIDE DEF B
    <3>2. SumFunctionOnSet(C, B) = SumFunctionOnSet(f, B)
      BY <3>1, SumCongruent
    <3> QED
      BY <3>2 DEF B
  <2> QED
    BY <1>2, <1>3, <2>1
<1> HIDE DEF P
<1>6. \A x \in DOMAIN g : x \in P
  BY <1>5, ByLevel
<1>7. \A x \in DOMAIN g : C[x] = f[x]
  BY <1>6 DEF P
<1>8. C = f
  BY <1>4, <1>7
<1> QED
  BY <1>8 DEF C

\* sigma is the number of shortest paths.
LEMMA PathsCounted ==
    ASSUME NEW g, NEW s, NEW n, NEW met, Searched(g, s, n, met)
    PROVE  PathCounts(g, met) = Counts(g, met)
<1> DEFINE sigma == CHOOSE f : f = CountingUp(g, met, f)
<1>1. PathCounts(g, met) = [x \in DOMAIN g |-> sigma[x]]
  BY DEF PathCounts, CountingUp
<1>2. Counts(g, met) = CountingUp(g, met, Counts(g, met))
  <2>1. met[1] = {s}
    BY DEF Searched, IsMet
  <2>2. \A x \in DOMAIN g :
           Counts(g, met)[x] = IF x = s THEN 1 ELSE SumFunctionOnSet(Counts(g, met), Before(g, met, x))
    BY CountsAddUp
  <2>3. Counts(g, met) = [x \in DOMAIN g |-> Counts(g, met)[x]]
    BY DEF Counts
  <2> DEFINE C == Counts(g, met)
  <2> HIDE DEF C
  <2>4. C = CountingUp(g, met, C)
    BY <2>1, <2>2, <2>3 DEF CountingUp, C
  <2> QED
    BY <2>4 DEF C
<1>3. sigma = CountingUp(g, met, sigma)
  <2>1. \E f : f = CountingUp(g, met, f)
    BY <1>2
  <2> QED
    BY <2>1
<1> HIDE DEF sigma
<1>4. sigma = Counts(g, met)
  BY <1>3, CountsAreUnique
<1>5. Counts(g, met) = [x \in DOMAIN g |-> Counts(g, met)[x]]
  BY DEF Counts
<1> QED
  BY <1>1, <1>4, <1>5

\* The shortest paths to t that lead through m.
Via(g, met, m, t) == {p \in GeodesicsTo(g, met, t) : m \in ToSet(p)}

ViaTo(g, met, m) == [t \in DOMAIN g |-> Via(g, met, m, t)]

LEMMA OneMoreIn ==
    ASSUME NEW D, NEW q \in Seq(D), NEW x \in D
    PROVE  \A m : m \in ToSet(Append(q, x)) <=> m \in ToSet(q) \/ m = x
<1>1. /\ Len(q) \in Nat /\ DOMAIN q = 1..Len(q)
      /\ DOMAIN Append(q, x) = 1..(Len(q) + 1)
      /\ \A i \in 1..Len(q) : Append(q, x)[i] = q[i]
      /\ Append(q, x)[Len(q) + 1] = x
  BY AppendProperties, LenProperties
<1>2. \A i : i \in 1..(Len(q) + 1) <=> i \in 1..Len(q) \/ i = Len(q) + 1
  BY <1>1
<1> QED
  BY <1>1, <1>2 DEF ToSet

\* No path to t leads through somebody who is not met before it.
LEMMA NotVia ==
    ASSUME NEW g, NEW s, NEW n, NEW met, Searched(g, s, n, met),
           NEW i \in 1..(n + 1), NEW j \in 1..(n + 1), j <= i,
           NEW m \in met[i], NEW t \in met[j], m # t
    PROVE  Via(g, met, m, t) = {}
<1>1. n \in Nat /\ Apart(met, n) /\ Len(met) = n + 1
  BY AllApart DEF Searched, IsMet
<1> SUFFICES ASSUME NEW p \in GeodesicsTo(g, met, t), m \in ToSet(p) PROVE FALSE
  BY DEF Via
<1>2. Geodesic(g, met, p) /\ Last(p) = t /\ p \in Seq(DOMAIN g)
  BY DEF GeodesicsTo
<1>3. Len(p) \in 1..(n + 1) /\ t \in met[Len(p)] /\ DOMAIN p = 1..Len(p)
  BY <1>1, <1>2, GeodesicEnds, LenProperties DEF Geodesic
<1>4. PICK k \in 1..Len(p) : p[k] = m
  BY <1>3 DEF ToSet
<1>5. k \in 1..(n + 1) /\ m \in met[k]
  BY <1>1, <1>2, <1>3, <1>4 DEF Geodesic
<1> DEFINE l == Len(p)
<1>6. l \in 1..(n + 1) /\ t \in met[l] /\ k \in 1..l
  BY <1>3
<1> HIDE DEF l
<1>7. k = i /\ l = j
  BY <1>1, <1>5, <1>6 DEF Apart
<1>8. k = l
  BY <1>6, <1>7
<1>9. m = t
  BY <1>2, <1>4, <1>8 DEF Last, l
<1> QED
  BY <1>9

LEMMA ViaItself ==
    ASSUME NEW g, NEW met, NEW m
    PROVE  Via(g, met, m, m) = GeodesicsTo(g, met, m)
<1> SUFFICES ASSUME NEW p \in GeodesicsTo(g, met, m) PROVE m \in ToSet(p)
  BY DEF Via
<1>1. Geodesic(g, met, p) /\ Last(p) = m /\ p \in Seq(DOMAIN g)
  BY DEF GeodesicsTo
<1>2. Len(p) \in Nat \ {0} /\ DOMAIN p = 1..Len(p)
  BY <1>1, GeodesicEnds, LenProperties
<1>3. Len(p) \in DOMAIN p
  BY <1>2
<1> QED
  BY <1>1, <1>3 DEF ToSet, Last

LEMMA ViaGoesOn ==
    ASSUME NEW g, NEW s, NEW n, NEW met, Searched(g, s, n, met),
           NEW m \in DOMAIN g, NEW t \in DOMAIN g, t # m
    PROVE  Via(g, met, m, t) = Onwards(g, met, ViaTo(g, met, m), t)
<1> DEFINE B == Before(g, met, t)
           V == ViaTo(g, met, m)
<1>1. \A p : p \in Onwards(g, met, V, t) <=> \E y \in B : \E q \in V[y] : p = Append(q, t)
  BY DEF Onwards, Longer
<1>2. CASE t = s
  <2>1. B = {} /\ GeodesicsTo(g, met, s) = {<<s>>}
    BY <1>2, NothingBeforeSource
  <2>2. m \notin ToSet(<<s>>)
    BY <1>2 DEF ToSet
  <2>3. Via(g, met, m, t) = {}
    BY <1>2, <2>1, <2>2 DEF Via
  <2> HIDE DEF B, V
  <2>4. Onwards(g, met, V, t) = {}
    BY <1>1, <2>1
  <2> QED
    BY <2>3, <2>4 DEF V
<1>3. CASE t # s
  <2>1. GeodesicsTo(g, met, t) = Onwards(g, met, AllTo(g, met), t)
    BY <1>3, GeodesicsGoOn
  <2>2. B \subseteq DOMAIN g
    BY BeforeAndAfter
  <2>3. \A y \in B : AllTo(g, met)[y] = GeodesicsTo(g, met, y) /\ V[y] = Via(g, met, m, y)
    BY <2>2 DEF AllTo, ViaTo
  <2>4. \A p : p \in GeodesicsTo(g, met, t) <=>
               \E y \in B : \E q \in GeodesicsTo(g, met, y) : p = Append(q, t)
    BY <2>1, <2>3 DEF Onwards, Longer
  <2>5. \A y \in B : \A q \in GeodesicsTo(g, met, y) : m \in ToSet(Append(q, t)) <=> m \in ToSet(q)
    <3> SUFFICES ASSUME NEW y \in B, NEW q \in GeodesicsTo(g, met, y)
                 PROVE  m \in ToSet(Append(q, t)) <=> m \in ToSet(q)
      OBVIOUS
    <3>1. q \in Seq(DOMAIN g)
      BY DEF GeodesicsTo
    <3> QED
      BY <3>1, OneMoreIn
  <2> HIDE DEF B, V
  <2>6. \A p : p \in Via(g, met, m, t) <=> \E y \in B : \E q \in V[y] : p = Append(q, t)
    <3>1. \A y \in B : \A q : q \in V[y] <=> q \in GeodesicsTo(g, met, y) /\ m \in ToSet(q)
      BY <2>3 DEF Via
    <3>2. \A p : p \in Via(g, met, m, t) <=> p \in GeodesicsTo(g, met, t) /\ m \in ToSet(p)
      BY DEF Via
    <3> SUFFICES ASSUME NEW p
                 PROVE  p \in Via(g, met, m, t) <=> \E y \in B : \E q \in V[y] : p = Append(q, t)
      OBVIOUS
    <3>3. ASSUME p \in Via(g, met, m, t)  PROVE \E y \in B : \E q \in V[y] : p = Append(q, t)
      BY <2>4, <2>5, <3>1, <3>2, <3>3, Zenon
    <3>4. ASSUME NEW y \in B, NEW q \in V[y], p = Append(q, t)  PROVE p \in Via(g, met, m, t)
      BY <2>4, <2>5, <3>1, <3>2, <3>4, Zenon
    <3> QED
      BY <3>3, <3>4
  <2>7. Via(g, met, m, t) = Onwards(g, met, V, t)
    <3>1. \A p : p \in Via(g, met, m, t) <=> p \in Onwards(g, met, V, t)
      BY <1>1, <2>6
    <3> QED
      BY <3>1
  <2> QED
    BY <2>7 DEF V
<1> QED
  BY <1>2, <1>3

ViaCounts(g, met, m) == [t \in DOMAIN g |-> Cardinality(Via(g, met, m, t))]

LEMMA ViaAddsUp ==
    ASSUME NEW g, NEW s, NEW n, NEW met, Searched(g, s, n, met),
           NEW m \in DOMAIN g, NEW t \in DOMAIN g
    PROVE  /\ ViaCounts(g, met, m)[t] \in Nat
           /\ Numbers(ViaCounts(g, met, m), Before(g, met, t))
           /\ ViaCounts(g, met, m)[t] = IF t = m THEN Counts(g, met)[m]
                                        ELSE SumFunctionOnSet(ViaCounts(g, met, m), Before(g, met, t))
<1> DEFINE B == Before(g, met, t)
           C == ViaCounts(g, met, m)
           V == ViaTo(g, met, m)
<1>1. B \subseteq DOMAIN g
  BY BeforeAndAfter
<1>2. \A y \in DOMAIN g : IsFiniteSet(Via(g, met, m, y)) /\ Via(g, met, m, y) \subseteq GeodesicsTo(g, met, y)
  BY GeodesicsAreFinite, FS_Subset DEF Via
<1>3. \A y \in DOMAIN g : /\ C[y] = Cardinality(Via(g, met, m, y)) /\ C[y] \in Nat
                          /\ V[y] = Via(g, met, m, y)
  BY <1>2, FS_CardinalityType DEF ViaCounts, ViaTo
<1>4. Some(g, met, V, t)
  BY <1>1, <1>2, <1>3 DEF Some
<1> HIDE DEF V, C
<1>5. /\ Numbers(Sizes(V, B), B)
      /\ Cardinality(Onwards(g, met, V, t)) = SumFunctionOnSet(Sizes(V, B), B)
  BY <1>4, OnwardsAddUp
<1>6. \A y \in B : Sizes(V, B)[y] = C[y]
  BY <1>1, <1>3 DEF Sizes
<1>7. SumFunctionOnSet(Sizes(V, B), B) = SumFunctionOnSet(C, B) /\ Numbers(C, B)
  <2> HIDE DEF B
  <2> QED
    BY <1>5, <1>6, SumCongruent
<1>8. CASE t = m
  BY <1>3, <1>7, <1>8, ViaItself DEF C, Counts, HowMany
<1>9. CASE t # m
  <2>1. C[t] = Cardinality(Onwards(g, met, V, t))
    BY <1>3, <1>9, ViaGoesOn DEF V
  <2> QED
    BY <1>3, <1>5, <1>7, <1>9, <2>1 DEF C
<1> QED
  BY <1>8, <1>9

-----------------------------------------------------------------------------
(* The shortest paths through m to t are those to m, times the ways from m *)
(* further to t.                                                           *)

LEMMA Cancels ==
    ASSUME NEW a \in Nat, NEW b \in Nat, NEW c \in Nat, c # 0, c * a = c * b
    PROVE  a = b
<1>1. ASSUME NEW x \in Nat, NEW y \in Nat, x < y  PROVE c * x < c * y
  <2>1. PICK d \in Nat : y = x + d /\ d # 0
    BY <1>1
  <2>2. c * y = c * x + c * d
    BY <2>1
  <2>3. c * d >= c
    BY <2>1
  <2>4. c * x \in Nat /\ c * d \in Nat
    OBVIOUS
  <2> QED
    BY <2>2, <2>3, <2>4
<1>2. ~(a < b)
  <2>1. a < b => c * a < c * b
    BY <1>1
  <2>2. c * a \in Nat
    OBVIOUS
  <2> QED
    BY <2>1, <2>2
<1>3. ~(b < a)
  <2>1. b < a => c * b < c * a
    BY <1>1
  <2>2. c * a \in Nat
    OBVIOUS
  <2> QED
    BY <2>1, <2>2
<1> QED
  BY <1>2, <1>3

LEMMA SumOfOne ==
    ASSUME NEW S, NEW F, Numbers(F, S), NEW x \in S, \A y \in S : y # x => F[y] = 0
    PROVE  SumFunctionOnSet(F, S) = F[x]
<1>1. {x} \in SUBSET S /\ \A y \in S \ {x} : F[y] = 0
  OBVIOUS
<1>2. SumFunctionOnSet(F, S) = SumFunctionOnSet(F, {x})
  BY <1>1, SumOfRest
<1>3. SumFunctionOnSet(F, {x}) = F[x] + SumFunctionOnSet(F, {x} \ {x})
  BY <1>1, SumSplits
<1>4. {x} \ {x} = {} /\ SumFunctionOnSet(F, {}) = 0 /\ F[x] \in Nat
  BY SumByPick DEF Numbers
<1> QED
  BY <1>2, <1>3, <1>4

Reached(met, n, x) == \E i \in 1..(n + 1) : x \in met[i]

\* Whoever is met has a shortest path.
LEMMA ReachedHasPaths ==
    ASSUME NEW g, NEW s, NEW n, NEW met, Searched(g, s, n, met),
           NEW t \in DOMAIN g, Reached(met, n, t)
    PROVE  Counts(g, met)[t] # 0
<1> DEFINE C == Counts(g, met)
           P == {x \in DOMAIN g : Reached(met, n, x) => C[x] # 0}
<1>1. n \in Nat /\ Undirected(g) /\ met[1] = {s} /\ (\A i \in 1..n : met[i + 1] = Fresh(g, met, i))
      /\ \A i \in 1..(n + 1) : met[i] \subseteq DOMAIN g
  <2>1. met \in Seq(SUBSET DOMAIN g) /\ Len(met) = n + 1
    BY DEF Searched, IsMet
  <2>2. \A i \in 1..(n + 1) : met[i] \in SUBSET DOMAIN g
    BY <2>1, ElementOfSeq
  <2> QED
    BY <2>2 DEF Searched, IsMet
<1>2. \A x \in DOMAIN g : /\ C[x] \in Nat /\ Numbers(C, Before(g, met, x))
                          /\ C[x] = IF x = s THEN 1 ELSE SumFunctionOnSet(C, Before(g, met, x))
  BY CountsAddUp
<1> HIDE DEF C
<1>3. ASSUME NEW x \in DOMAIN g, \A y \in Before(g, met, x) : y \in P  PROVE x \in P
  <2> SUFFICES ASSUME Reached(met, n, x), x # s PROVE C[x] # 0
    BY <1>2
  <2>1. PICK i \in 1..(n + 1) : x \in met[i]
    BY DEF Reached
  <2>2. i # 1
    BY <1>1, <2>1
  <2>3. i - 1 \in 1..n /\ (i - 1) + 1 = i /\ i - 1 \in 1..(n + 1)
    BY <1>1, <2>2
  <2>4. x \in Fresh(g, met, i - 1)
    BY <1>1, <2>1, <2>3
  <2>5. PICK y \in met[i - 1] : x \in g[y]
    BY <2>4 DEF Fresh
  <2>6. y \in DOMAIN g /\ y \in g[x]
    BY <1>1, <2>3, <2>5 DEF Undirected
  <2>7. y \in Before(g, met, x)
    BY <2>1, <2>3, <2>5, <2>6, BeforeAndAfter
  <2>8. Reached(met, n, y)
    BY <2>3, <2>5 DEF Reached
  <2>9. C[y] # 0
    BY <1>3, <2>7, <2>8
  <2>10. SumFunctionOnSet(C, Before(g, met, x)) # 0
    BY <1>2, <2>7, <2>9, SumZero
  <2> QED
    BY <1>2, <2>10
<1> HIDE DEF P
<1>4. \A x \in DOMAIN g : x \in P
  BY <1>3, ByLevel
<1> QED
  BY <1>4 DEF P, C

\* A path to t through m is a path to m that goes on to t: the second factor.
FurtherTo(g, met, m) ==
    [t \in DOMAIN g |-> CHOOSE k \in Nat : ViaCounts(g, met, m)[t] = Counts(g, met)[m] * k]

LEMMA FurtherExists ==
    ASSUME NEW g, NEW s, NEW n, NEW met, Searched(g, s, n, met), NEW m \in DOMAIN g
    PROVE  \A t \in DOMAIN g : /\ FurtherTo(g, met, m)[t] \in Nat
                               /\ ViaCounts(g, met, m)[t] = Counts(g, met)[m] * FurtherTo(g, met, m)[t]
<1> DEFINE V == ViaCounts(g, met, m)
           c == Counts(g, met)[m]
           P == {t \in DOMAIN g : \E k \in Nat : V[t] = c * k}
<1>1. c \in Nat
  BY CountsAddUp
<1>2. \A t \in DOMAIN g : /\ V[t] \in Nat /\ Numbers(V, Before(g, met, t))
                          /\ V[t] = IF t = m THEN c ELSE SumFunctionOnSet(V, Before(g, met, t))
  BY ViaAddsUp
<1> HIDE DEF V, c
<1>3. ASSUME NEW t \in DOMAIN g, \A y \in Before(g, met, t) : y \in P  PROVE t \in P
  <2>1. CASE t = m
    <3>1. V[t] = c * 1
      BY <1>1, <1>2, <2>1
    <3> QED
      BY <3>1
  <2>2. CASE t # m
    <3> DEFINE B == Before(g, met, t)
               K == [y \in B |-> CHOOSE k \in Nat : V[y] = c * k]
               H == [y \in B |-> c * K[y]]
    <3>1. \A y \in B : K[y] \in Nat /\ V[y] = c * K[y]
      BY <1>3
    <3>2. Numbers(V, B) /\ V[t] = SumFunctionOnSet(V, B)
      BY <1>2, <2>2
    <3> HIDE DEF B, K
    <3>3. Numbers(K, B)
      BY <3>1, <3>2 DEF Numbers
    <3>4. Numbers(H, B) /\ SumFunctionOnSet(H, B) = c * SumFunctionOnSet(K, B)
      BY <1>1, <3>3, SumScaled
    <3>5. \A y \in B : V[y] = H[y]
      BY <3>1
    <3> HIDE DEF H
    <3>6. SumFunctionOnSet(V, B) = SumFunctionOnSet(H, B)
      BY <3>2, <3>5, SumCongruent
    <3>7. SumFunctionOnSet(K, B) \in Nat
      <4>1. B \in SUBSET B
        OBVIOUS
      <4> QED
        BY <3>3, <4>1, SumByPick
    <3>8. V[t] = c * SumFunctionOnSet(K, B)
      BY <3>2, <3>4, <3>6
    <3> QED
      BY <3>7, <3>8
  <2> QED
    BY <2>1, <2>2
<1> HIDE DEF P
<1>4. \A t \in DOMAIN g : t \in P
  BY <1>3, ByLevel
<1>5. ASSUME NEW t \in DOMAIN g
      PROVE  FurtherTo(g, met, m)[t] \in Nat /\ V[t] = c * FurtherTo(g, met, m)[t]
  <2>1. \E k \in Nat : V[t] = c * k
    BY <1>4 DEF P
  <2>2. FurtherTo(g, met, m)[t] = CHOOSE k \in Nat : V[t] = c * k
    BY DEF FurtherTo, V, c
  <2> QED
    BY <2>1, <2>2
<1> QED
  BY <1>5 DEF V, c

LEMMA FurtherAddsUp ==
    ASSUME NEW g, NEW s, NEW n, NEW met, Searched(g, s, n, met),
           NEW m \in DOMAIN g, Reached(met, n, m), NEW t \in DOMAIN g
    PROVE  /\ Numbers(FurtherTo(g, met, m), Before(g, met, t))
           /\ FurtherTo(g, met, m)[t] = IF t = m THEN 1
                                        ELSE SumFunctionOnSet(FurtherTo(g, met, m), Before(g, met, t))
<1> DEFINE V == ViaCounts(g, met, m)
           c == Counts(g, met)[m]
           F == FurtherTo(g, met, m)
           B == Before(g, met, t)
           H == [y \in B |-> c * F[y]]
<1>1. c \in Nat /\ c # 0
  BY CountsAddUp, ReachedHasPaths
<1>2. \A y \in DOMAIN g : F[y] \in Nat /\ V[y] = c * F[y]
  BY FurtherExists
<1>3. Numbers(V, B) /\ V[t] = IF t = m THEN c ELSE SumFunctionOnSet(V, B)
  BY ViaAddsUp
<1>4. B \subseteq DOMAIN g
  BY BeforeAndAfter
<1> HIDE DEF V, c, F, B
<1>5. Numbers(F, B)
  BY <1>2, <1>3, <1>4 DEF Numbers
<1>6. Numbers(H, B) /\ SumFunctionOnSet(H, B) = c * SumFunctionOnSet(F, B)
  BY <1>1, <1>5, SumScaled
<1>7. SumFunctionOnSet(V, B) = SumFunctionOnSet(H, B)
  <2>1. \A y \in B : V[y] = H[y]
    BY <1>2, <1>4
  <2> HIDE DEF H
  <2> QED
    BY <1>3, <2>1, SumCongruent
<1>8. SumFunctionOnSet(F, B) \in Nat
  <2>1. B \in SUBSET B
    OBVIOUS
  <2> QED
    BY <1>5, <2>1, SumByPick
<1>9. CASE t = m
  <2>1. c * F[t] = c * 1
    BY <1>1, <1>2, <1>3, <1>9
  <2>2. F[t] = 1
    BY <1>1, <1>2, <2>1, Cancels
  <2> QED
    BY <1>5, <1>9, <2>2 DEF F, B
<1>10. CASE t # m
  <2>1. c * F[t] = c * SumFunctionOnSet(F, B)
    BY <1>2, <1>3, <1>6, <1>7, <1>10
  <2>2. F[t] = SumFunctionOnSet(F, B)
    BY <1>1, <1>2, <1>8, <2>1, Cancels
  <2> QED
    BY <1>5, <1>10, <2>2 DEF F, B
<1> QED
  BY <1>9, <1>10

LEMMA NotFurther ==
    ASSUME NEW g, NEW s, NEW n, NEW met, Searched(g, s, n, met),
           NEW i \in 1..(n + 1), NEW j \in 1..(n + 1), j <= i,
           NEW m \in DOMAIN g, m \in met[i], NEW t \in DOMAIN g, t \in met[j], m # t
    PROVE  FurtherTo(g, met, m)[t] = 0
<1>1. Via(g, met, m, t) = {}
  BY NotVia
<1>2. ViaCounts(g, met, m)[t] = 0
  BY <1>1, FS_EmptySet DEF ViaCounts
<1> DEFINE c == Counts(g, met)[m]
           f == FurtherTo(g, met, m)[t]
<1>3. c \in Nat /\ c # 0
  <2>1. Reached(met, n, m)
    BY DEF Reached
  <2> QED
    BY <2>1, CountsAddUp, ReachedHasPaths
<1>4. f \in Nat /\ c * f = 0
  BY <1>2, FurtherExists
<1> HIDE DEF c, f
<1>5. c * f = c * 0
  BY <1>3, <1>4
<1>6. f = 0
  BY <1>3, <1>4, <1>5, Cancels
<1> QED
  BY <1>6 DEF f

\* What leads from each node after m to where.
FromAfter(g, met, m) == [y \in After(g, met, m) |-> FurtherTo(g, met, y)]

LEMMA AfterIsReached ==
    ASSUME NEW g, NEW s, NEW n, NEW met, Searched(g, s, n, met),
           NEW m \in DOMAIN g, NEW y \in After(g, met, m)
    PROVE  \E i \in 1..n : /\ i \in 1..(n + 1) /\ i + 1 \in 1..(n + 1) /\ i <= i + 1
                           /\ m \in met[i] /\ y \in met[i + 1] /\ y \in DOMAIN g /\ m # y
                           /\ Reached(met, n, m) /\ Reached(met, n, y)
<1>1. n \in Nat /\ Apart(met, n)
  BY AllApart DEF Searched
<1>2. PICK i \in 1..n : m \in met[i] /\ y \in met[i + 1]
  BY BeforeAndAfter
<1>3. i \in 1..(n + 1) /\ i + 1 \in 1..(n + 1) /\ i <= i + 1 /\ i # i + 1
  BY <1>1
<1>4. m # y
  BY <1>1, <1>2, <1>3 DEF Apart
<1> QED
  BY <1>2, <1>3, <1>4, BeforeAndAfter DEF Reached

\* Paths go on through exactly one of the nodes after m.
LEMMA FurtherThroughNext ==
    ASSUME NEW g, NEW s, NEW n, NEW met, Searched(g, s, n, met),
           NEW m \in DOMAIN g, Reached(met, n, m), NEW t \in DOMAIN g, t # m
    PROVE  FurtherTo(g, met, m)[t]
             = SumFunctionOnSet(Column(FromAfter(g, met, m), After(g, met, m), t), After(g, met, m))
<1> DEFINE A == After(g, met, m)
           M == FromAfter(g, met, m)
           F == FurtherTo(g, met, m)
           P == {x \in DOMAIN g : x # m => F[x] = SumFunctionOnSet(Column(M, A, x), A)}
<1>1. n \in Nat /\ Apart(met, n) /\ IsFiniteSet(DOMAIN g)
  BY AllApart DEF Searched, Undirected
<1>2. A \subseteq DOMAIN g /\ IsFiniteSet(A)
  BY <1>1, BeforeAndAfter, FS_Subset
<1>3. ASSUME NEW y \in A
      PROVE  /\ M[y] = FurtherTo(g, met, y)
             /\ \A x \in DOMAIN g : M[y][x] \in Nat
             /\ \A x \in DOMAIN g : /\ Numbers(M[y], Before(g, met, x))
                                    /\ M[y][x] = IF x = y THEN 1
                                                 ELSE SumFunctionOnSet(M[y], Before(g, met, x))
  <2>1. M[y] = FurtherTo(g, met, y)
    BY DEF FromAfter
  <2>2. Reached(met, n, y) /\ y \in DOMAIN g
    BY AfterIsReached
  <2> QED
    BY <2>1, <2>2, FurtherExists, FurtherAddsUp
<1>4. ASSUME NEW x \in DOMAIN g, x # m, \A z \in Before(g, met, x) : z \in P
      PROVE  F[x] = SumFunctionOnSet(Column(M, A, x), A)
  <2> DEFINE B == Before(g, met, x)
             K == Column(M, A, x)
  <2>1. B \subseteq DOMAIN g /\ IsFiniteSet(B)
    BY <1>1, BeforeAndAfter, FS_Subset
  <2>2. Numbers(F, B) /\ F[x] = SumFunctionOnSet(F, B)
    BY <1>4, FurtherAddsUp
  <2>3. \A y \in A : K[y] = M[y][x]
    BY DEF Column
  <2>4. Numbers(K, A)
    BY <1>2, <1>3, <2>3 DEF Numbers
  <2>5. CASE m \in B
    <3>1. x \in A
      BY <2>5, BeforeAndAfter
    <3>2. PICK i \in 1..n : /\ i \in 1..(n + 1) /\ i + 1 \in 1..(n + 1)
                            /\ m \in met[i] /\ x \in met[i + 1]
      BY <3>1, AfterIsReached
    <3>3. ASSUME NEW z \in B, z # m  PROVE F[z] = 0
      <4>1. PICK j \in 1..n : z \in met[j] /\ x \in met[j + 1]
        BY BeforeAndAfter
      <4>2. j + 1 \in 1..(n + 1) /\ j \in 1..(n + 1)
        BY <1>1
      <4>3. i + 1 = j + 1
        BY <1>1, <3>2, <4>1, <4>2 DEF Apart
      <4>4. i = j /\ i <= i
        BY <4>3
      <4> QED
        BY <2>1, <3>2, <3>3, <4>1, <4>4, NotFurther
    <3>4. SumFunctionOnSet(F, B) = F[m]
      <4> HIDE DEF F, B
      <4> QED
        BY <2>2, <2>5, <3>3, SumOfOne
    <3>5. F[m] = 1
      BY FurtherAddsUp
    <3>6. ASSUME NEW y \in A, y # x  PROVE K[y] = 0
      <4>1. PICK j \in 1..n : /\ j \in 1..(n + 1) /\ j + 1 \in 1..(n + 1)
                              /\ m \in met[j] /\ y \in met[j + 1] /\ y \in DOMAIN g
        BY AfterIsReached
      <4>2. i = j
        BY <1>1, <3>2, <4>1 DEF Apart
      <4>3. i + 1 <= i + 1
        BY <3>2
      <4>4. FurtherTo(g, met, y)[x] = 0
        BY <3>2, <3>6, <4>1, <4>2, <4>3, NotFurther
      <4> QED
        BY <1>3, <2>3, <4>4
    <3>7. SumFunctionOnSet(K, A) = K[x]
      <4> HIDE DEF K, A
      <4> QED
        BY <2>4, <3>1, <3>6, SumOfOne
    <3>8. K[x] = 1
      BY <1>3, <2>3, <3>1
    <3> QED
      BY <2>2, <3>4, <3>5, <3>7, <3>8
  <2>6. CASE m \notin B
    <3>1. \A y \in A : y # x
      BY <1>2, <2>6, BeforeAndAfter
    <3>2. \A z \in B : z # m /\ F[z] = SumFunctionOnSet(Column(M, A, z), A)
      BY <1>4, <2>6
    <3>3. \A y \in A : K[y] = SumFunctionOnSet(M[y], B)
      BY <1>3, <2>3, <3>1
    <3>4. Table(M, A, B)
      BY <1>2, <1>3, <2>1 DEF Table
    <3> HIDE DEF A, B, M, F, K
    <3>5. SumFunctionOnSet(Rows(M, A, B), A) = SumFunctionOnSet(Columns(M, A, B), B)
      BY <3>4, SumsExchange
    <3>6. SumFunctionOnSet(K, A) = SumFunctionOnSet(Rows(M, A, B), A)
      <4>1. \A y \in A : K[y] = Rows(M, A, B)[y]
        BY <3>3 DEF Rows
      <4> QED
        BY <2>4, <4>1, SumCongruent
    <3>7. SumFunctionOnSet(F, B) = SumFunctionOnSet(Columns(M, A, B), B)
      <4>1. \A z \in B : F[z] = Columns(M, A, B)[z]
        BY <3>2 DEF Columns
      <4> QED
        BY <2>2, <4>1, SumCongruent
    <3> QED
      BY <2>2, <3>5, <3>6, <3>7 DEF K
  <2> QED
    BY <2>5, <2>6
<1> HIDE DEF A, M, F
<1>5. ASSUME NEW x \in DOMAIN g, \A z \in Before(g, met, x) : z \in P  PROVE x \in P
  BY <1>4, <1>5
<1> HIDE DEF P
<1>6. \A x \in DOMAIN g : x \in P
  BY <1>5, ByLevel
<1>7. F[t] = SumFunctionOnSet(Column(M, A, t), A)
  BY <1>6 DEF P
<1> QED
  BY <1>7 DEF F, M, A

-----------------------------------------------------------------------------
(* A path to t is worth 1 / (the paths to t), in units.  What the paths    *)
(* further from m are worth is what those from the next nodes are.         *)

LEMMA Divided ==
    ASSUME NEW a \in Nat, a # 0, NEW k \in Nat
    PROVE  (k * a) \div a = k
<1> DEFINE q == (k * a) \div a
           r == (k * a) % a
<1>1. k * a \in Nat
  OBVIOUS
<1>2. q \in Int /\ r \in 0..(a - 1) /\ k * a = a * q + r
  BY <1>1
<1> HIDE DEF q, r
<1>3. r = a * (k - q)
  BY <1>2
<1>4. ~(k - q > 0)
  <2>1. k - q > 0 => a * (k - q) >= a
    BY <1>2
  <2> QED
    BY <1>2, <1>3, <2>1
<1>5. ~(k - q < 0)
  <2>1. k - q < 0 => a * (k - q) < 0
    BY <1>2
  <2> QED
    BY <1>2, <1>3, <2>1
<1>6. q = k
  BY <1>2, <1>4, <1>5
<1> QED
  BY <1>6 DEF q

\* Shares of a path are whole: Unit is a multiple of how many there are.
Divides(g, met) ==
    \A t \in DOMAIN g : Counts(g, met)[t] # 0 => \E k \in Nat : Unit = k * Counts(g, met)[t]

PerPath(g, met) ==
    [t \in DOMAIN g |-> IF Counts(g, met)[t] = 0 THEN 0
                        ELSE CHOOSE k \in Nat : Unit = k * Counts(g, met)[t]]

LEMMA PerPathDivides ==
    ASSUME NEW g, NEW met, Divides(g, met), NEW t \in DOMAIN g
    PROVE  /\ PerPath(g, met)[t] \in Nat
           /\ Counts(g, met)[t] = 0 => PerPath(g, met)[t] = 0
           /\ Counts(g, met)[t] # 0 => Unit = PerPath(g, met)[t] * Counts(g, met)[t]
<1>1. PerPath(g, met)[t] = IF Counts(g, met)[t] = 0 THEN 0
                           ELSE CHOOSE k \in Nat : Unit = k * Counts(g, met)[t]
  BY DEF PerPath
<1>2. Counts(g, met)[t] # 0 => \E k \in Nat : Unit = k * Counts(g, met)[t]
  BY DEF Divides
<1> QED
  BY <1>1, <1>2

Worth(g, met, m) == [t \in DOMAIN g |-> PerPath(g, met)[t] * FurtherTo(g, met, m)[t]]

Total(g, met, m) == SumFunctionOnSet(Worth(g, met, m), DOMAIN g \ {m})

LEMMA WorthIsNumbers ==
    ASSUME NEW g, NEW s, NEW n, NEW met, Searched(g, s, n, met), Divides(g, met),
           NEW m \in DOMAIN g
    PROVE  /\ Numbers(Worth(g, met, m), DOMAIN g) /\ Total(g, met, m) \in Nat
           /\ \A t \in DOMAIN g :
                 Worth(g, met, m)[t] = PerPath(g, met)[t] * FurtherTo(g, met, m)[t]
<1>1. \A t \in DOMAIN g : PerPath(g, met)[t] \in Nat /\ FurtherTo(g, met, m)[t] \in Nat
  BY PerPathDivides, FurtherExists
<1>2. \A t \in DOMAIN g : Worth(g, met, m)[t] = PerPath(g, met)[t] * FurtherTo(g, met, m)[t]
  BY DEF Worth
<1>3. Numbers(Worth(g, met, m), DOMAIN g)
  <2>1. \A t \in DOMAIN g : Worth(g, met, m)[t] \in Nat
    BY <1>1, <1>2
  <2> QED
    BY <2>1 DEF Numbers, Searched, Undirected
<1>4. DOMAIN g \ {m} \in SUBSET DOMAIN g
  OBVIOUS
<1>5. Total(g, met, m) \in Nat
  BY <1>3, <1>4, SumByPick DEF Total
<1> QED
  BY <1>2, <1>3, <1>5

\* What goes through m goes through the nodes after it, and ends there or goes on.
NextTotals(g, met, m) ==
    [y \in After(g, met, m) |-> PerPath(g, met)[y] + Total(g, met, y)]

LEMMA TotalThroughNext ==
    ASSUME NEW g, NEW s, NEW n, NEW met, Searched(g, s, n, met), Divides(g, met),
           NEW m \in DOMAIN g, Reached(met, n, m)
    PROVE  /\ Numbers(NextTotals(g, met, m), After(g, met, m))
           /\ Total(g, met, m) = SumFunctionOnSet(NextTotals(g, met, m), After(g, met, m))
<1> DEFINE A == After(g, met, m)
           R == DOMAIN g \ {m}
           M == FromAfter(g, met, m)
           N == [y \in A |-> Worth(g, met, y)]
           W == PerPath(g, met)
           H == NextTotals(g, met, m)
           V == Worth(g, met, m)
<1>1. IsFiniteSet(DOMAIN g) /\ IsFiniteSet(R) /\ R \subseteq DOMAIN g
  BY FS_Subset DEF Searched, Undirected
<1>2. A \subseteq DOMAIN g /\ IsFiniteSet(A)
  BY <1>1, BeforeAndAfter, FS_Subset
<1>3. \A t \in DOMAIN g : W[t] \in Nat
  BY PerPathDivides
<1>4. \A y \in A : N[y] = Worth(g, met, y) /\ M[y] = FurtherTo(g, met, y)
  BY DEF FromAfter
<1>5. \A y \in A : /\ Numbers(N[y], DOMAIN g) /\ Total(g, met, y) \in Nat
                   /\ \A t \in DOMAIN g : N[y][t] = W[t] * M[y][t] /\ N[y][t] \in Nat /\ M[y][t] \in Nat
  <2> SUFFICES ASSUME NEW y \in A
               PROVE  /\ Numbers(N[y], DOMAIN g) /\ Total(g, met, y) \in Nat
                      /\ \A t \in DOMAIN g : N[y][t] = W[t] * M[y][t] /\ N[y][t] \in Nat /\ M[y][t] \in Nat
    OBVIOUS
  <2>1. y \in DOMAIN g
    BY <1>2
  <2>2. /\ Numbers(Worth(g, met, y), DOMAIN g) /\ Total(g, met, y) \in Nat
        /\ \A t \in DOMAIN g : Worth(g, met, y)[t] = W[t] * FurtherTo(g, met, y)[t]
    BY <2>1, WorthIsNumbers
  <2>3. \A t \in DOMAIN g : FurtherTo(g, met, y)[t] \in Nat
    BY <2>1, FurtherExists
  <2>4. N[y] = Worth(g, met, y) /\ M[y] = FurtherTo(g, met, y)
    BY <1>4
  <2> HIDE DEF N, M
  <2> QED
    BY <2>2, <2>3, <2>4 DEF Numbers
<1>6. /\ Numbers(V, DOMAIN g) /\ Total(g, met, m) = SumFunctionOnSet(V, R)
      /\ \A t \in DOMAIN g : V[t] = W[t] * FurtherTo(g, met, m)[t]
  <2>1. Total(g, met, m) = SumFunctionOnSet(V, R)
    BY DEF Total
  <2>2. Numbers(V, DOMAIN g) /\ \A t \in DOMAIN g : V[t] = W[t] * FurtherTo(g, met, m)[t]
    BY WorthIsNumbers
  <2> QED
    BY <2>1, <2>2
<1>7. \A y \in A : H[y] = W[y] + Total(g, met, y)
  BY DEF NextTotals
<1>8. Numbers(H, A)
  <2>1. \A y \in A : H[y] \in Nat
    BY <1>2, <1>3, <1>5, <1>7
  <2> QED
    BY <1>2, <2>1 DEF Numbers
<1>9. Table(N, A, R)
  BY <1>1, <1>2, <1>5 DEF Table
<1> HIDE DEF N, W, H, V
<1>10. ASSUME NEW t \in R  PROVE V[t] = Columns(N, A, R)[t]
  <2> DEFINE K == Column(M, A, t)
             L == [y \in A |-> W[t] * K[y]]
  <2>1. FurtherTo(g, met, m)[t] = SumFunctionOnSet(K, A)
    BY <1>1, FurtherThroughNext
  <2>2. \A y \in A : K[y] = M[y][t] /\ K[y] \in Nat
    BY <1>1, <1>5 DEF Column
  <2> HIDE DEF K
  <2>3. Numbers(K, A)
    BY <1>2, <2>2 DEF Numbers
  <2>4. Numbers(L, A) /\ SumFunctionOnSet(L, A) = W[t] * SumFunctionOnSet(K, A)
    BY <1>1, <1>3, <2>3, SumScaled
  <2>5. \A y \in A : L[y] = Column(N, A, t)[y]
    BY <1>1, <1>5, <2>2 DEF Column
  <2> HIDE DEF L
  <2>6. SumFunctionOnSet(L, A) = SumFunctionOnSet(Column(N, A, t), A)
    BY <2>4, <2>5, SumCongruent
  <2>7. Columns(N, A, R)[t] = SumFunctionOnSet(Column(N, A, t), A)
    BY DEF Columns
  <2> QED
    BY <1>1, <1>6, <2>1, <2>4, <2>6, <2>7
<1>11. ASSUME NEW y \in A  PROVE H[y] = Rows(N, A, R)[y]
  <2> DEFINE F == N[y]
             S == DOMAIN g \ {y}
             Q == R \ {y}
  <2>1. PICK i \in 1..n : /\ i \in 1..(n + 1) /\ i + 1 \in 1..(n + 1) /\ i <= i + 1
                          /\ m \in met[i] /\ y \in met[i + 1] /\ y \in DOMAIN g /\ m # y
                          /\ Reached(met, n, y)
    BY AfterIsReached
  <2>2. FurtherTo(g, met, y)[m] = 0 /\ FurtherTo(g, met, y)[y] = 1
    BY <2>1, NotFurther, FurtherAddsUp
  <2>3. F[m] = 0 /\ F[y] = W[y]
    <3>1. F[m] = W[m] * 0 /\ F[y] = W[y] * 1
      BY <1>4, <1>5, <2>1, <2>2
    <3> QED
      BY <1>3, <2>1, <3>1
  <2>4. Numbers(F, R) /\ Numbers(F, S)
    BY <1>1, <1>5, FS_Subset DEF Numbers
  <2>5. y \in R /\ R \in SUBSET R /\ Q \in SUBSET S /\ \A x \in S \ Q : x = m
    BY <2>1
  <2>6. Total(g, met, y) = SumFunctionOnSet(F, S)
    BY <1>4 DEF Total
  <2>7. Rows(N, A, R)[y] = SumFunctionOnSet(F, R)
    BY DEF Rows
  <2> HIDE DEF F, S
  <2>8. SumFunctionOnSet(F, R) = F[y] + SumFunctionOnSet(F, Q)
    BY <2>4, <2>5, SumSplits
  <2> HIDE DEF Q
  <2>9. SumFunctionOnSet(F, S) = SumFunctionOnSet(F, Q)
    <3>1. \A x \in S \ Q : F[x] = 0
      BY <2>3, <2>5
    <3> QED
      BY <2>4, <2>5, <3>1, SumOfRest
  <2> QED
    BY <1>7, <2>3, <2>6, <2>7, <2>8, <2>9
<1> HIDE DEF A, R
<1>12. SumFunctionOnSet(V, R) = SumFunctionOnSet(Columns(N, A, R), R)
  <2>1. Numbers(V, R)
    BY <1>1, <1>6 DEF Numbers
  <2> QED
    BY <1>10, <2>1, SumCongruent
<1>13. SumFunctionOnSet(H, A) = SumFunctionOnSet(Rows(N, A, R), A)
  BY <1>8, <1>11, SumCongruent
<1>14. SumFunctionOnSet(Rows(N, A, R), A) = SumFunctionOnSet(Columns(N, A, R), R)
  BY <1>9, SumsExchange
<1>15. Total(g, met, m) = SumFunctionOnSet(H, A)
  BY <1>6, <1>12, <1>13, <1>14
<1> QED
  BY <1>8, <1>15 DEF H, A

-----------------------------------------------------------------------------
(* Dependencies, which are passed back level by level, are the shares of   *)
(* the shortest paths from the source.                                     *)

\* What a node passes back for each of the nodes after it.
PassedBack(g, met, d, m) ==
    [x \in After(g, met, m) |-> (Counts(g, met)[m] * (Unit + d[x])) \div Counts(g, met)[x]]

DependingOn(g, met, d) ==
    [m \in DOMAIN g |-> SumFunctionOnSet(PassedBack(g, met, d, m), After(g, met, m))]

Owed(g, met) == [m \in DOMAIN g |-> Counts(g, met)[m] * Total(g, met, m)]

LEMMA UnreachedHasNone ==
    ASSUME NEW g, NEW s, NEW n, NEW met, Searched(g, s, n, met),
           NEW t \in DOMAIN g, ~Reached(met, n, t)
    PROVE  Counts(g, met)[t] = 0
<1>1. Len(met) = n + 1
  BY DEF Searched, IsMet
<1>2. GeodesicsTo(g, met, t) = {}
  <2> SUFFICES ASSUME NEW p, Geodesic(g, met, p), Last(p) = t PROVE FALSE
    BY DEF GeodesicsTo
  <2>1. t \in met[Len(p)] /\ Len(p) \in 1..(n + 1)
    BY <1>1, GeodesicEnds DEF Geodesic
  <2> QED
    BY <2>1 DEF Reached
<1> QED
  BY <1>2, FS_EmptySet DEF Counts, HowMany

LEMMA OwedPassedBack ==
    ASSUME NEW g, NEW s, NEW n, NEW met, Searched(g, s, n, met), Divides(g, met),
           NEW m \in DOMAIN g
    PROVE  /\ Numbers(PassedBack(g, met, Owed(g, met), m), After(g, met, m))
           /\ Owed(g, met)[m]
                = SumFunctionOnSet(PassedBack(g, met, Owed(g, met), m), After(g, met, m))
<1> DEFINE A == After(g, met, m)
           D == Owed(g, met)
           B == PassedBack(g, met, D, m)
           c == Counts(g, met)[m]
           H == NextTotals(g, met, m)
           G == [x \in A |-> c * H[x]]
<1>1. D[m] = c * Total(g, met, m) /\ c \in Nat /\ Total(g, met, m) \in Nat
  BY CountsAddUp, WorthIsNumbers DEF Owed
<1>2. CASE A = {}
  <2>1. Numbers(B, A)
    BY <1>2, FS_EmptySet DEF Numbers
  <2>2. SumFunctionOnSet(B, A) = 0
    <3> HIDE DEF B, A
    <3> QED
      BY <1>2, <2>1, SumByPick
  <2>3. D[m] = 0
    <3>1. CASE Reached(met, n, m)
      <4>1. Numbers(H, A) /\ Total(g, met, m) = SumFunctionOnSet(H, A)
        BY <3>1, TotalThroughNext
      <4>2. Total(g, met, m) = 0
        <5> HIDE DEF H, A
        <5> QED
          BY <1>2, <4>1, SumByPick
      <4> QED
        BY <1>1, <4>2
    <3>2. CASE ~Reached(met, n, m)
      BY <1>1, <3>2, UnreachedHasNone
    <3> QED
      BY <3>1, <3>2
  <2> QED
    BY <2>1, <2>2, <2>3
<1>3. CASE A # {}
  <2>1. Reached(met, n, m)
    BY <1>3, AfterIsReached
  <2>2. Numbers(H, A) /\ Total(g, met, m) = SumFunctionOnSet(H, A)
    BY <2>1, TotalThroughNext
  <2>3. ASSUME NEW x \in A  PROVE B[x] = G[x]
    <3> DEFINE a == Counts(g, met)[x]
               w == PerPath(g, met)[x]
               e == Total(g, met, x)
    <3>1. x \in DOMAIN g /\ Reached(met, n, x)
      BY AfterIsReached
    <3>2. a \in Nat /\ a # 0
      BY <3>1, CountsAddUp, ReachedHasPaths
    <3>3. w \in Nat /\ Unit = w * a
      BY <3>1, <3>2, PerPathDivides
    <3>4. e \in Nat /\ D[x] = a * e
      BY <3>1, WorthIsNumbers DEF Owed
    <3>5. B[x] = (c * (Unit + D[x])) \div a
      BY DEF PassedBack
    <3>6. H[x] = w + e
      BY DEF NextTotals
    <3>7. G[x] = c * H[x]
      OBVIOUS
    <3> HIDE DEF a, w, e, B, D, H, G, c
    <3>8. c * (Unit + D[x]) = (c * (w + e)) * a
      BY <1>1, <3>2, <3>3, <3>4
    <3>9. c * (w + e) \in Nat
      BY <1>1, <3>3, <3>4
    <3>10. ((c * (w + e)) * a) \div a = c * (w + e)
      BY <3>2, <3>9, Divided
    <3> QED
      BY <3>5, <3>6, <3>7, <3>8, <3>10
  <2> HIDE DEF A, B, H
  <2>4. Numbers(G, A) /\ SumFunctionOnSet(G, A) = c * SumFunctionOnSet(H, A)
    BY <1>1, <2>2, SumScaled
  <2> HIDE DEF G
  <2>5. SumFunctionOnSet(B, A) = SumFunctionOnSet(G, A) /\ Numbers(B, A)
    BY <2>3, <2>4, SumCongruent
  <2>6. D[m] = SumFunctionOnSet(B, A)
    BY <1>1, <2>2, <2>4, <2>5
  <2> QED
    BY <2>5, <2>6 DEF B, A
<1> QED
  BY <1>2, <1>3

LEMMA OwedIsUnique ==
    ASSUME NEW g, NEW s, NEW n, NEW met, Searched(g, s, n, met), Divides(g, met),
           NEW d, d = DependingOn(g, met, d)
    PROVE  d = Owed(g, met)
<1> DEFINE D == Owed(g, met)
           P == {x \in DOMAIN g : D[x] = d[x]}
<1>1. d = [m \in DOMAIN g |-> d[m]] /\ D = [m \in DOMAIN g |-> D[m]]
  BY DEF DependingOn, Owed
<1>2. \A m \in DOMAIN g : d[m] = SumFunctionOnSet(PassedBack(g, met, d, m), After(g, met, m))
  BY DEF DependingOn
<1>3. \A m \in DOMAIN g : /\ Numbers(PassedBack(g, met, D, m), After(g, met, m))
                          /\ D[m] = SumFunctionOnSet(PassedBack(g, met, D, m), After(g, met, m))
  BY OwedPassedBack
<1> HIDE DEF D
<1>4. ASSUME NEW m \in DOMAIN g, \A y \in After(g, met, m) : y \in P  PROVE m \in P
  <2> DEFINE A == After(g, met, m)
             B == PassedBack(g, met, D, m)
             C == PassedBack(g, met, d, m)
  <2>1. \A y \in A : B[y] = C[y]
    BY <1>4 DEF PassedBack
  <2>2. Numbers(B, A) /\ D[m] = SumFunctionOnSet(B, A) /\ d[m] = SumFunctionOnSet(C, A)
    BY <1>2, <1>3
  <2> HIDE DEF A, B, C
  <2>3. SumFunctionOnSet(B, A) = SumFunctionOnSet(C, A)
    BY <2>1, <2>2, SumCongruent
  <2> QED
    BY <2>2, <2>3
<1> HIDE DEF P
<1>5. \A x \in DOMAIN g : x \in P
  BY <1>4, ByLevelDown
<1>6. \A x \in DOMAIN g : D[x] = d[x]
  BY <1>5 DEF P
<1>7. d = D
  BY <1>1, <1>6
<1> QED
  BY <1>7 DEF D

LEMMA DependenciesAreOwed ==
    ASSUME NEW g, NEW s, NEW n, NEW met, Searched(g, s, n, met), Divides(g, met)
    PROVE  Dependencies(g, met) = Owed(g, met)
<1> DEFINE sigma == PathCounts(g, met)
           E(d) == [m \in DOMAIN g |->
                      SumFunction([x \in After(g, met, m) |->
                                      (sigma[m] * (Unit + d[x])) \div sigma[x]])]
           dependency == CHOOSE d : d = E(d)
<1>1. Dependencies(g, met) = dependency
  BY DEF Dependencies
<1>2. sigma = Counts(g, met)
  BY PathsCounted
<1>3. ASSUME NEW d  PROVE E(d) = DependingOn(g, met, d)
  <2> SUFFICES ASSUME NEW m \in DOMAIN g
               PROVE  SumFunction([x \in After(g, met, m) |->
                                      (sigma[m] * (Unit + d[x])) \div sigma[x]])
                        = SumFunctionOnSet(PassedBack(g, met, d, m), After(g, met, m))
    BY DEF DependingOn
  <2> DEFINE B == [x \in After(g, met, m) |-> (sigma[m] * (Unit + d[x])) \div sigma[x]]
  <2>1. B = PassedBack(g, met, d, m)
    BY <1>2 DEF PassedBack
  <2>2. DOMAIN B = After(g, met, m)
    OBVIOUS
  <2> HIDE DEF B
  <2>3. SumFunction(B) = SumFunctionOnSet(PassedBack(g, met, d, m), After(g, met, m))
    BY <2>1, <2>2 DEF SumFunction
  <2> QED
    BY <2>3 DEF B
<1> HIDE DEF E
<1>4. Owed(g, met) = DependingOn(g, met, Owed(g, met))
  <2> DEFINE D == Owed(g, met)
  <2>1. \A m \in DOMAIN g : D[m] = SumFunctionOnSet(PassedBack(g, met, D, m), After(g, met, m))
    BY OwedPassedBack
  <2>2. D = [m \in DOMAIN g |-> D[m]]
    BY DEF Owed
  <2> HIDE DEF D
  <2>3. D = DependingOn(g, met, D)
    BY <2>1, <2>2 DEF DependingOn
  <2> QED
    BY <2>3 DEF D
<1>5. dependency = E(dependency)
  BY <1>3, <1>4
<1> HIDE DEF dependency
<1>6. dependency = Owed(g, met)
  BY <1>3, <1>5, OwedIsUnique
<1> QED
  BY <1>1, <1>6

\* The share of the shortest paths to each node that lead through m.
Shares(g, met, m) ==
    [t \in DOMAIN g |-> IF Counts(g, met)[t] = 0 THEN 0
                        ELSE (Unit * ViaCounts(g, met, m)[t]) \div Counts(g, met)[t]]

\* What Brandes' recursion gathers for a person is what counting path by path
\* gives.
LEMMA DependenciesAreShares ==
    ASSUME NEW g, NEW s, NEW n, NEW met, Searched(g, s, n, met), Divides(g, met),
           NEW m \in DOMAIN g
    PROVE  /\ Numbers(Shares(g, met, m), DOMAIN g)
           /\ Dependencies(g, met)[m] = SumFunctionOnSet(Shares(g, met, m), DOMAIN g \ {m})
<1> DEFINE R == DOMAIN g \ {m}
           V == Worth(g, met, m)
           c == Counts(g, met)[m]
           S == Shares(g, met, m)
           G == [t \in DOMAIN g |-> c * V[t]]
<1>1. /\ Numbers(V, DOMAIN g) /\ c \in Nat
      /\ \A t \in DOMAIN g : V[t] = PerPath(g, met)[t] * FurtherTo(g, met, m)[t]
  BY WorthIsNumbers, CountsAddUp
<1>2. ASSUME NEW t \in DOMAIN g  PROVE G[t] = S[t]
  <2> DEFINE a == Counts(g, met)[t]
             w == PerPath(g, met)[t]
             f == FurtherTo(g, met, m)[t]
             v == ViaCounts(g, met, m)[t]
  <2>1. a \in Nat /\ w \in Nat /\ (a = 0 => w = 0) /\ (a # 0 => Unit = w * a)
    BY CountsAddUp, PerPathDivides
  <2>2. f \in Nat /\ v = c * f
    BY FurtherExists
  <2>3. S[t] = IF a = 0 THEN 0 ELSE (Unit * v) \div a
    BY DEF Shares
  <2>4. G[t] = c * (w * f)
    BY <1>1
  <2> HIDE DEF a, w, f, v, S, G, c, V
  <2>5. CASE a = 0
    BY <1>1, <2>1, <2>2, <2>3, <2>4, <2>5
  <2>6. CASE a # 0
    <3>1. Unit * v = (c * (w * f)) * a
      BY <1>1, <2>1, <2>2, <2>6
    <3>2. c * (w * f) \in Nat
      BY <1>1, <2>1, <2>2
    <3>3. ((c * (w * f)) * a) \div a = c * (w * f)
      BY <2>1, <2>6, <3>2, Divided
    <3> QED
      BY <2>3, <2>4, <2>6, <3>1, <3>3
  <2> QED
    BY <2>5, <2>6
<1>3. Dependencies(g, met)[m] = c * SumFunctionOnSet(V, R)
  BY DependenciesAreOwed DEF Owed, Total
<1>4. Numbers(V, R) /\ R \subseteq DOMAIN g
  BY <1>1, FS_Subset DEF Numbers
<1> HIDE DEF V, S, c
<1>5. Numbers(G, DOMAIN g)
  BY <1>1, SumScaled
<1>6. Numbers(S, DOMAIN g)
  <2> HIDE DEF G
  <2> QED
    BY <1>2, <1>5, SumCongruent
<1> DEFINE H == [t \in R |-> c * V[t]]
<1>7. SumFunctionOnSet(H, R) = c * SumFunctionOnSet(V, R) /\ Numbers(H, R)
  <2> HIDE DEF R
  <2> QED
    BY <1>1, <1>4, SumScaled
<1>8. \A t \in R : H[t] = S[t]
  BY <1>2
<1> HIDE DEF H, R, G
<1>9. SumFunctionOnSet(H, R) = SumFunctionOnSet(S, R)
  BY <1>7, <1>8, SumCongruent
<1>10. Dependencies(g, met)[m] = SumFunctionOnSet(S, R)
  BY <1>3, <1>7, <1>9
<1> QED
  BY <1>6, <1>10 DEF S, R

-----------------------------------------------------------------------------
(* Sums over pairs.                                                        *)

\* A sum over other names for the same things.
LEMMA SumRenamed ==
    ASSUME NEW Y, NEW Z, NEW h \in [Y -> Z], \A x, y \in Y : h[x] = h[y] => x = y,
           IsFiniteSet(Y), NEW F, Numbers(F, Z)
    PROVE  /\ Numbers([y \in Y |-> F[h[y]]], Y)
           /\ SumFunctionOnSet(F, {h[y] : y \in Y}) = SumFunctionOnSet([y \in Y |-> F[h[y]]], Y)
<1> DEFINE G == [y \in Y |-> F[h[y]]]
           Image(T) == {h[y] : y \in T}
           P == {T \in SUBSET Y : SumFunctionOnSet(F, Image(T)) = SumFunctionOnSet(G, T)}
<1>1. \A y \in Y : G[y] = F[h[y]] /\ G[y] \in Nat /\ h[y] \in Z
  BY DEF Numbers
<1> HIDE DEF G
<1>2. Numbers(G, Y)
  BY <1>1 DEF Numbers
<1>3. ASSUME NEW T \in SUBSET Y, \A x \in T : T \ {x} \in P  PROVE T \in P
  <2>1. CASE T = {}
    <3>1. Image(T) = {}
      BY <2>1
    <3>2. SumFunctionOnSet(F, {}) = 0 /\ SumFunctionOnSet(G, {}) = 0
      BY <1>2, SumByPick
    <3> QED
      BY <2>1, <3>1, <3>2
  <2>2. ASSUME NEW x \in T  PROVE T \in P
    <3> DEFINE U == T \ {x}
    <3>1. Image(T) \ {h[x]} = Image(U) /\ h[x] \in Image(T) /\ Image(T) \in SUBSET Z
      BY <1>1
    <3>2. SumFunctionOnSet(F, Image(U)) = SumFunctionOnSet(G, U)
      BY <1>3
    <3>3. SumFunctionOnSet(G, T) = G[x] + SumFunctionOnSet(G, U)
      BY <1>2, SumSplits
    <3> HIDE DEF U, Image
    <3>4. SumFunctionOnSet(F, Image(T)) = F[h[x]] + SumFunctionOnSet(F, Image(T) \ {h[x]})
      BY <3>1, SumSplits
    <3>5. G[x] = F[h[x]]
      BY <1>1
    <3>6. SumFunctionOnSet(F, Image(T)) = SumFunctionOnSet(G, T)
      BY <3>1, <3>2, <3>3, <3>4, <3>5
    <3> QED
      BY <3>6
  <2> QED
    BY <2>1, <2>2
<1> HIDE DEF P
<1>4. \A T \in SUBSET Y : T \in P
  BY <1>3, FiniteByStep
<1>5. Y \in P
  BY <1>4
<1> QED
  BY <1>2, <1>5 DEF P, G

LEMMA SumOfBoth ==
    ASSUME NEW S, NEW F, Numbers(F, S), NEW A \in SUBSET S, NEW B \in SUBSET S,
           A \intersect B = {}
    PROVE  SumFunctionOnSet(F, A \union B) = SumFunctionOnSet(F, A) + SumFunctionOnSet(F, B)
<1> DEFINE P == {T \in SUBSET A : SumFunctionOnSet(F, T \union B)
                                    = SumFunctionOnSet(F, T) + SumFunctionOnSet(F, B)}
<1>1. IsFiniteSet(A)
  BY FS_Subset DEF Numbers
<1>2. SumFunctionOnSet(F, {}) = 0 /\ \A T \in SUBSET S : SumFunctionOnSet(F, T) \in Nat
  BY SumByPick
<1>3. ASSUME NEW T \in SUBSET A, \A x \in T : T \ {x} \in P  PROVE T \in P
  <2>1. CASE T = {}
    <3>1. T \union B = B
      BY <2>1
    <3> QED
      BY <1>2, <2>1, <3>1
  <2>2. ASSUME NEW x \in T  PROVE T \in P
    <3> DEFINE U == T \ {x}
               E == T \union B
               O == U \union B
    <3>1. x \in E /\ E \ {x} = O /\ E \in SUBSET S /\ O \in SUBSET S /\ T \in SUBSET S
          /\ U \in SUBSET S /\ x \in S
      OBVIOUS
    <3>2. SumFunctionOnSet(F, O) = SumFunctionOnSet(F, U) + SumFunctionOnSet(F, B)
      BY <1>3
    <3>3. SumFunctionOnSet(F, T) = F[x] + SumFunctionOnSet(F, U)
      BY <3>1, SumSplits
    <3> HIDE DEF U, E, O
    <3>4. SumFunctionOnSet(F, E) = F[x] + SumFunctionOnSet(F, E \ {x})
      BY <3>1, SumSplits
    <3>5. /\ SumFunctionOnSet(F, U) \in Nat /\ SumFunctionOnSet(F, B) \in Nat
          /\ SumFunctionOnSet(F, O) \in Nat /\ F[x] \in Nat
      BY <1>2, <3>1 DEF Numbers
    <3>6. SumFunctionOnSet(F, E) = F[x] + SumFunctionOnSet(F, O)
      BY <3>1, <3>4
    <3>7. SumFunctionOnSet(F, E) = SumFunctionOnSet(F, T) + SumFunctionOnSet(F, B)
      BY <3>2, <3>3, <3>5, <3>6
    <3> QED
      BY <3>7 DEF E
  <2> QED
    BY <2>1, <2>2
<1> HIDE DEF P
<1>4. \A T \in SUBSET A : T \in P
  BY <1>1, <1>3, FiniteByStep
<1>5. A \in P
  BY <1>4
<1> QED
  BY <1>5 DEF P

\* A sum over pairs, by their first half.
PairsOf(T, S) == {e \in T \X S : e[1] # e[2]}

OfPairs(M, S) == [e \in PairsOf(S, S) |-> M[e[1]][e[2]]]

ByFirst(M, S) == [x \in S |-> SumFunctionOnSet(M[x], S \ {x})]

LEMMA SumOfPairs ==
    ASSUME NEW S, NEW M, Table(M, S, S)
    PROVE  /\ Numbers(ByFirst(M, S), S) /\ Numbers(OfPairs(M, S), PairsOf(S, S))
           /\ SumFunctionOnSet(OfPairs(M, S), PairsOf(S, S)) = SumFunctionOnSet(ByFirst(M, S), S)
<1> DEFINE F == OfPairs(M, S)
           G == ByFirst(M, S)
           All == PairsOf(S, S)
           P == {T \in SUBSET S : SumFunctionOnSet(F, PairsOf(T, S)) = SumFunctionOnSet(G, T)}
<1>1. IsFiniteSet(S) /\ \A x, y \in S : M[x][y] \in Nat
  BY DEF Table
<1>2. ASSUME NEW x \in S  PROVE Numbers(M[x], S \ {x}) /\ G[x] \in Nat
  <2>1. Numbers(M[x], S \ {x})
    BY <1>1, FS_Subset DEF Numbers
  <2>2. G[x] = SumFunctionOnSet(M[x], S \ {x})
    BY DEF ByFirst
  <2>3. S \ {x} \in SUBSET (S \ {x})
    OBVIOUS
  <2> QED
    BY <2>1, <2>2, <2>3, SumByPick
<1>3. Numbers(G, S)
  BY <1>1, <1>2 DEF Numbers
<1>4. IsFiniteSet(All)
  <2>1. IsFiniteSet(S \X S)
    BY <1>1, FS_Product
  <2>2. All \subseteq S \X S
    BY DEF PairsOf
  <2> QED
    BY <2>1, <2>2, FS_Subset
<1>5. \A x, y \in S : x # y => <<x, y>> \in All /\ F[<<x, y>>] = M[x][y]
  BY DEF PairsOf, OfPairs
<1>6. \A e \in All : F[e] \in Nat
  BY <1>1 DEF PairsOf, OfPairs
<1>7. Numbers(F, All)
  BY <1>4, <1>6 DEF Numbers
<1>a. \A T \in SUBSET S : PairsOf(T, S) \in SUBSET All
  BY DEF PairsOf
<1> HIDE DEF F, All
<1>8. ASSUME NEW x \in S
      PROVE  SumFunctionOnSet(F, {<<x, y>> : y \in S \ {x}}) = G[x]
  <2> DEFINE Y == S \ {x}
             h == [y \in Y |-> <<x, y>>]
             H == [y \in Y |-> F[h[y]]]
  <2>1. h \in [Y -> All] /\ \A y, z \in Y : h[y] = h[z] => y = z
    BY <1>5
  <2>2. IsFiniteSet(Y)
    BY <1>1, FS_Subset
  <2>3. {h[y] : y \in Y} = {<<x, y>> : y \in Y}
    OBVIOUS
  <2>4. \A y \in Y : M[x][y] = H[y]
    BY <1>5
  <2>5. Numbers(M[x], Y) /\ G[x] = SumFunctionOnSet(M[x], Y)
    BY <1>2 DEF ByFirst
  <2> HIDE DEF Y, h
  <2>6. SumFunctionOnSet(F, {h[y] : y \in Y}) = SumFunctionOnSet(H, Y)
    BY <1>7, <2>1, <2>2, SumRenamed
  <2> HIDE DEF H
  <2>7. SumFunctionOnSet(M[x], Y) = SumFunctionOnSet(H, Y)
    BY <2>4, <2>5, SumCongruent
  <2>8. SumFunctionOnSet(F, {<<x, y>> : y \in Y}) = G[x]
    BY <2>3, <2>5, <2>6, <2>7
  <2> QED
    BY <2>8 DEF Y
<1> HIDE DEF G
<1>9. ASSUME NEW T \in SUBSET S, \A x \in T : T \ {x} \in P  PROVE T \in P
  <2>1. CASE T = {}
    <3>1. PairsOf(T, S) = {}
      BY <2>1 DEF PairsOf
    <3>2. SumFunctionOnSet(F, {}) = 0 /\ SumFunctionOnSet(G, {}) = 0
      BY <1>3, <1>7, SumByPick
    <3> QED
      BY <2>1, <3>1, <3>2
  <2>2. ASSUME NEW x \in T  PROVE T \in P
    <3> DEFINE U == T \ {x}
               A == {<<x, y>> : y \in S \ {x}}
               B == PairsOf(U, S)
    <3>1. PairsOf(T, S) = A \union B
      BY DEF PairsOf
    <3>2. A \intersect B = {} /\ A \in SUBSET All
      BY <1>5 DEF PairsOf
    <3>3. B \in SUBSET All /\ U \in SUBSET S
      BY <1>a
    <3>4. SumFunctionOnSet(F, B) = SumFunctionOnSet(G, U)
      BY <1>9
    <3>5. SumFunctionOnSet(G, T) = G[x] + SumFunctionOnSet(G, U)
      BY <1>3, SumSplits
    <3>6. SumFunctionOnSet(F, A) = G[x]
      BY <1>8
    <3> HIDE DEF A, B, U
    <3>7. SumFunctionOnSet(F, A \union B) = SumFunctionOnSet(F, A) + SumFunctionOnSet(F, B)
      BY <1>7, <3>2, <3>3, SumOfBoth
    <3>8. SumFunctionOnSet(F, PairsOf(T, S)) = SumFunctionOnSet(G, T)
      BY <3>1, <3>4, <3>5, <3>6, <3>7
    <3> QED
      BY <3>8
  <2> QED
    BY <2>1, <2>2
<1> HIDE DEF P
<1>10. \A T \in SUBSET S : T \in P
  BY <1>1, <1>9, FiniteByStep
<1>11. S \in P
  BY <1>10
<1> QED
  BY <1>3, <1>7, <1>11 DEF P, F, G, All

-----------------------------------------------------------------------------
(* The tallies of a group that is closed are the shares of the paths of    *)
(* all pairs of the graph.                                                 *)

\* Nobody of a group that is joined to nobody else is on a path from outside.
LEMMA StrangersApart ==
    ASSUME NEW g, NEW s, NEW n, NEW met, Searched(g, s, n, met),
           NEW K \in SUBSET DOMAIN g, \A p \in K : g[p] \subseteq K,
           s \notin K, NEW m \in K, NEW t \in DOMAIN g
    PROVE  Via(g, met, m, t) = {}
<1> SUFFICES ASSUME NEW p \in Via(g, met, m, t) PROVE FALSE
  OBVIOUS
<1>1. p \in GeodesicsTo(g, met, t) /\ m \in ToSet(p)
  BY DEF Via
<1>2. Geodesic(g, met, p) /\ p \in Seq(DOMAIN g) /\ met[1] = {s} /\ Undirected(g)
  BY <1>1 DEF GeodesicsTo, Searched, IsMet
<1>3. Len(p) \in Nat \ {0}
  BY <1>2, GeodesicEnds
<1> DEFINE P == {i \in 0..(Len(p) - 1) : p[i + 1] \notin K}
           l == Len(p) - 1
<1>4. 0 \in P
  <2>1. 0 \in 0..l /\ 0 + 1 = 1 /\ 1 \in 1..Len(p)
    BY <1>3
  <2>2. p[1] \in met[1]
    BY <1>2, <2>1 DEF Geodesic
  <2> QED
    BY <1>2, <2>1, <2>2
<1>5. ASSUME NEW i \in 1..l, i - 1 \in P  PROVE i \in P
  <2>1. i \in 0..l /\ i \in 1..Len(p) /\ i + 1 \in 1..Len(p) /\ i - 1 + 1 = i /\ i \in 1..(Len(p) - 1)
    BY <1>3
  <2>2. p[i] \notin K
    BY <1>5, <2>1
  <2>3. p[i + 1] \in g[p[i]] /\ p[i] \in DOMAIN g /\ p[i + 1] \in DOMAIN g
    BY <1>2, <2>1 DEF Geodesic
  <2>4. p[i] \in g[p[i + 1]]
    BY <1>2, <2>3 DEF Undirected
  <2> QED
    BY <2>1, <2>2, <2>4
<1>6. l \in Nat
  BY <1>3
<1> HIDE DEF P
<1>7. \A i \in 0..l : i \in P
  BY <1>4, <1>5, <1>6, StepByStep
<1>8. PICK k \in DOMAIN p : p[k] = m
  BY <1>1 DEF ToSet
<1>9. k \in 1..Len(p)
  BY <1>2
<1>10. k - 1 \in 0..l /\ k - 1 + 1 = k
  BY <1>3, <1>9
<1>11. p[k] \notin K
  BY <1>7, <1>10 DEF P
<1> QED
  BY <1>8, <1>11

LEMMA NoneVia ==
    ASSUME NEW g, NEW s, NEW n, NEW met, Searched(g, s, n, met),
           NEW m \in DOMAIN g, NEW t \in DOMAIN g, Via(g, met, m, t) = {}
    PROVE  Shares(g, met, m)[t] = 0
<1>1. ViaCounts(g, met, m)[t] = 0
  BY FS_EmptySet DEF ViaCounts
<1>2. Counts(g, met)[t] \in Nat
  BY CountsAddUp
<1>3. Unit * 0 = 0 * Counts(g, met)[t]
  BY <1>2, UnitAssumption
<1>4. Counts(g, met)[t] # 0 => (0 * Counts(g, met)[t]) \div Counts(g, met)[t] = 0
  BY <1>2, Divided
<1>5. Counts(g, met)[t] # 0 => (Unit * 0) \div Counts(g, met)[t] = 0
  BY <1>3, <1>4
<1>6. Shares(g, met, m)[t] = IF Counts(g, met)[t] = 0 THEN 0
                        ELSE (Unit * ViaCounts(g, met, m)[t]) \div Counts(g, met)[t]
  BY DEF Shares
<1> QED
  BY <1>1, <1>5, <1>6

LEMMA NotToSource ==
    ASSUME NEW g, NEW s, NEW n, NEW met, Searched(g, s, n, met), NEW m \in DOMAIN g, m # s
    PROVE  Via(g, met, m, s) = {}
<1>1. GeodesicsTo(g, met, s) = {<<s>>}
  BY NothingBeforeSource
<1>2. ToSet(<<s>>) = {s}
  BY DEF ToSet
<1> QED
  BY <1>1, <1>2 DEF Via

LEMMA LevelsSearched ==
    ASSUME NEW g, Undirected(g), NEW s \in DOMAIN g, NEW n \in Nat
    PROVE  Searched(g, s, n, levels(g, s, n))
<1>1. g \in [DOMAIN g -> SUBSET DOMAIN g]
  BY DEF Undirected
<1> QED
  BY <1>1, LevelsAreMet DEF Searched

\* The share of the shortest paths from s to t that lead through m.
ShareOf(g, n, m, s, t) ==
    LET paths == all_shortest_paths(g, s, t, n)
    IN  IF paths = {} THEN 0
        ELSE (Unit * Cardinality({p \in paths : m \in ToSet(p)})) \div Cardinality(paths)

LEMMA SharesAreOfPaths ==
    ASSUME NEW g, Undirected(g), NEW n \in Nat, NEW s \in DOMAIN g, NEW t \in DOMAIN g, NEW m
    PROVE  ShareOf(g, n, m, s, t) = Shares(g, levels(g, s, n), m)[t]
<1> DEFINE met == levels(g, s, n)
<1>1. Searched(g, s, n, met)
  BY LevelsSearched
<1>2. all_shortest_paths(g, s, t, n) = GeodesicsTo(g, met, t)
  BY ShortestAreGeodesics
<1> HIDE DEF met
<1>3. IsFiniteSet(GeodesicsTo(g, met, t))
  BY <1>1, GeodesicsAreFinite
<1>4. GeodesicsTo(g, met, t) = {} <=> Counts(g, met)[t] = 0
  BY <1>3, FS_EmptySet DEF Counts, HowMany
<1>5. /\ Counts(g, met)[t] = Cardinality(all_shortest_paths(g, s, t, n))
      /\ ViaCounts(g, met, m)[t] = Cardinality({p \in all_shortest_paths(g, s, t, n) : m \in ToSet(p)})
  BY <1>2 DEF Counts, HowMany, ViaCounts, Via
<1>6. Shares(g, met, m)[t] = IF Counts(g, met)[t] = 0 THEN 0
                        ELSE (Unit * ViaCounts(g, met, m)[t]) \div Counts(g, met)[t]
  BY DEF Shares
<1>7. Shares(g, met, m)[t] = ShareOf(g, n, m, s, t)
  BY <1>2, <1>4, <1>5, <1>6 DEF ShareOf
<1> QED
  BY <1>7 DEF met

LEMMA WholeSharesDivide ==
    ASSUME NEW g, Undirected(g), NEW n \in Nat, WholeShares(g, n), NEW s \in DOMAIN g
    PROVE  Divides(g, levels(g, s, n))
<1> DEFINE met == levels(g, s, n)
<1>1. Searched(g, s, n, met)
  BY LevelsSearched
<1>2. \A t \in DOMAIN g : all_shortest_paths(g, s, t, n) = GeodesicsTo(g, met, t)
  BY ShortestAreGeodesics
<1> HIDE DEF met
<1>3. ASSUME NEW t \in DOMAIN g, Counts(g, met)[t] # 0  PROVE \E k \in Nat : Unit = k * Counts(g, met)[t]
  <2>1. Counts(g, met)[t] = Cardinality(all_shortest_paths(g, s, t, n))
    BY <1>2 DEF Counts, HowMany
  <2>2. all_shortest_paths(g, s, t, n) # {}
    BY <1>3, <2>1, FS_EmptySet
  <2>3. PICK k \in 1..Unit : Unit = k * Cardinality(all_shortest_paths(g, s, t, n))
    BY <2>2 DEF WholeShares
  <2>4. k \in Nat
    BY UnitAssumption
  <2> QED
    BY <2>1, <2>3, <2>4
<1>4. Divides(g, met)
  BY <1>3 DEF Divides
<1> QED
  BY <1>4 DEF met

\* A communication graph joins nobody of the group to somebody outside.
Closed(g, K) == K \subseteq DOMAIN g /\ \A p \in K : g[p] \subseteq K

SharesOf(g, n, m) == [s \in DOMAIN g |-> Shares(g, levels(g, s, n), m)]

DependencyOf(g, n, m) == [s \in DOMAIN g |-> Dependencies(g, levels(g, s, n))[m]]

LEMMA SharesTable ==
    ASSUME NEW g, Undirected(g), NEW n \in Nat, WholeShares(g, n), NEW m \in DOMAIN g
    PROVE  /\ Table(SharesOf(g, n, m), DOMAIN g \ {m}, DOMAIN g \ {m})
           /\ Numbers(DependencyOf(g, n, m), DOMAIN g)
           /\ \A s \in DOMAIN g \ {m} :
                ByFirst(SharesOf(g, n, m), DOMAIN g \ {m})[s] = DependencyOf(g, n, m)[s]
<1> DEFINE R == DOMAIN g \ {m}
           M == SharesOf(g, n, m)
<1>1. ASSUME NEW s \in DOMAIN g
      PROVE  /\ Numbers(M[s], DOMAIN g) /\ DependencyOf(g, n, m)[s] = SumFunctionOnSet(M[s], R)
             /\ s # m => M[s][s] = 0
  <2> DEFINE met == levels(g, s, n)
  <2>1. Searched(g, s, n, met) /\ Divides(g, met)
    BY LevelsSearched, WholeSharesDivide
  <2>2. M[s] = Shares(g, met, m) /\ DependencyOf(g, n, m)[s] = Dependencies(g, met)[m]
    BY DEF SharesOf, DependencyOf
  <2> HIDE DEF met, M
  <2>3. /\ Numbers(Shares(g, met, m), DOMAIN g)
        /\ Dependencies(g, met)[m] = SumFunctionOnSet(Shares(g, met, m), R)
    BY <2>1, DependenciesAreShares
  <2>4. s # m => Shares(g, met, m)[s] = 0
    BY <2>1, NotToSource, NoneVia
  <2> QED
    BY <2>2, <2>3, <2>4
<1>2. IsFiniteSet(DOMAIN g) /\ R \in SUBSET DOMAIN g
  BY DEF Undirected
<1>3. IsFiniteSet(R)
  BY <1>2, FS_Subset
<1> HIDE DEF R, M
<1>4. ASSUME NEW s \in DOMAIN g  PROVE DependencyOf(g, n, m)[s] \in Nat
  BY <1>1, <1>2, SumByPick
<1>5. Numbers(DependencyOf(g, n, m), DOMAIN g)
  BY <1>2, <1>4 DEF Numbers
<1>6. \A s \in R : \A t \in R : M[s][t] \in Nat
  BY <1>1, <1>2 DEF Numbers
<1>7. Table(M, R, R)
  BY <1>3, <1>6 DEF Table
<1>8. ASSUME NEW s \in R  PROVE ByFirst(M, R)[s] = DependencyOf(g, n, m)[s]
  <2>1. ByFirst(M, R)[s] = SumFunctionOnSet(M[s], R \ {s})
    BY DEF ByFirst
  <2>2. s \in DOMAIN g /\ s # m
    BY DEF R
  <2>3. Numbers(M[s], R)
    BY <1>3, <1>6 DEF Numbers
  <2>4. R \ {s} \in SUBSET R /\ \A x \in R \ (R \ {s}) : M[s][x] = 0
    BY <1>1, <2>2
  <2>5. SumFunctionOnSet(M[s], R) = SumFunctionOnSet(M[s], R \ {s})
    BY <2>3, <2>4, SumOfRest
  <2> QED
    BY <1>1, <2>1, <2>2, <2>5
<1> QED
  BY <1>5, <1>7, <1>8 DEF R, M

\* Two ways to count: the dependencies passed back from every person of a
\* closed group, and the shares of the shortest paths of every pair.
LEMMA TalliesAreShares ==
    ASSUME NEW g, Undirected(g), NEW n \in Nat, WholeShares(g, n),
           NEW K, Closed(g, K), NEW m \in K
    PROVE  bounded_shortest_path_tallies(g, K, n)[m] = betweenness_centrality(g, K, n)[m]
           /\ betweenness_centrality(g, K, n)[m] \in Nat
<1> DEFINE D == DOMAIN g
           R == DOMAIN g \ {m}
           M == SharesOf(g, n, m)
           E == DependencyOf(g, n, m)
           F == OfPairs(M, R)
           G == ByFirst(M, R)
<1>1. m \in D /\ K \subseteq D /\ K \in SUBSET D /\ \A p \in K : g[p] \subseteq K
  BY DEF Closed
<1>2. Table(M, R, R) /\ Numbers(E, D) /\ \A s \in R : G[s] = E[s]
  BY <1>1, SharesTable
<1>3. ASSUME NEW s \in D \ K  PROVE E[s] = 0
  <2> DEFINE met == levels(g, s, n)
  <2>1. Searched(g, s, n, met) /\ Divides(g, met)
    BY LevelsSearched, WholeSharesDivide
  <2>2. E[s] = Dependencies(g, met)[m]
    BY DEF DependencyOf
  <2> HIDE DEF met, E
  <2>3. /\ Numbers(Shares(g, met, m), D)
        /\ Dependencies(g, met)[m] = SumFunctionOnSet(Shares(g, met, m), R)
    BY <1>1, <2>1, DependenciesAreShares
  <2>4. \A t \in D : Shares(g, met, m)[t] = 0
    BY <1>1, <2>1, StrangersApart, NoneVia
  <2>5. Numbers(Shares(g, met, m), R)
    BY <2>3, FS_Subset DEF Numbers
  <2>6. SumFunctionOnSet(Shares(g, met, m), R) = 0
    BY <2>4, <2>5, SumZero
  <2> QED
    BY <2>2, <2>3, <2>6
<1>4. bounded_shortest_path_tallies(g, K, n)[m] = SumFunctionOnSet(E, K \ {m})
  <2> DEFINE T == [s \in K \ {m} |-> Dependencies(g, levels(g, s, n))[m]]
  <2>1. bounded_shortest_path_tallies(g, K, n)[m] = SumFunctionOnSet(T, K \ {m})
    BY DEF bounded_shortest_path_tallies, SumFunction
  <2>2. \A s \in K \ {m} : E[s] = T[s]
    BY <1>1 DEF DependencyOf
  <2>3. Numbers(E, K \ {m})
    BY <1>1, <1>2, FS_Subset DEF Numbers
  <2> HIDE DEF T, E
  <2>4. SumFunctionOnSet(E, K \ {m}) = SumFunctionOnSet(T, K \ {m})
    BY <2>2, <2>3, SumCongruent
  <2> QED
    BY <2>1, <2>4
<1>5. betweenness_centrality(g, K, n)[m] = SumFunctionOnSet(F, PairsOf(R, R))
  <2> DEFINE B == [e \in PairsOf(R, R) |-> ShareOf(g, n, m, e[1], e[2])]
  <2>1. betweenness_centrality(g, K, n)[m] = SumFunctionOnSet(B, PairsOf(R, R))
    BY DEF betweenness_centrality, SumFunction, PairsOf, ShareOf
  <2>2. \A e \in PairsOf(R, R) : F[e] = B[e]
    <3> SUFFICES ASSUME NEW e \in PairsOf(R, R) PROVE F[e] = B[e]
      OBVIOUS
    <3>1. e[1] \in D /\ e[2] \in D
      BY DEF PairsOf
    <3>2. F[e] = Shares(g, levels(g, e[1], n), m)[e[2]]
      BY <3>1 DEF OfPairs, SharesOf
    <3>3. B[e] = ShareOf(g, n, m, e[1], e[2])
      OBVIOUS
    <3> QED
      BY <3>1, <3>2, <3>3, SharesAreOfPaths
  <2>3. Numbers(F, PairsOf(R, R))
    BY <1>2, SumOfPairs
  <2> HIDE DEF B, F, R
  <2>4. SumFunctionOnSet(F, PairsOf(R, R)) = SumFunctionOnSet(B, PairsOf(R, R))
    BY <2>2, <2>3, SumCongruent
  <2> QED
    BY <2>1, <2>4
<1> HIDE DEF F, G, E, M, R
<1>6. SumFunctionOnSet(F, PairsOf(R, R)) = SumFunctionOnSet(G, R) /\ Numbers(G, R)
  BY <1>2, SumOfPairs DEF F, G
<1>7. SumFunctionOnSet(G, R) = SumFunctionOnSet(E, R) /\ Numbers(E, R)
  BY <1>2, <1>6, SumCongruent
<1>8. K \ {m} \in SUBSET R /\ \A s \in R \ (K \ {m}) : E[s] = 0
  BY <1>1, <1>3 DEF R
<1>9. SumFunctionOnSet(E, R) = SumFunctionOnSet(E, K \ {m})
  BY <1>7, <1>8, SumOfRest
<1>10. SumFunctionOnSet(E, R) \in Nat
  BY <1>7, SumByPick
<1> QED
  BY <1>4, <1>5, <1>6, <1>7, <1>9, <1>10

-----------------------------------------------------------------------------
(* What removing a node costs that no shortest path leads through.         *)

LEMMA ReachableIs ==
    ASSUME NEW g, Undirected(g), NEW s \in DOMAIN g, NEW n \in Nat
    PROVE  /\ reachable_within(g, s, n) \in SUBSET DOMAIN g
           /\ \A t : t \in reachable_within(g, s, n) <=>
                        t \in DOMAIN g /\ t # s /\ Reached(levels(g, s, n), n, t)
<1> DEFINE met == levels(g, s, n)
<1>1. IsMet(met, g, s, n)
  BY LevelsSearched DEF Searched
<1>2. reachable_within(g, s, n) = (UNION ToSet(met)) \ {s}
  BY DEF reachable_within
<1> HIDE DEF met
<1>3. met \in Seq(SUBSET DOMAIN g) /\ Len(met) = n + 1
  BY <1>1 DEF IsMet
<1>4. ToSet(met) = {met[i] : i \in 1..(n + 1)}
  BY <1>3 DEF ToSet
<1>5. \A i \in 1..(n + 1) : met[i] \subseteq DOMAIN g
  BY <1>3
<1>6. \A t : t \in reachable_within(g, s, n) <=> t \in DOMAIN g /\ t # s /\ Reached(met, n, t)
  BY <1>2, <1>4, <1>5 DEF Reached
<1> QED
  BY <1>6 DEF met

\* A walk of at most n steps.
Walk(g, n, q) ==
    /\ q \in Seq(DOMAIN g) /\ Len(q) \in 1..(n + 1)
    /\ \A i \in 1..(Len(q) - 1) : q[i + 1] \in g[q[i]]

\* A walk arrives no later than it is long.
LEMMA WalkArrives ==
    ASSUME NEW g, NEW s, NEW n, NEW met, Searched(g, s, n, met),
           NEW q, Walk(g, n, q), q[1] = s
    PROVE  \E j \in 1..Len(q) : q[Len(q)] \in met[j]
<1> DEFINE l == Len(q) - 1
           P == {i \in 0..l : \E j \in 1..(i + 1) : q[i + 1] \in met[j]}
<1>1. n \in Nat /\ met[1] = {s} /\ \A i \in 1..n : met[i + 1] = Fresh(g, met, i)
  BY DEF Searched, IsMet
<1>2. Len(q) \in 1..(n + 1) /\ q \in Seq(DOMAIN g) /\ l \in Nat /\ l <= n /\ l + 1 = Len(q)
  BY <1>1 DEF Walk
<1>3. 0 \in P
  <2>1. 0 \in 0..l /\ 0 + 1 = 1 /\ 1 \in 1..1
    BY <1>2
  <2> QED
    BY <1>1, <2>1
<1>4. ASSUME NEW i \in 1..l, i - 1 \in P  PROVE i \in P
  <2>1. i \in 1..n /\ i \in 0..l /\ i - 1 + 1 = i /\ i \in 1..(Len(q) - 1)
    BY <1>1, <1>2
  <2>2. PICK j \in 1..i : q[i] \in met[j]
    BY <1>4, <2>1
  <2>3. j \in 1..n /\ j \in 1..(i + 1) /\ j + 1 \in 1..(i + 1) /\ \A k \in 1..j : k \in 1..(i + 1)
    BY <1>1, <2>1
  <2>4. q[i + 1] \in g[q[i]]
    BY <2>1 DEF Walk
  <2>5. CASE \E k \in 1..j : q[i + 1] \in met[k]
    BY <2>1, <2>3, <2>5
  <2>6. CASE ~\E k \in 1..j : q[i + 1] \in met[k]
    <3>1. q[i + 1] \in Fresh(g, met, j)
      BY <2>2, <2>4, <2>6 DEF Fresh
    <3>2. q[i + 1] \in met[j + 1]
      BY <1>1, <2>3, <3>1
    <3> QED
      BY <2>1, <2>3, <3>2
  <2> QED
    BY <2>5, <2>6
<1> HIDE DEF P
<1>5. \A i \in 0..l : i \in P
  BY <1>2, <1>3, <1>4, StepByStep
<1>6. l \in P
  BY <1>2, <1>5
<1>7. PICK j \in 1..(l + 1) : q[l + 1] \in met[j]
  BY <1>6 DEF P
<1> QED
  BY <1>2, <1>7

LEMMA WalkReaches ==
    ASSUME NEW g, NEW s, NEW n, NEW met, Searched(g, s, n, met),
           NEW q, Walk(g, n, q), q[1] = s
    PROVE  Reached(met, n, q[Len(q)])
<1>1. n \in Nat /\ Len(q) \in 1..(n + 1)
  BY DEF Searched, Walk
<1>2. PICK j \in 1..Len(q) : q[Len(q)] \in met[j]
  BY WalkArrives
<1>3. j \in 1..(n + 1)
  BY <1>1
<1> QED
  BY <1>2, <1>3 DEF Reached

LEMMA GeodesicIsWalk ==
    ASSUME NEW g, NEW s, NEW n, NEW met, Searched(g, s, n, met),
           NEW t, NEW q \in GeodesicsTo(g, met, t)
    PROVE  Walk(g, n, q) /\ q[1] = s /\ q[Len(q)] = t
<1>1. Geodesic(g, met, q) /\ Last(q) = t /\ Len(met) = n + 1 /\ met[1] = {s}
  BY DEF GeodesicsTo, Searched, IsMet
<1>2. Len(q) \in Nat \ {0}
  BY <1>1, GeodesicEnds
<1>3. 1 \in 1..Len(q)
  BY <1>2
<1>4. q[1] = s
  BY <1>1, <1>3 DEF Geodesic
<1> QED
  BY <1>1, <1>4 DEF Walk, Geodesic, Last

LEMMA ReachedByGeodesic ==
    ASSUME NEW g, NEW s, NEW n, NEW met, Searched(g, s, n, met),
           NEW t \in DOMAIN g, Reached(met, n, t)
    PROVE  \E q : q \in GeodesicsTo(g, met, t)
<1>1. Counts(g, met)[t] # 0
  BY ReachedHasPaths
<1>2. Counts(g, met)[t] = Cardinality(GeodesicsTo(g, met, t))
  BY DEF Counts, HowMany
<1>3. GeodesicsTo(g, met, t) # {}
  BY <1>1, <1>2, FS_EmptySet
<1> QED
  BY <1>3

\* A walk can be walked back.
LEMMA WalkBack ==
    ASSUME NEW g, Undirected(g), NEW n \in Nat, NEW q, Walk(g, n, q)
    PROVE  \E r : Walk(g, n, r) /\ Len(r) = Len(q) /\ r[1] = q[Len(q)] /\ r[Len(r)] = q[1]
<1> DEFINE l == Len(q)
           r == [i \in 1..l |-> q[l + 1 - i]]
<1>1. l \in Nat /\ l >= 1 /\ q \in Seq(DOMAIN g) /\ l \in 1..(n + 1)
  BY DEF Walk
<1>2. \A i \in 1..l : l + 1 - i \in 1..l
  BY <1>1
<1>3. r \in Seq(DOMAIN g) /\ Len(r) = l
  BY <1>1, <1>2
<1>4. ASSUME NEW i \in 1..(l - 1)  PROVE r[i + 1] \in g[r[i]]
  <2>1. l - i \in 1..(l - 1) /\ l - i + 1 = l + 1 - i /\ l + 1 - (i + 1) = l - i
        /\ i \in 1..l /\ i + 1 \in 1..l /\ l - i \in 1..l
    BY <1>1
  <2>2. r[i + 1] = q[l - i] /\ r[i] = q[l - i + 1]
    BY <2>1
  <2>3. q[l - i + 1] \in g[q[l - i]] /\ q[l - i] \in DOMAIN g /\ q[l - i + 1] \in DOMAIN g
    BY <1>1, <1>2, <2>1 DEF Walk
  <2>4. q[l - i] \in g[q[l - i + 1]]
    BY <2>3 DEF Undirected
  <2> QED
    BY <2>2, <2>4
<1>5. r[1] = q[l] /\ r[l] = q[1]
  <2>1. 1 \in 1..l /\ l \in 1..l /\ l + 1 - 1 = l /\ l + 1 - l = 1
    BY <1>1
  <2> QED
    BY <2>1
<1> HIDE DEF r
<1>6. Walk(g, n, r) /\ r[Len(r)] = q[1]
  BY <1>1, <1>3, <1>4, <1>5 DEF Walk
<1> QED
  BY <1>3, <1>5, <1>6

\* Reaching is mutual.
LEMMA ReachIsMutual ==
    ASSUME NEW g, Undirected(g), NEW s \in DOMAIN g, NEW t \in DOMAIN g, NEW n \in Nat,
           t \in reachable_within(g, s, n)
    PROVE  s \in reachable_within(g, t, n)
<1> DEFINE met == levels(g, s, n)
           back == levels(g, t, n)
<1>1. Searched(g, s, n, met) /\ Searched(g, t, n, back)
  BY LevelsSearched
<1>2. Reached(met, n, t) /\ s # t
  BY ReachableIs
<1> HIDE DEF met, back
<1>3. PICK q : q \in GeodesicsTo(g, met, t)
  BY <1>1, <1>2, ReachedByGeodesic
<1>4. Walk(g, n, q) /\ q[1] = s /\ q[Len(q)] = t
  BY <1>1, <1>3, GeodesicIsWalk
<1>5. PICK r : Walk(g, n, r) /\ r[1] = t /\ r[Len(r)] = s
  BY <1>4, WalkBack
<1>6. Reached(back, n, s)
  BY <1>1, <1>5, WalkReaches
<1> QED
  BY <1>2, <1>6, ReachableIs DEF back

\* And no farther one way than the other.
LEMMA NotFarther ==
    ASSUME NEW g, Undirected(g), NEW s \in DOMAIN g, NEW t \in DOMAIN g, NEW n \in Nat,
           NEW i \in 1..(n + 1), t \in levels(g, s, n)[i]
    PROVE  \E j \in 1..i : s \in levels(g, t, n)[j]
<1> DEFINE met == levels(g, s, n)
           back == levels(g, t, n)
<1>1. Searched(g, s, n, met) /\ Searched(g, t, n, back) /\ t \in met[i]
  BY LevelsSearched
<1> HIDE DEF met, back
<1>2. Reached(met, n, t)
  BY <1>1 DEF Reached
<1>3. PICK q : q \in GeodesicsTo(g, met, t)
  BY <1>1, <1>2, ReachedByGeodesic
<1>4. Walk(g, n, q) /\ q[1] = s /\ q[Len(q)] = t
  BY <1>1, <1>3, GeodesicIsWalk
<1>5. Len(q) = i
  <2>1. Len(q) \in 1..(n + 1)
    BY <1>4 DEF Walk
  <2>2. t \in met[Len(q)]
    BY <1>3, <1>4, GeodesicEnds DEF GeodesicsTo
  <2>3. Apart(met, n)
    BY <1>1, AllApart DEF Searched
  <2> QED
    BY <1>1, <2>1, <2>2, <2>3 DEF Apart
<1>6. PICK r : Walk(g, n, r) /\ Len(r) = i /\ r[1] = t /\ r[Len(r)] = s
  BY <1>4, <1>5, WalkBack
<1>7. \E j \in 1..i : s \in back[j]
  BY <1>1, <1>6, WalkArrives
<1> QED
  BY <1>7 DEF back

\* Two people are as far apart from either end.
LEMMA SameDistance ==
    ASSUME NEW g, Undirected(g), NEW s \in DOMAIN g, NEW t \in DOMAIN g, NEW n \in Nat,
           NEW i \in 1..(n + 1), t \in levels(g, s, n)[i]
    PROVE  s \in levels(g, t, n)[i]
<1>1. PICK j \in 1..i : s \in levels(g, t, n)[j]
  BY NotFarther
<1>2. j \in 1..(n + 1)
  OBVIOUS
<1>3. PICK k \in 1..j : t \in levels(g, s, n)[k]
  BY <1>1, <1>2, NotFarther
<1>4. k \in 1..(n + 1)
  BY <1>2
<1>5. Apart(levels(g, s, n), n)
  BY LevelsSearched, AllApart DEF Searched
<1>6. k = i
  BY <1>3, <1>4, <1>5 DEF Apart
<1>7. j = i
  BY <1>6
<1> QED
  BY <1>1, <1>7

\* No shortest path between two others leads through p.
NotBetween(g, n, p) ==
    \A s, t \in DOMAIN g \ {p} : s # t =>
        \A q \in all_shortest_paths(g, s, t, n) : p \notin ToSet(q)

LEMMA WithoutNode ==
    ASSUME NEW g, Undirected(g), NEW p
    PROVE  /\ Undirected(without_node(g, p)) /\ DOMAIN without_node(g, p) = DOMAIN g \ {p}
           /\ \A x \in DOMAIN g \ {p} : without_node(g, p)[x] = g[x] \ {p}
<1> DEFINE h == without_node(g, p)
<1>1. DOMAIN h = DOMAIN g \ {p} /\ h = [x \in DOMAIN g \ {p} |-> g[x] \ {p}]
  BY DEF without_node
<1> HIDE DEF h
<1>2. \A x \in DOMAIN g \ {p} : h[x] = g[x] \ {p}
  BY <1>1
<1>3. IsFiniteSet(DOMAIN g) /\ DOMAIN g \subseteq Int /\ \A x \in DOMAIN g : g[x] \in SUBSET DOMAIN g
  BY DEF Undirected
<1>4. IsFiniteSet(DOMAIN h) /\ DOMAIN h \subseteq Int
  BY <1>1, <1>3, FS_Subset
<1>5. h \in [DOMAIN h -> SUBSET DOMAIN h]
  BY <1>1, <1>3
<1>6. \A x, y \in DOMAIN h : x \in h[y] <=> y \in h[x]
  BY <1>1, <1>2 DEF Undirected
<1>7. Undirected(h)
  BY <1>4, <1>5, <1>6 DEF Undirected
<1> QED
  BY <1>1, <1>2, <1>7 DEF h

\* Walks of the rest are walks, and those that avoid p are walks of the rest.
LEMMA WalksWithout ==
    ASSUME NEW g, Undirected(g), NEW p, NEW n \in Nat, NEW q
    PROVE  Walk(without_node(g, p), n, q) <=> Walk(g, n, q) /\ p \notin ToSet(q)
<1> DEFINE h == without_node(g, p)
<1>1. DOMAIN h = DOMAIN g \ {p} /\ \A x \in DOMAIN g \ {p} : h[x] = g[x] \ {p}
  BY WithoutNode
<1> HIDE DEF h
<1>2. ASSUME Walk(h, n, q)  PROVE Walk(g, n, q) /\ p \notin ToSet(q)
  <2>1. q \in Seq(DOMAIN h) /\ Len(q) \in Nat /\ DOMAIN q = 1..Len(q)
    BY <1>2 DEF Walk
  <2>2. \A i \in 1..Len(q) : q[i] \in DOMAIN g \ {p}
    BY <1>1, <2>1
  <2>3. q \in Seq(DOMAIN g)
    BY <1>1, <2>1
  <2>4. \A i \in 1..(Len(q) - 1) : i \in 1..Len(q)
    BY <2>1
  <2>5. \A i \in 1..(Len(q) - 1) : q[i + 1] \in g[q[i]]
    BY <1>1, <1>2, <2>2, <2>4 DEF Walk
  <2> QED
    BY <1>2, <2>1, <2>2, <2>3, <2>5 DEF Walk, ToSet
<1>3. ASSUME Walk(g, n, q), p \notin ToSet(q)  PROVE Walk(h, n, q)
  <2>1. q \in Seq(DOMAIN g) /\ Len(q) \in Nat /\ DOMAIN q = 1..Len(q)
    BY <1>3 DEF Walk
  <2>2. \A i \in 1..Len(q) : q[i] \in DOMAIN h
    BY <1>1, <1>3, <2>1 DEF ToSet
  <2>3. q \in Seq(DOMAIN h)
    BY <2>1, <2>2
  <2>4. \A i \in 1..(Len(q) - 1) : i \in 1..Len(q) /\ i + 1 \in 1..Len(q)
    BY <2>1
  <2>5. \A i \in 1..(Len(q) - 1) : q[i + 1] \in h[q[i]]
    BY <1>1, <1>3, <2>2, <2>4 DEF Walk
  <2> QED
    BY <1>3, <2>3, <2>5 DEF Walk
<1> QED
  BY <1>2, <1>3 DEF h

\* Whoever p is not between can do without p.
LEMMA ReachWithout ==
    ASSUME NEW g, Undirected(g), NEW n \in Nat, NEW p, NotBetween(g, n, p),
           NEW s \in DOMAIN g \ {p}, NEW t \in DOMAIN g \ {p}
    PROVE  t \in reachable_within(g, s, n) <=> t \in reachable_within(without_node(g, p), s, n)
<1> DEFINE h == without_node(g, p)
           met == levels(g, s, n)
           left_met == levels(h, s, n)
<1>1. Undirected(h) /\ DOMAIN h = DOMAIN g \ {p}
  BY WithoutNode
<1>2. Searched(g, s, n, met)
  BY LevelsSearched
<1> HIDE DEF h
<1>3. Searched(h, s, n, left_met)
  BY <1>1, LevelsSearched
<1>4. all_shortest_paths(g, s, t, n) = GeodesicsTo(g, met, t)
  BY ShortestAreGeodesics
<1>5. t \in reachable_within(g, s, n) <=> t # s /\ Reached(met, n, t)
  BY ReachableIs
<1>6. t \in reachable_within(h, s, n) <=> t # s /\ Reached(left_met, n, t)
  BY <1>1, ReachableIs
<1> HIDE DEF met, left_met
<1>7. ASSUME t # s, Reached(met, n, t)  PROVE Reached(left_met, n, t)
  <2>1. PICK q : q \in GeodesicsTo(g, met, t)
    BY <1>2, <1>7, ReachedByGeodesic
  <2>2. Walk(g, n, q) /\ q[1] = s /\ q[Len(q)] = t
    BY <1>2, <2>1, GeodesicIsWalk
  <2>3. p \notin ToSet(q)
    BY <1>4, <1>7, <2>1 DEF NotBetween
  <2>4. Walk(h, n, q)
    BY <2>2, <2>3, WalksWithout DEF h
  <2> QED
    BY <1>3, <2>2, <2>4, WalkReaches
<1>8. ASSUME Reached(left_met, n, t)  PROVE Reached(met, n, t)
  <2>1. PICK q : q \in GeodesicsTo(h, left_met, t)
    BY <1>1, <1>3, <1>8, ReachedByGeodesic
  <2>2. Walk(h, n, q) /\ q[1] = s /\ q[Len(q)] = t
    BY <1>3, <2>1, GeodesicIsWalk
  <2>3. Walk(g, n, q)
    BY <2>2, WalksWithout DEF h
  <2> QED
    BY <1>2, <2>2, <2>3, WalkReaches
<1>9. t \in reachable_within(g, s, n) <=> t \in reachable_within(h, s, n)
  BY <1>5, <1>6, <1>7, <1>8
<1> QED
  BY <1>9 DEF h

\* The pairs of a group that reach each other.
Pairing(g, keys, n) ==
    {e \in keys \X keys : e[1] < e[2] /\ e[2] \in reachable_within(g, e[1], n)}

LEMMA PairingIsFinite ==
    ASSUME NEW g, NEW keys, IsFiniteSet(keys), NEW n
    PROVE  /\ IsFiniteSet(Pairing(g, keys, n)) /\ Cardinality(Pairing(g, keys, n)) \in Nat
           /\ reachable_pair_count(g, keys, n) = Cardinality(Pairing(g, keys, n))
<1>1. IsFiniteSet(keys \X keys) /\ Pairing(g, keys, n) \subseteq keys \X keys
  BY FS_Product DEF Pairing
<1>2. IsFiniteSet(Pairing(g, keys, n))
  BY <1>1, FS_Subset
<1> QED
  BY <1>2, FS_CardinalityType DEF Pairing, reachable_pair_count

LEMMA PairingWithout ==
    ASSUME NEW g, Undirected(g), NEW n \in Nat, NEW p, NotBetween(g, n, p)
    PROVE  Pairing(g, DOMAIN g \ {p}, n) = Pairing(without_node(g, p), DOMAIN g \ {p}, n)
<1> DEFINE O == DOMAIN g \ {p}
           h == without_node(g, p)
<1>1. \A s, t \in O : t \in reachable_within(g, s, n) <=> t \in reachable_within(h, s, n)
  BY ReachWithout
<1> HIDE DEF O, h
<1>2. \A e \in O \X O : (e[1] < e[2] /\ e[2] \in reachable_within(g, e[1], n))
                         <=> (e[1] < e[2] /\ e[2] \in reachable_within(h, e[1], n))
  BY <1>1
<1>3. Pairing(g, O, n) = Pairing(h, O, n)
  BY <1>2 DEF Pairing
<1> QED
  BY <1>3 DEF O, h

\* Nobody else is separated.
LEMMA NobodySeparated ==
    ASSUME NEW g, Undirected(g), NEW n \in Nat, NEW p, NotBetween(g, n, p)
    PROVE  bus_factor_impact(g, p, n) = 0
<1> DEFINE O == DOMAIN g \ {p}
           h == without_node(g, p)
<1>1. IsFiniteSet(O)
  BY FS_Subset DEF Undirected
<1>2. Pairing(g, O, n) = Pairing(h, O, n)
  BY PairingWithout
<1>3. bus_factor_impact(g, p, n) = reachable_pair_count(g, O, n) - reachable_pair_count(h, O, n)
  BY DEF bus_factor_impact
<1> HIDE DEF O, h
<1>4. /\ reachable_pair_count(g, O, n) = Cardinality(Pairing(g, O, n))
      /\ reachable_pair_count(h, O, n) = Cardinality(Pairing(h, O, n))
      /\ Cardinality(Pairing(g, O, n)) \in Nat
  BY <1>1, PairingIsFinite
<1> QED
  BY <1>2, <1>3, <1>4

\* The pairs one end of which is p.
OwnPairs(g, p, n) ==
    {e \in Pairing(g, DOMAIN g, n) : e[1] = p \/ e[2] = p}

InKeyOrder(p, x) == IF x < p THEN <<x, p>> ELSE <<p, x>>

LEMMA KeyOrder ==
    ASSUME NEW p \in Int, NEW x \in Int, NEW y \in Int, x # p, y # p
    PROVE  /\ InKeyOrder(p, x)[1] < InKeyOrder(p, x)[2]
           /\ \/ x < p /\ InKeyOrder(p, x) = <<x, p>>
              \/ p < x /\ InKeyOrder(p, x) = <<p, x>>
           /\ InKeyOrder(p, x) = InKeyOrder(p, y) => x = y
BY DEF InKeyOrder

LEMMA OwnPairsAreReached ==
    ASSUME NEW g, Undirected(g), NEW n \in Nat, NEW p \in DOMAIN g
    PROVE  Cardinality(OwnPairs(g, p, n)) = Cardinality(reachable_within(g, p, n))
<1> DEFINE R == reachable_within(g, p, n)
           Q == OwnPairs(g, p, n)
           f == [x \in R |-> InKeyOrder(p, x)]
<1>1. DOMAIN g \subseteq Int /\ IsFiniteSet(DOMAIN g)
  BY DEF Undirected
<1>2. R \in SUBSET DOMAIN g /\ \A t : t \in R => t # p
  BY ReachableIs
<1>3. \A e : e \in Q <=> /\ e \in (DOMAIN g) \X (DOMAIN g) /\ e[1] < e[2]
                         /\ e[2] \in reachable_within(g, e[1], n) /\ (e[1] = p \/ e[2] = p)
  BY DEF OwnPairs, Pairing
<1>4. \A s, t \in DOMAIN g : t \in reachable_within(g, s, n) => s \in reachable_within(g, t, n)
  BY ReachIsMutual
<1>5. \A x \in R : x \in Int /\ p \in Int /\ x \in DOMAIN g /\ x # p
  BY <1>1, <1>2
<1>6. ASSUME NEW x \in R  PROVE InKeyOrder(p, x) \in Q
  <2>1. x \in DOMAIN g /\ x # p /\ x \in Int /\ p \in Int
    BY <1>5
  <2>2. x \in reachable_within(g, p, n) /\ p \in reachable_within(g, x, n)
    BY <1>4, <2>1
  <2>3. CASE x < p
    <3>1. InKeyOrder(p, x) = <<x, p>>
      BY <2>3 DEF InKeyOrder
    <3>2. <<x, p>>[1] = x /\ <<x, p>>[2] = p /\ <<x, p>> \in (DOMAIN g) \X (DOMAIN g)
      BY <2>1
    <3> HIDE DEF Q, R
    <3> QED
      BY <1>3, <2>2, <2>3, <3>1, <3>2
  <2>4. CASE ~(x < p)
    <3>1. InKeyOrder(p, x) = <<p, x>> /\ p < x
      BY <2>1, <2>4 DEF InKeyOrder
    <3>2. <<p, x>>[1] = p /\ <<p, x>>[2] = x /\ <<p, x>> \in (DOMAIN g) \X (DOMAIN g)
      BY <2>1
    <3> HIDE DEF Q, R
    <3> QED
      BY <1>3, <2>2, <3>1, <3>2
  <2> QED
    BY <2>3, <2>4
<1>7. ASSUME NEW e \in Q  PROVE \E x \in R : InKeyOrder(p, x) = e
  <2>1. /\ e \in (DOMAIN g) \X (DOMAIN g) /\ e[1] < e[2]
        /\ e[2] \in reachable_within(g, e[1], n) /\ (e[1] = p \/ e[2] = p)
    BY <1>3
  <2>2. e = <<e[1], e[2]>> /\ e[1] \in DOMAIN g /\ e[2] \in DOMAIN g /\ e[1] \in Int /\ e[2] \in Int
    BY <1>1, <2>1
  <2>3. CASE e[1] = p
    <3>1. e[2] \in R /\ ~(e[2] < p)
      BY <2>1, <2>2, <2>3
    <3>2. InKeyOrder(p, e[2]) = e
      BY <2>2, <2>3, <3>1 DEF InKeyOrder
    <3> QED
      BY <3>1, <3>2
  <2>4. CASE e[2] = p
    <3>1. e[1] \in R
      BY <1>4, <2>1, <2>2, <2>4
    <3>2. InKeyOrder(p, e[1]) = e
      BY <2>1, <2>2, <2>4 DEF InKeyOrder
    <3> QED
      BY <3>1, <3>2
  <2> QED
    BY <2>1, <2>3, <2>4
<1>8. \A x, y \in R : InKeyOrder(p, x) = InKeyOrder(p, y) => x = y
  BY <1>5, KeyOrder
<1>9. IsFiniteSet(R)
  BY <1>1, <1>2, FS_Subset
<1> HIDE DEF Q, R
<1>10. f \in [R -> Q] /\ \A x \in R : f[x] = InKeyOrder(p, x)
  BY <1>6
<1> HIDE DEF f
<1>11. f \in Bijection(R, Q)
  BY <1>7, <1>8, <1>10 DEF Bijection, Injection, Surjection, IsInjective
<1>12. ExistsBijection(R, Q)
  BY <1>11 DEF ExistsBijection
<1>13. Cardinality(Q) = Cardinality(R)
  BY <1>9, <1>12, FS_Bijection
<1> QED
  BY <1>13 DEF Q, R

\* Only the person's own pairs are lost.
LEMMA OnlyOwnPairsLost ==
    ASSUME NEW g, Undirected(g), NEW n \in Nat, NEW p \in DOMAIN g, NotBetween(g, n, p)
    PROVE  removal_impact(g, p, n) = Cardinality(reachable_within(g, p, n))
<1> DEFINE O == DOMAIN g \ {p}
           h == without_node(g, p)
           A == Pairing(g, O, n)
           Q == OwnPairs(g, p, n)
           W == Pairing(g, DOMAIN g, n)
<1>1. IsFiniteSet(DOMAIN g) /\ IsFiniteSet(O)
  BY FS_Subset DEF Undirected
<1>2. A = Pairing(h, O, n)
  BY PairingWithout
<1>3. DOMAIN h = O
  BY WithoutNode
<1>4. removal_impact(g, p, n) = reachable_pair_count(g, DOMAIN g, n) - reachable_pair_count(h, O, n)
  BY <1>3 DEF removal_impact
<1>5. W = A \union Q /\ A \intersect Q = {}
  BY DEF Pairing, OwnPairs
<1>6. Cardinality(Q) = Cardinality(reachable_within(g, p, n))
  BY OwnPairsAreReached
<1>7. Q \in SUBSET W
  BY DEF OwnPairs
<1> HIDE DEF O, h
<1>8. /\ reachable_pair_count(g, DOMAIN g, n) = Cardinality(W)
      /\ reachable_pair_count(h, O, n) = Cardinality(A)
      /\ Cardinality(A) \in Nat /\ IsFiniteSet(A) /\ IsFiniteSet(W)
  BY <1>1, <1>2, PairingIsFinite
<1> HIDE DEF A, Q, W
<1>9. IsFiniteSet(Q)
  BY <1>7, <1>8, FS_Subset
<1>10. Cardinality(Q) \in Nat /\ Cardinality(A \intersect Q) = 0
  BY <1>5, <1>9, FS_CardinalityType, FS_EmptySet
<1>11. Cardinality(W) = Cardinality(A) + Cardinality(Q) - Cardinality(A \intersect Q)
  BY <1>5, <1>8, <1>9, FS_Union
<1> QED
  BY <1>4, <1>6, <1>8, <1>10, <1>11

\* What is met at a distance does not depend on how far the search goes.
LEMMA SameLevels ==
    ASSUME NEW g, NEW s, NEW n, NEW met, Searched(g, s, n, met),
           NEW k, NEW far, Searched(g, s, k, far)
    PROVE  \A i \in 1..(n + 1) : i <= k + 1 => met[i] = far[i]
<1> DEFINE P == {i \in 0..n : i <= k => \A j \in 1..(i + 1) : met[j] = far[j]}
<1>1. n \in Nat /\ met[1] = {s} /\ \A i \in 1..n : met[i + 1] = Fresh(g, met, i)
  BY DEF Searched, IsMet
<1>2. k \in Nat /\ far[1] = {s} /\ \A i \in 1..k : far[i + 1] = Fresh(g, far, i)
  BY DEF Searched, IsMet
<1>3. 0 \in P
  <2>1. 0 \in 0..n /\ 1..(0 + 1) = {1}
    BY <1>1
  <2> QED
    BY <1>1, <1>2, <2>1
<1>4. ASSUME NEW i \in 1..n, i - 1 \in P  PROVE i \in P
  <2>1. i \in 0..n /\ i - 1 + 1 = i
    BY <1>1
  <2>2. CASE i <= k
    <3>1. i \in 1..k /\ i - 1 <= k
      BY <1>1, <1>2, <2>2
    <3>2. \A j \in 1..i : met[j] = far[j]
      BY <1>4, <2>1, <3>1
    <3>3. i \in 1..i
      BY <1>1
    <3>4. Fresh(g, met, i) = Fresh(g, far, i)
      BY <3>2, <3>3 DEF Fresh
    <3>5. met[i + 1] = far[i + 1]
      BY <1>1, <1>2, <3>1, <3>4
    <3>6. \A j \in 1..(i + 1) : j \in 1..i \/ j = i + 1
      BY <1>1
    <3> QED
      BY <2>1, <3>2, <3>5, <3>6
  <2> QED
    BY <2>1, <2>2
<1> HIDE DEF P
<1>5. \A i \in 0..n : i \in P
  BY <1>1, <1>3, <1>4, StepByStep
<1>6. ASSUME NEW i \in 1..(n + 1), i <= k + 1  PROVE met[i] = far[i]
  <2>1. i - 1 \in 0..n /\ i - 1 <= k /\ i \in 1..(i - 1 + 1)
    BY <1>1, <1>2, <1>6
  <2>2. i - 1 \in P
    BY <1>5, <2>1
  <2> QED
    BY <2>1, <2>2 DEF P
<1> QED
  BY <1>6

\* A shortest path meets nobody twice.
LEMMA GeodesicsAreShort ==
    ASSUME NEW g, NEW s, NEW n, NEW met, Searched(g, s, n, met), NEW q, Geodesic(g, met, q)
    PROVE  Len(q) <= Cardinality(DOMAIN g)
<1>1. n \in Nat /\ Apart(met, n) /\ Len(met) = n + 1 /\ IsFiniteSet(DOMAIN g)
  BY AllApart DEF Searched, IsMet, Undirected
<1>2. q \in Seq(DOMAIN g) /\ Len(q) \in Nat \ {0} /\ Len(q) \in 1..(n + 1)
      /\ \A i \in 1..Len(q) : q[i] \in met[i]
  BY <1>1, GeodesicEnds DEF Geodesic
<1>3. q \in [1..Len(q) -> DOMAIN g]
  BY <1>2
<1>4. ASSUME NEW i \in 1..Len(q), NEW j \in 1..Len(q), q[i] = q[j]  PROVE i = j
  <2>1. i \in 1..(n + 1) /\ j \in 1..(n + 1)
    BY <1>1, <1>2
  <2>2. q[i] \in met[i] /\ q[i] \in met[j]
    BY <1>2, <1>4
  <2> QED
    BY <1>1, <2>1, <2>2 DEF Apart
<1>5. q \in Injection(1..Len(q), DOMAIN g)
  BY <1>3, <1>4 DEF Injection, IsInjective
<1>6. Cardinality(1..Len(q)) <= Cardinality(DOMAIN g)
  BY <1>1, <1>5, FS_Injection
<1>7. Cardinality(1..Len(q)) = Len(q)
  BY <1>2, FS_Interval
<1> QED
  BY <1>6, <1>7

\* Who is on no shortest path of any length is on none of those of max_len.
LEMMA NotBetweenAtAll ==
    ASSUME NEW g, Undirected(g), NEW n \in Nat, NEW p, NotBetween(g, Cardinality(DOMAIN g), p)
    PROVE  NotBetween(g, n, p)
<1> DEFINE k == Cardinality(DOMAIN g)
<1>1. k \in Nat
  BY FS_CardinalityType DEF Undirected
<1> SUFFICES ASSUME NEW s \in DOMAIN g \ {p}, NEW t \in DOMAIN g \ {p}, s # t,
                    NEW q \in all_shortest_paths(g, s, t, n)
             PROVE  p \notin ToSet(q)
  BY DEF NotBetween
<1> DEFINE met == levels(g, s, n)
           far == levels(g, s, k)
<1>2. q \in GeodesicsTo(g, met, t)
  BY ShortestAreGeodesics
<1>3. all_shortest_paths(g, s, t, k) = GeodesicsTo(g, far, t)
  BY <1>1, ShortestAreGeodesics
<1>4. Searched(g, s, n, met) /\ Searched(g, s, k, far)
  BY <1>1, LevelsSearched
<1>a. \A r \in all_shortest_paths(g, s, t, k) : p \notin ToSet(r)
  BY DEF NotBetween
<1> HIDE DEF met, far
<1>5. Geodesic(g, met, q) /\ q \in Seq(DOMAIN g) /\ Last(q) = t
  BY <1>2 DEF GeodesicsTo
<1>6. Len(q) <= k
  BY <1>4, <1>5, GeodesicsAreShort
<1> HIDE DEF k
<1>7. Len(met) = n + 1 /\ Len(far) = k + 1
  BY <1>4 DEF Searched, IsMet
<1>8. Len(q) \in 1..(n + 1) /\ Len(q) \in 1..(k + 1) /\ Len(q) \in Nat
  BY <1>1, <1>5, <1>6, <1>7 DEF Geodesic
<1>9. \A i \in 1..Len(q) : i \in 1..(n + 1) /\ i <= k + 1
  BY <1>1, <1>8
<1>10. \A i \in 1..Len(q) : met[i] = far[i]
  BY <1>4, <1>9, SameLevels
<1>11. Geodesic(g, far, q)
  BY <1>5, <1>7, <1>8, <1>10 DEF Geodesic
<1>12. q \in GeodesicsTo(g, far, t)
  BY <1>5, <1>11 DEF GeodesicsTo
<1> QED
  BY <1>3, <1>12, <1>a

\* Shares are whole, so that a share of nothing means not one path.
LEMMA NoShareNoPath ==
    ASSUME NEW g, Undirected(g), NEW n \in Nat, WholeShares(g, n), NEW p,
           NEW s \in DOMAIN g, NEW t \in DOMAIN g, ShareOf(g, n, p, s, t) = 0,
           NEW q \in all_shortest_paths(g, s, t, n)
    PROVE  p \notin ToSet(q)
<1> DEFINE paths == all_shortest_paths(g, s, t, n)
           through == {r \in paths : p \in ToSet(r)}
           met == levels(g, s, n)
<1>1. paths = GeodesicsTo(g, met, t)
  BY ShortestAreGeodesics
<1>2. Searched(g, s, n, met)
  BY LevelsSearched
<1> HIDE DEF met
<1>3. IsFiniteSet(paths)
  BY <1>1, <1>2, GeodesicsAreFinite
<1>4. paths # {} /\ through \in SUBSET paths /\ q \in paths
  OBVIOUS
<1>5. PICK k \in 1..Unit : Unit = k * Cardinality(paths)
  BY <1>4 DEF WholeShares
<1>6. (Unit * Cardinality(through)) \div Cardinality(paths) = 0
  BY <1>4 DEF ShareOf
<1> HIDE DEF paths
<1>7. IsFiniteSet(through) /\ Cardinality(through) \in Nat /\ Cardinality(paths) \in Nat
      /\ Cardinality(paths) # 0
  BY <1>3, <1>4, FS_Subset, FS_CardinalityType, FS_EmptySet
<1>8. Cardinality(through) = 0 => p \notin ToSet(q)
  <2>1. Cardinality(through) = 0 => through = {}
    BY <1>7, FS_EmptySet
  <2> QED
    BY <1>4, <2>1
<1> DEFINE a == Cardinality(paths)
           v == Cardinality(through)
<1> HIDE DEF through, a, v
<1>9. a \in Nat /\ a # 0 /\ v \in Nat /\ k \in Nat /\ k # 0 /\ Unit = k * a
  BY <1>5, <1>7, UnitAssumption DEF a, v
<1>10. Unit * v = (k * v) * a /\ k * v \in Nat
  BY <1>9
<1>11. ((k * v) * a) \div a = k * v
  BY <1>9, <1>10, Divided
<1>12. k * v = 0
  BY <1>6, <1>10, <1>11 DEF a, v
<1>13. v = 0
  BY <1>9, <1>12
<1> QED
  BY <1>8, <1>13 DEF v

ShareOfPairs(g, n, p) ==
    [e \in PairsOf(DOMAIN g \ {p}, DOMAIN g \ {p}) |-> ShareOf(g, n, p, e[1], e[2])]

LEMMA CentralityAddsUp ==
    ASSUME NEW g, Undirected(g), NEW n \in Nat, WholeShares(g, n),
           NEW K, NEW p \in K, p \in DOMAIN g
    PROVE  LET E == PairsOf(DOMAIN g \ {p}, DOMAIN g \ {p})
           IN  /\ Numbers(ShareOfPairs(g, n, p), E)
               /\ betweenness_centrality(g, K, n)[p] = SumFunctionOnSet(ShareOfPairs(g, n, p), E)
               /\ betweenness_centrality(g, K, n)[p] \in Nat
<1> DEFINE R == DOMAIN g \ {p}
           M == SharesOf(g, n, p)
           F == OfPairs(M, R)
           B == ShareOfPairs(g, n, p)
<1>1. Table(M, R, R)
  BY SharesTable
<1>2. Numbers(F, PairsOf(R, R))
  BY <1>1, SumOfPairs
<1>3. \A e \in PairsOf(R, R) : F[e] = B[e]
  <2> SUFFICES ASSUME NEW e \in PairsOf(R, R) PROVE F[e] = B[e]
    OBVIOUS
  <2>1. e[1] \in DOMAIN g /\ e[2] \in DOMAIN g
    BY DEF PairsOf
  <2>2. F[e] = Shares(g, levels(g, e[1], n), p)[e[2]]
    BY <2>1 DEF OfPairs, SharesOf
  <2>3. B[e] = ShareOf(g, n, p, e[1], e[2])
    BY DEF ShareOfPairs
  <2> QED
    BY <2>1, <2>2, <2>3, SharesAreOfPaths
<1>4. betweenness_centrality(g, K, n)[p] = SumFunctionOnSet(B, PairsOf(R, R))
  BY DEF betweenness_centrality, SumFunction, PairsOf, ShareOf, ShareOfPairs
<1> HIDE DEF F, B, R
<1>5. Numbers(B, PairsOf(R, R))
  BY <1>2, <1>3, SumCongruent
<1>6. SumFunctionOnSet(B, PairsOf(R, R)) \in Nat
  BY <1>5, SumByPick
<1> QED
  BY <1>4, <1>5, <1>6 DEF R, B

\* Who no share leads through is between nobody.
LEMMA NotCentral ==
    ASSUME NEW g, Undirected(g), NEW n \in Nat, WholeShares(g, n),
           NEW K, NEW p \in K, p \in DOMAIN g, betweenness_centrality(g, K, n)[p] = 0
    PROVE  NotBetween(g, n, p)
<1> DEFINE R == DOMAIN g \ {p}
           B == ShareOfPairs(g, n, p)
<1>1. Numbers(B, PairsOf(R, R)) /\ SumFunctionOnSet(B, PairsOf(R, R)) = 0
  BY CentralityAddsUp
<1>2. \A s, t \in R : s # t => <<s, t>> \in PairsOf(R, R) /\ B[<<s, t>>] = ShareOf(g, n, p, s, t)
  BY DEF PairsOf, ShareOfPairs
<1> HIDE DEF B
<1>3. \A e \in PairsOf(R, R) : B[e] = 0
  BY <1>1, SumZero
<1> SUFFICES ASSUME NEW s \in R, NEW t \in R, s # t, NEW q \in all_shortest_paths(g, s, t, n)
             PROVE  p \notin ToSet(q)
  BY DEF NotBetween
<1>4. ShareOf(g, n, p, s, t) = 0
  BY <1>2, <1>3
<1> QED
  BY <1>4, NoShareNoPath
=============================================================================
