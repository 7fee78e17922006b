------------------------- MODULE LedgerValueProofs --------------------------
(***************************************************************************)
(* Proofs about the amounts in the ledger: what is pending, what a         *)
(* representative weighs and what a token's supply is, after every         *)
(* sequence of Process, Rollback and Restart.                              *)
(***************************************************************************)
EXTENDS LedgerProofs, FiniteSetTheorems

-----------------------------------------------------------------------------
(***************************************************************************)
(* Sums over finite sets.  MapThenSumSet is a recursion over the subsets   *)
(* of its set; that it has a solution, that the solution is unique and     *)
(* what it adds up to are proved by looking at a minimal set for which     *)
(* they fail.                                                              *)
(***************************************************************************)
Any(s) == CHOOSE x \in s : TRUE

\* F solves the recursion for the weights w on the subsets of S.
Adds(F, w, S) ==
    F = [s \in SUBSET S |-> IF s = {} THEN 0 ELSE w[Any(s)] + F[s \ {Any(s)}]]

\* A non-empty collection of subsets of a finite set has a minimal member.
LEMMA MinimalSet ==
    ASSUME NEW U, IsFiniteSet(U), NEW Q, Q \subseteq SUBSET U, Q # {}
    PROVE  \E s \in Q : \A t \in SUBSET s : t # s => t \notin Q
<1> DEFINE N == {Cardinality(s) : s \in Q}
<1>1. \A s \in Q : IsFiniteSet(s) /\ Cardinality(s) \in Nat
  BY FS_Subset, FS_CardinalityType, Zenon
<1>2. N \subseteq Nat /\ N # {}
  BY <1>1, Zenon
<1>3. PICK n \in N : \A m \in N : n <= m
  <2> HIDE DEF N
  <2> QED BY <1>2, LeastNat, Zenon
<1>4. PICK s \in Q : Cardinality(s) = n
  BY <1>3, Zenon
<1>5. ASSUME NEW t \in SUBSET s, t # s, t \in Q PROVE FALSE
  <2>1. Cardinality(t) <= Cardinality(s) /\ Cardinality(t) # Cardinality(s)
    BY <1>1, <1>5, FS_Subset, Zenon
  <2>2. Cardinality(s) <= Cardinality(t)
    BY <1>3, <1>4, <1>5, Zenon
  <2> QED BY <1>1, <1>5, <2>1, <2>2
<1> QED BY <1>5, Zenon

\* Removing the chosen element leaves a smaller set.
LEMMA AnyFacts ==
    ASSUME NEW s, s # {}
    PROVE  Any(s) \in s /\ s \ {Any(s)} \in SUBSET s /\ s \ {Any(s)} # s
<1>1. Any(s) \in s
  BY Zenon DEF Any
<1> QED BY <1>1, Zenon

\* The sum is the value of a solution at the whole set.
LEMMA SumIs ==
    ASSUME NEW w, NEW S
    PROVE  Sum(w, S) = (CHOOSE F : Adds(F, w, S))[S]
  BY Zenon DEF Sum, MapThenSumSet, MapThenFoldSet, Adds, Any

\* Two functions that satisfy the recursion agree where both are defined.
LEMMA AddsOnce ==
    ASSUME NEW U, IsFiniteSet(U), NEW w, NEW S \in SUBSET U, NEW T \in SUBSET S,
           NEW F, Adds(F, w, S), NEW G, Adds(G, w, T)
    PROVE  \A s \in SUBSET T : F[s] = G[s]
<1> DEFINE Q == {s \in SUBSET T : F[s] # G[s]}
<1> SUFFICES ASSUME Q # {} PROVE FALSE
  BY Zenon
<1>1. Q \subseteq SUBSET U
  BY Zenon
<1>2. PICK s \in Q : \A t \in SUBSET s : t # s => t \notin Q
  <2> HIDE DEF Q
  <2> QED BY <1>1, MinimalSet, Zenon
<1>3. s \in SUBSET T /\ s \in SUBSET S /\ F[s] # G[s]
  BY Zenon
<1>4. /\ F[s] = IF s = {} THEN 0 ELSE w[Any(s)] + F[s \ {Any(s)}]
      /\ G[s] = IF s = {} THEN 0 ELSE w[Any(s)] + G[s \ {Any(s)}]
  BY <1>3, Zenon DEF Adds
<1>5. s # {} => F[s \ {Any(s)}] = G[s \ {Any(s)}]
  <2> SUFFICES ASSUME s # {} PROVE F[s \ {Any(s)}] = G[s \ {Any(s)}]
    BY Zenon
  <2>1. s \ {Any(s)} \in SUBSET s /\ s \ {Any(s)} # s
    BY AnyFacts, Zenon
  <2>2. s \ {Any(s)} \in SUBSET T /\ s \ {Any(s)} \notin Q
    BY <1>2, <1>3, <2>1, Zenon
  <2> QED BY <2>2, Zenon
<1> QED BY <1>3, <1>4, <1>5, Zenon

\* There is such a function.
LEMMA AddsExists ==
    ASSUME NEW S, IsFiniteSet(S), NEW w, \A x \in S : w[x] \in Int
    PROVE  \E F \in [SUBSET S -> Int] : Adds(F, w, S)
<1> DEFINE Step(F) == [s \in SUBSET S |-> IF s = {} THEN 0 ELSE w[Any(s)] + F[s \ {Any(s)}]]
           Upto(n) == {F \in [SUBSET S -> Int] :
                          \A s \in SUBSET S : Cardinality(s) <= n => F[s] = Step(F)[s]}
           N == {n \in Nat : Upto(n) = {}}
<1>1. \A s \in SUBSET S : IsFiniteSet(s) /\ Cardinality(s) \in Nat
  BY FS_Subset, FS_CardinalityType, Zenon
<1>2. \A s \in SUBSET S : s # {} =>
          /\ Any(s) \in S /\ s \ {Any(s)} \in SUBSET S
          /\ Cardinality(s \ {Any(s)}) = Cardinality(s) - 1
  BY <1>1, AnyFacts, FS_RemoveElement, Zenon
<1>3. \A F \in [SUBSET S -> Int] : Step(F) \in [SUBSET S -> Int]
  <2> TAKE F \in [SUBSET S -> Int]
  <2>1. \A s \in SUBSET S : s # {} => w[Any(s)] + F[s \ {Any(s)}] \in Int
    <3> TAKE s \in SUBSET S
    <3> HAVE s # {}
    <3>1. w[Any(s)] \in Int /\ F[s \ {Any(s)}] \in Int
      BY <1>2, Zenon
    <3> QED BY <3>1
  <2> QED BY <2>1
<1>4. Upto(0) # {}
  <2> DEFINE Z == [s \in SUBSET S |-> 0]
  <2>1. \A s \in SUBSET S : Cardinality(s) <= 0 => s = {}
    BY <1>1, FS_EmptySet
  <2>2. Z \in [SUBSET S -> Int] /\ \A s \in SUBSET S : Cardinality(s) <= 0 => Z[s] = Step(Z)[s]
    BY <2>1
  <2> QED BY <2>2, Zenon
<1>5. ASSUME NEW n \in Nat, NEW F \in Upto(n) PROVE Step(F) \in Upto(n + 1)
  <2> DEFINE G == Step(F)
  <2>1. G \in [SUBSET S -> Int]
    BY <1>3, Zenon
  <2>2. ASSUME NEW s \in SUBSET S, Cardinality(s) <= n + 1 PROVE G[s] = Step(G)[s]
    <3>1. CASE s = {}
      BY <3>1, Zenon
    <3>2. CASE s # {}
      <4>1. G[s] = w[Any(s)] + F[s \ {Any(s)}] /\ Step(G)[s] = w[Any(s)] + G[s \ {Any(s)}]
        BY <3>2, Zenon
      <4>2. s \ {Any(s)} \in SUBSET S /\ Cardinality(s \ {Any(s)}) <= n
        BY <1>1, <1>2, <2>2, <3>2
      <4>3. F[s \ {Any(s)}] = G[s \ {Any(s)}]
        BY <4>2, Zenon
      <4> QED BY <4>1, <4>3, Zenon
    <3> QED BY <3>1, <3>2, Zenon
  <2> QED BY <2>1, <2>2, Zenon
<1>6. N = {}
  <2> HIDE DEF Upto, Step
  <2> SUFFICES ASSUME N # {} PROVE FALSE
    BY Zenon
  <2>1. PICK n \in N : \A m \in N : n <= m
    <3>1. N \subseteq Nat
      BY Zenon
    <3> HIDE DEF N
    <3> QED BY <3>1, LeastNat, Zenon
  <2>2. n # 0
    BY <1>4, Zenon
  <2>3. n - 1 \in Nat /\ n - 1 \notin N
    BY <2>1, <2>2
  <2>4. PICK F : F \in Upto(n - 1)
    BY <2>3, Zenon
  <2>5. Step(F) \in Upto((n - 1) + 1)
    BY <2>3, <2>4, <1>5, Zenon
  <2>6. (n - 1) + 1 = n
    BY <2>3
  <2> QED BY <2>1, <2>5, <2>6, Zenon
<1>7. PICK F : F \in Upto(Cardinality(S))
  <2>1. Cardinality(S) \in Nat
    BY <1>1, Zenon
  <2> QED BY <1>6, <2>1, Zenon
<1>8. \A s \in SUBSET S : Cardinality(s) <= Cardinality(S)
  BY FS_Subset, Zenon
<1>9. F = Step(F)
  BY <1>3, <1>7, <1>8, Zenon
<1> QED BY <1>7, <1>9, Zenon DEF Adds

\* The sum over a finite set: nothing adds up to zero, and any element can be
\* taken out first.
LEMMA SumFacts ==
    ASSUME NEW U, IsFiniteSet(U), NEW w, \A x \in U : w[x] \in Int
    PROVE  /\ Sum(w, {}) = 0
           /\ \A s \in SUBSET U : Sum(w, s) \in Int
           /\ \A s \in SUBSET U : \A x \in s : Sum(w, s) = w[x] + Sum(w, s \ {x})
<1>1. PICK F \in [SUBSET U -> Int] : Adds(F, w, U)
  BY AddsExists, Zenon
<1>2. ASSUME NEW s \in SUBSET U PROVE F[s] = Sum(w, s)
  <2> DEFINE G == CHOOSE H : Adds(H, w, s)
  <2>1. IsFiniteSet(s) /\ \A x \in s : w[x] \in Int
    BY FS_Subset, Zenon
  <2>4. \E H : Adds(H, w, s)
    BY <2>1, AddsExists, Zenon
  <2>5. Adds(G, w, s)
    BY <2>4, Zenon
  <2> HIDE DEF G
  <2>6. \A t \in SUBSET s : F[t] = G[t]
    <3>1. U \in SUBSET U /\ s \in SUBSET U
      BY Zenon
    <3> QED BY <1>1, <2>5, <3>1, AddsOnce
  <2> QED BY <2>6, SumIs, Zenon DEF G
<1>3. F[{}] = 0 /\ \A s \in SUBSET U : s # {} => F[s] = w[Any(s)] + F[s \ {Any(s)}]
  BY <1>1, Zenon DEF Adds
<1>4. \A s \in SUBSET U : \A x \in s : F[s] = w[x] + F[s \ {x}]
  <2> DEFINE Q == {s \in SUBSET U : \E x \in s : F[s] # w[x] + F[s \ {x}]}
  <2> SUFFICES ASSUME Q # {} PROVE FALSE
    BY Zenon
  <2>1. PICK s \in Q : \A t \in SUBSET s : t # s => t \notin Q
    <3>1. Q \subseteq SUBSET U
      BY Zenon
    <3> HIDE DEF Q
    <3> QED BY <3>1, MinimalSet, Zenon
  <2>2. PICK x \in s : F[s] # w[x] + F[s \ {x}]
    BY Zenon
  <2> DEFINE y == Any(s)
  <2>3. y \in s /\ s \in SUBSET U
    BY <2>2, AnyFacts, Zenon
  <2>4. F[s] = w[y] + F[s \ {y}]
    BY <1>3, <2>2, Zenon
  <2> HIDE DEF y
  <2>5. x # y
    BY <2>2, <2>4, Zenon
  <2>6. /\ s \ {x} \in SUBSET U /\ s \ {x} \notin Q /\ y \in s \ {x}
        /\ s \ {y} \in SUBSET U /\ s \ {y} \notin Q /\ x \in s \ {y}
    BY <2>1, <2>3, <2>5, Zenon
  <2>7. F[s \ {x}] = w[y] + F[(s \ {x}) \ {y}] /\ F[s \ {y}] = w[x] + F[(s \ {y}) \ {x}]
    BY <2>6, Zenon
  <2>8. (s \ {x}) \ {y} = (s \ {y}) \ {x} /\ (s \ {x}) \ {y} \in SUBSET U
    BY <2>3, Zenon
  <2>9. w[x] \in Int /\ w[y] \in Int /\ F[(s \ {x}) \ {y}] \in Int
    BY <2>3, <2>8, Zenon
  <2> HIDE DEF Q
  <2>10. w[y] + (w[x] + F[(s \ {x}) \ {y}]) = w[x] + (w[y] + F[(s \ {x}) \ {y}])
    BY <2>9
  <2> QED BY <2>2, <2>4, <2>7, <2>8, <2>10, Zenon
<1>5. {} \in SUBSET U /\ \A s \in SUBSET U : \A x \in s : s \ {x} \in SUBSET U
  BY Zenon
<1> QED BY <1>2, <1>3, <1>4, <1>5

\* Sums add up element by element.
LEMMA SumPlus ==
    ASSUME NEW S, IsFiniteSet(S), NEW u, NEW v, NEW w,
           \A x \in S : v[x] \in Int /\ w[x] \in Int /\ u[x] = v[x] + w[x]
    PROVE  Sum(u, S) = Sum(v, S) + Sum(w, S)
<1> DEFINE Q == {s \in SUBSET S : Sum(u, s) # Sum(v, s) + Sum(w, s)}
<1>0. \A x \in S : u[x] \in Int
  OBVIOUS
<1> SUFFICES ASSUME Q # {} PROVE FALSE
  BY Zenon
<1>1. PICK s \in Q : \A t \in SUBSET s : t # s => t \notin Q
  <2>1. Q \subseteq SUBSET S
    BY Zenon
  <2> HIDE DEF Q
  <2> QED BY <2>1, MinimalSet, Zenon
<1>2. s # {}
  <2>1. Sum(u, {}) = 0 /\ Sum(v, {}) = 0 /\ Sum(w, {}) = 0
    BY <1>0, SumFacts, Zenon
  <2>2. Sum(u, s) # Sum(v, s) + Sum(w, s)
    BY Zenon
  <2> HIDE DEF Q
  <2>3. s = {} => Sum(u, s) = Sum(v, s) + Sum(w, s)
    BY <2>1
  <2> QED BY <2>2, <2>3, Zenon
<1>3. PICK x : x \in s
  BY <1>2, Zenon
<1> DEFINE t == s \ {x}
<1>4. s \in SUBSET S /\ t \in SUBSET S /\ x \in S
  BY <1>3, Zenon
<1>5. Sum(u, t) = Sum(v, t) + Sum(w, t)
  BY <1>1, <1>3, Zenon
<1>6. Sum(u, s) = u[x] + Sum(u, t) /\ Sum(v, s) = v[x] + Sum(v, t)
      /\ Sum(w, s) = w[x] + Sum(w, t)
  BY <1>0, <1>3, <1>4, SumFacts
<1>7. /\ Sum(u, t) \in Int /\ Sum(v, t) \in Int /\ Sum(w, t) \in Int
      /\ u[x] \in Int /\ v[x] \in Int /\ w[x] \in Int
  BY <1>0, <1>4, SumFacts, Zenon
<1>8. Sum(u, s) # Sum(v, s) + Sum(w, s)
  BY Zenon
<1> HIDE DEF t
<1> QED BY <1>4, <1>5, <1>6, <1>7, <1>8

\* The sum over two disjoint sets.
LEMMA SumSplit ==
    ASSUME NEW U, IsFiniteSet(U), NEW w, \A x \in U : w[x] \in Int,
           NEW S \in SUBSET U, NEW T \in SUBSET U, S \cap T = {}
    PROVE  Sum(w, S \cup T) = Sum(w, S) + Sum(w, T)
<1> DEFINE Q == {s \in SUBSET S : Sum(w, s \cup T) # Sum(w, s) + Sum(w, T)}
<1> SUFFICES ASSUME Q # {} PROVE FALSE
  BY Zenon
<1>1. PICK s \in Q : \A t \in SUBSET s : t # s => t \notin Q
  <2>1. Q \subseteq SUBSET U
    BY Zenon
  <2> HIDE DEF Q
  <2> QED BY <2>1, MinimalSet, Zenon
<1>2. s # {}
  <2> SUFFICES ASSUME s = {} PROVE FALSE
    BY Zenon
  <2>1. s \cup T = T /\ Sum(w, s) = 0 /\ Sum(w, T) \in Int
    BY SumFacts, Zenon
  <2> QED BY <2>1
<1>3. PICK x : x \in s
  BY <1>2, Zenon
<1> DEFINE t == s \ {x}
<1>4. /\ s \in SUBSET U /\ t \in SUBSET U /\ x \in U /\ s \cup T \in SUBSET U
      /\ t \cup T \in SUBSET U /\ (s \cup T) \ {x} = t \cup T /\ x \in s \cup T
  BY <1>3, Zenon
<1>5. Sum(w, t \cup T) = Sum(w, t) + Sum(w, T)
  BY <1>1, <1>3, Zenon
<1>6. Sum(w, s) = w[x] + Sum(w, t) /\ Sum(w, s \cup T) = w[x] + Sum(w, (s \cup T) \ {x})
  BY <1>3, <1>4, SumFacts
<1>7. Sum(w, t) \in Int /\ Sum(w, T) \in Int /\ w[x] \in Int
  BY <1>4, SumFacts, Zenon
<1>8. Sum(w, s \cup T) # Sum(w, s) + Sum(w, T)
  BY Zenon
<1> HIDE DEF t, Q
<1>9. Sum(w, s \cup T) = w[x] + (Sum(w, t) + Sum(w, T))
  BY <1>4, <1>5, <1>6, Zenon
<1> QED BY <1>6, <1>7, <1>8, <1>9

\* A sum does not change when its elements are renamed one to one.
LEMMA SumRenamed ==
    ASSUME NEW U, IsFiniteSet(U), NEW v, \A x \in U : v[x] \in Int,
           NEW w, \A x \in U : w[x] \in Int,
           NEW S \in SUBSET U, NEW T \in SUBSET U, NEW f \in [S -> T],
           \A x, y \in S : f[x] = f[y] => x = y,
           \A y \in T : \E x \in S : f[x] = y,
           \A x \in S : v[x] = w[f[x]]
    PROVE  Sum(v, S) = Sum(w, T)
<1> DEFINE image(s) == {y \in T : \E x \in s : f[x] = y}
           Q == {s \in SUBSET S : Sum(v, s) # Sum(w, image(s))}
<1>0. image(S) = T
  BY Zenon
<1> SUFFICES ASSUME Q # {} PROVE FALSE
  BY <1>0, Zenon
<1>1. PICK s \in Q : \A t \in SUBSET s : t # s => t \notin Q
  <2>1. Q \subseteq SUBSET U
    BY Zenon
  <2> HIDE DEF Q
  <2> QED BY <2>1, MinimalSet, Zenon
<1>2. s # {}
  <2> SUFFICES ASSUME s = {} PROVE FALSE
    BY Zenon
  <2>1. image(s) = {} /\ Sum(v, s) # Sum(w, image(s))
    BY Zenon
  <2>2. Sum(v, {}) = 0 /\ Sum(w, {}) = 0
    BY SumFacts, Zenon
  <2> HIDE DEF Q, image
  <2> QED BY <2>1, <2>2, Zenon
<1>3. PICK x : x \in s
  BY <1>2, Zenon
<1> DEFINE t == s \ {x}
<1>4. s \in SUBSET U /\ t \in SUBSET S /\ t # s /\ t \in SUBSET s /\ x \in S
  BY <1>3, Zenon
<1>5. f[x] \in image(s) /\ image(s) \ {f[x]} = image(t) /\ image(s) \in SUBSET U
  BY <1>3, <1>4
<1>6. Sum(v, t) = Sum(w, image(t)) /\ Sum(v, s) # Sum(w, image(s))
  BY <1>1, <1>4, Zenon
<1> HIDE DEF t, image
<1>7. Sum(v, s) = v[x] + Sum(v, s \ {x})
  BY <1>3, <1>4, SumFacts
<1>8. Sum(w, image(s)) = w[f[x]] + Sum(w, image(s) \ {f[x]})
  BY <1>5, SumFacts
<1> QED BY <1>4, <1>5, <1>6, <1>7, <1>8, Zenon DEF t

\* Weights of zero can be left out.
LEMMA SumOnly ==
    ASSUME NEW S, IsFiniteSet(S), NEW w, \A x \in S : w[x] \in Int,
           NEW T \in SUBSET S, NEW v, \A x \in T : v[x] = w[x],
           \A x \in S \ T : w[x] = 0
    PROVE  Sum(w, S) = Sum(v, T)
<1> DEFINE R == S \ T
<1>1. /\ T \in SUBSET S /\ R \in SUBSET S /\ T \cap R = {} /\ T \cup R = S
      /\ IsFiniteSet(T) /\ IsFiniteSet(R) /\ S \in SUBSET S
  BY FS_Subset, Zenon
<1>2. \A x \in R : w[x] \in Int /\ w[x] = w[x] + w[x]
  OBVIOUS
<1>3. \A x \in T : v[x] \in Int /\ w[x] \in Int
  BY Zenon
<1>4. Sum(w, S) \in Int /\ Sum(w, T) \in Int /\ Sum(w, R) \in Int
  BY <1>1, SumFacts, Zenon
<1> HIDE DEF R
<1>5. Sum(w, T \cup R) = Sum(w, T) + Sum(w, R)
  BY <1>1, SumSplit
<1>6. Sum(w, R) = Sum(w, R) + Sum(w, R)
  BY <1>1, <1>2, SumPlus
<1>7. Sum(v, T) = Sum(w, T)
  <2> DEFINE f == [x \in T |-> x]
  <2>1. /\ f \in [T -> T] /\ \A x, y \in T : f[x] = f[y] => x = y
        /\ \A y \in T : \E x \in T : f[x] = y
        /\ \A x \in T : v[x] = w[f[x]]
        /\ T \in SUBSET T
    BY Zenon
  <2> HIDE DEF f
  <2> QED BY <1>1, <1>3, <2>1, SumRenamed
<1>8. Sum(w, R) = 0
  <2>1. \A i \in Int : i = i + i => i = 0
    OBVIOUS
  <2> QED BY <1>4, <1>6, <2>1, Zenon
<1>9. Sum(w, S) = Sum(w, T) + Sum(w, R)
  BY <1>1, <1>5, Zenon
<1> QED BY <1>4, <1>7, <1>8, <1>9

-----------------------------------------------------------------------------
(***************************************************************************)
(* What the chains hold.  The heads' weights are the sum, over all blocks, *)
(* of what each block adds to the weight of the block below it.            *)
(***************************************************************************)
AllHeads == {b \in blocks : header[Chain(b)] = b}

\* What w grows by from the block below b to b.
Growth(w, b) == w[b] - (IF IsOpen(b) THEN 0 ELSE w[blk[b].prev])

\* Every block but the heads is below exactly one other, so all but the heads
\* cancel out.
LEMMA HeadsAddUp ==
    ASSUME IndInv, IsFiniteSet(blocks), NEW w, \A b \in blocks : w[b] \in Int
    PROVE  Sum(w, AllHeads) = Sum([b \in blocks |-> Growth(w, b)], blocks)
<1> DEFINE d == [b \in blocks |-> Growth(w, b)]
           p == [b \in blocks |-> IF IsOpen(b) THEN 0 ELSE w[blk[b].prev]]
           L == blocks \ AllHeads
           R == {b \in blocks : ~IsOpen(b)}
           f == [b \in R |-> blk[b].prev]
<1>1. /\ AllHeads \in SUBSET blocks /\ L \in SUBSET blocks /\ R \in SUBSET blocks
      /\ AllHeads \cap L = {} /\ AllHeads \cup L = blocks /\ blocks \in SUBSET blocks
  BY Zenon DEF AllHeads
<1>2. \A b \in R : /\ b \in Block /\ blk[b].prev \in blocks /\ blk[b].prev \in Block
                   /\ Chain(blk[b].prev) = Chain(b)
                   /\ blk[b].height = blk[blk[b].prev].height + 1
                   /\ blk[b].height <= blk[header[Chain(b)]].height
                   /\ blk[blk[b].prev].height \in Nat
  BY PrevFacts, BlockFacts, Zenon DEF IndInv, IndexType, ChainShape
<1>3. \A b \in R : blk[b].prev \in L
  BY <1>2 DEF AllHeads
<1>4. f \in [R -> L]
  BY <1>3, Zenon
<1>5. \A b, e \in R : f[b] = f[e] => b = e
  <2>1. \A b, e \in blocks : Chain(b) = Chain(e) /\ blk[b].height = blk[e].height => b = e
    BY Zenon DEF IndInv, ChainShape
  <2> QED BY <1>2, <2>1
<1>6. \A y \in L : \E b \in R : f[b] = y
  <2> TAKE y \in L
  <2>1. PICK b \in blocks : blk[b].prev = y
    BY Zenon DEF AllHeads, IndInv, ChainShape
  <2>2. y # NoHash
    BY BlockFacts, Zenon DEF IndInv, IndexType
  <2> QED BY <2>1, <2>2, Zenon DEF IsOpen
<1>7. \A b \in blocks : p[b] \in Int /\ d[b] \in Int /\ w[b] = d[b] + p[b]
  BY <1>2 DEF Growth
<1>8. \A b \in R : p[b] = w[f[b]]
  BY Zenon
<1>9. \A b \in blocks \ R : p[b] = 0
  BY Zenon
<1> HIDE DEF d, p, L, R, f
<1>10. Sum(w, blocks) = Sum(d, blocks) + Sum(p, blocks)
  BY <1>7, SumPlus
<1>11. Sum(p, blocks) = Sum(p, R)
  BY <1>1, <1>7, <1>9, SumOnly
<1>12. Sum(p, R) = Sum(w, L)
  BY <1>1, <1>4, <1>5, <1>6, <1>7, <1>8, SumRenamed
<1>13. Sum(w, AllHeads \cup L) = Sum(w, AllHeads) + Sum(w, L)
  BY <1>1, SumSplit
<1>14. Sum(w, AllHeads) \in Int /\ Sum(w, L) \in Int /\ Sum(d, blocks) \in Int
  BY <1>1, <1>7, SumFacts, Zenon
<1>15. Sum(w, AllHeads) + Sum(w, L) = Sum(d, blocks) + Sum(w, L)
  BY <1>1, <1>10, <1>11, <1>12, <1>13, Zenon
<1>16. Sum(w, AllHeads) = Sum(d, blocks)
  <2>1. \A i, j, k \in Int : i + k = j + k => i = j
    OBVIOUS
  <2> QED BY <1>14, <1>15, <2>1, Zenon
<1> QED BY <1>16, Zenon DEF d

-----------------------------------------------------------------------------
(***************************************************************************)
(* The amounts.  What BlockCheck compared when a block was processed is    *)
(* known of every confirmed block from then on; the rollback restores the  *)
(* amounts from the blocks alone, and that is enough because of it.        *)
(***************************************************************************)

\* What BlockCheck compares of a block with the blocks it refers to.
Checked(b) ==
    LET p == blk[b].prev
        s == blk[b].link
    IN /\ blk[b].type \in {"Send", "Receive", "Change", "Online"} => SameStake(b, p)
       /\ blk[b].type \in {"Change", "Online"} => blk[b].bal = blk[p].bal
       /\ blk[b].type = "Open" => blk[b].vote = 0 /\ blk[b].other = 0
       /\ blk[b].type \in {"Open", "Receive"} => blk[s].token = blk[b].token
       /\ blk[b].type = "ContractReward" => RewardAmount(b) = blk[s].gain

AmountInv ==
    /\ \A s \in Block : HasPending(s) => pending[s] = SendAmount(s)
    /\ \A b \in blocks :
          /\ blk[b].type = "Open" => blk[b].bal = SendAmount(blk[b].link)
          /\ blk[b].type = "Receive" =>
                blk[b].bal - blk[blk[b].prev].bal = SendAmount(blk[b].link)
    /\ \A b, d \in blocks :
          blk[b].type = "Open" /\ Chain(d) = Chain(b) => blk[d].bal = blk[b].bal

ValueInv ==
    /\ IsFiniteSet(blocks)
    /\ \A b \in blocks \ Genesis : Checked(b)
    /\ OpensKeepBalance => AmountInv

\* BlockCheck lets a receive through only with the amount in the pending table.
LEMMA CheckAmounts ==
    ASSUME IndInv, NEW b \in Block, BlockCheck(b) = "Progress"
    PROVE  /\ Checked(b)
           /\ blk[b].type \in {"Open", "Receive"} => HasPending(blk[b].link)
           /\ blk[b].type = "Open" => pending[blk[b].link] = blk[b].bal
           /\ blk[b].type = "Receive" =>
                 pending[blk[b].link] = blk[b].bal - blk[blk[b].prev].bal
<1> DEFINE p == blk[b].prev
           s == blk[b].link
<1>1. ASSUME blk[b].type \in {"Send", "Change", "Online"}
      PROVE  SameStake(b, p) /\ (blk[b].type # "Send" => blk[b].bal = blk[p].bal)
  <2>1. balance(b) = "Progress"
    BY <1>1, Zenon DEF BlockCheck, Then
  <2> QED BY <1>1, <2>1, Zenon DEF balance, Then, Require
<1>2. ASSUME blk[b].type \in {"Open", "Receive"}
      PROVE  /\ HasPending(s) /\ blk[s].token = blk[b].token
             /\ blk[b].type = "Open" => pending[s] = blk[b].bal /\ blk[b].vote = 0 /\ blk[b].other = 0
             /\ blk[b].type = "Receive" => pending[s] = blk[b].bal - blk[p].bal /\ SameStake(b, p)
  <2>1. pendingCheck(b) = "Progress"
    BY <1>2, Zenon DEF BlockCheck, Then
  <2>2. HasPending(s) /\ blk[s].token = blk[b].token
    BY <1>2, <2>1, Zenon DEF pendingCheck, Then, Require, Receivable
  <2>3. ASSUME blk[b].type = "Open"
        PROVE  pending[s] = blk[b].bal /\ blk[b].vote = 0 /\ blk[b].other = 0
    <3>1. IsOpen(b)
      BY <2>3, OpenAssumption, Zenon
    <3> QED BY <1>2, <2>1, <2>3, <3>1, Zenon DEF pendingCheck, Then, Require
  <2>4. ASSUME blk[b].type = "Receive"
        PROVE  pending[s] = blk[b].bal - blk[p].bal /\ SameStake(b, p)
    <3>1. ~IsOpen(b)
      BY <2>4, OpenAssumption, Zenon
    <3>2. header[Chain(b)] = p
      BY <3>1, CheckFacts, Zenon
    <3> QED BY <1>2, <2>1, <2>4, <3>1, <3>2, Zenon DEF pendingCheck, Then, Require
  <2> QED BY <2>2, <2>3, <2>4, Zenon
<1>3. ASSUME blk[b].type = "ContractReward"
      PROVE  RewardAmount(b) = blk[s].gain
  <2>1. contract(b) = "Progress"
    BY <1>3, Zenon DEF BlockCheck, Then
  <2> QED BY <1>3, <2>1, Zenon DEF contract, Then, Require
<1> QED BY <1>1, <1>2, <1>3, Zenon DEF Checked

\* Processing a block preserves the amounts.
LEMMA ProcessAmounts ==
    ASSUME IndInv, OpensKeepBalance, AmountInv, NEW b \in Block, Process(b)
    PROVE  AmountInv'
<1> DEFINE s == blk[b].link
<1>0. BlockCheck(b) = "Progress" /\ blocks' = blocks \cup {b} /\ pending' = updatePending(b)
  BY Zenon DEF Process, BlockProcess
<1>e. pending \in [Block -> Nat \cup {NoAmount}]
  BY Zenon DEF IndInv, IndexType
<1>1. ASSUME NEW t \in Block, HasPending(t)' PROVE pending'[t] = SendAmount(t)
  <2>1. pending'[t] = SendAmount(t) \/ pending'[t] = pending[t]
    <3>1. CASE IsSendBlock(b)
      <4>1. ~IsReceiveBlock(b)
        BY <3>1, Zenon DEF IsSendBlock, IsReceiveBlock
      <4> QED BY <3>1, <4>1, <1>0, <1>e, Zenon DEF updatePending
    <3>2. CASE IsReceiveBlock(b)
      <4>1. ~IsSendBlock(b)
        BY <3>2, Zenon DEF IsSendBlock, IsReceiveBlock
      <4>2. s \in Block
        BY <3>2, <1>0, CheckFacts, Zenon
      <4>3. pending' = [pending EXCEPT ![s] = IF blk[s].to = blk[b].addr THEN NoAmount ELSE @]
        BY <3>2, <4>1, <1>0, Zenon DEF updatePending
      <4>4. pending'[t] = NoAmount \/ pending'[t] = pending[t]
        BY <4>2, <4>3, <1>e, Zenon
      <4> QED BY <4>4, <1>1, Zenon DEF HasPending
    <3>3. CASE ~IsSendBlock(b) /\ ~IsReceiveBlock(b)
      BY <3>3, <1>0, Zenon DEF updatePending
    <3> QED BY <3>1, <3>2, <3>3, Zenon
  <2> QED BY <2>1, <1>1, Zenon DEF AmountInv, HasPending
<1>2. /\ blk[b].type = "Open" => blk[b].bal = SendAmount(s)
      /\ blk[b].type = "Receive" => blk[b].bal - blk[blk[b].prev].bal = SendAmount(s)
  <2>1. blk[b].type \in {"Open", "Receive"} => s \in Block
    BY <1>0, CheckFacts, Zenon DEF IsReceiveBlock
  <2> QED BY <1>0, <2>1, CheckAmounts, Zenon DEF AmountInv
<1>3. ASSUME NEW o \in blocks', NEW d \in blocks', blk[o].type = "Open", Chain(d) = Chain(o)
      PROVE  blk[d].bal = blk[o].bal
  <2>0. o \in Block /\ d \in Block
    BY <1>0, Zenon DEF IndInv, IndexType
  <2>1. CASE o \in blocks /\ d \in blocks
    BY <2>1, <1>3, Zenon DEF AmountInv
  <2>2. CASE o = d
    BY <2>2, Zenon
  <2>3. CASE o \in blocks /\ d = b
    <3>1. HasTokenMeta(Chain(b))
      BY <2>3, <1>3, Zenon DEF IndInv, ChainShape
    <3>2. ~IsOpen(b) /\ blk[b].prev \in blocks
      BY <3>1, <1>0, CheckFacts, Zenon
    <3>3. Chain(blk[b].prev) = Chain(o)
      BY <2>3, <1>3, <3>2, PrevFacts, Zenon
    <3>4. blk[blk[b].prev].bal = blk[o].bal
      BY <2>3, <1>3, <3>2, <3>3, Zenon DEF AmountInv
    <3> QED BY <2>0, <2>3, <1>3, <3>2, <3>4, Zenon DEF OpensKeepBalance
  <2>4. CASE o = b /\ d \in blocks
    <3>1. HasTokenMeta(Chain(b))
      BY <2>4, <1>3, Zenon DEF IndInv, ChainShape
    <3>2. IsOpen(b)
      BY <2>4, <1>3, OpenAssumption, Zenon
    <3> QED BY <3>1, <3>2, <1>0, CheckFacts, Zenon
  <2> QED BY <1>0, <2>1, <2>2, <2>3, <2>4, Zenon
<1>4. \A d \in blocks' :
          /\ blk[d].type = "Open" => blk[d].bal = SendAmount(blk[d].link)
          /\ blk[d].type = "Receive" => blk[d].bal - blk[blk[d].prev].bal = SendAmount(blk[d].link)
  BY <1>0, <1>2, Zenon DEF AmountInv
<1> QED BY <1>1, <1>3, <1>4, Zenon DEF AmountInv, HasPending, SendAmount, Chain

\* What a rollback puts back for the source of a removed receive is what the
\* send took from the sender.
LEMMA RestoredIsSent ==
    ASSUME IndInv, OpensKeepBalance, AmountInv, NEW r \in blocks \ Genesis, IsReceiveBlock(r)
    PROVE  RestoredAmount(r) = SendAmount(blk[r].link)
<1>0. r \in Block
  BY Zenon DEF IndInv, IndexType
<1>1. CASE blk[r].type = "Open"
  <2>1. header[Chain(r)] \in blocks /\ Chain(header[Chain(r)]) = Chain(r)
    BY HeaderFacts, Zenon
  <2>2. blk[header[Chain(r)]].bal = blk[r].bal /\ blk[r].bal = SendAmount(blk[r].link)
    BY <1>1, <2>1, Zenon DEF AmountInv
  <2> QED BY <1>1, <2>2, Zenon DEF RestoredAmount
<1>2. CASE blk[r].type = "Receive"
  BY <1>2, Zenon DEF RestoredAmount, AmountInv
<1>3. CASE blk[r].type = "ContractReward"
  <2>1. blk[blk[r].link].type = "ContractSend"
    BY <1>0, <1>3, LinkAssumption, Zenon
  <2> QED BY <1>3, <2>1, Zenon DEF RestoredAmount, SendAmount
<1> QED BY <1>1, <1>2, <1>3, Zenon DEF IsReceiveBlock

\* A rollback preserves the amounts.
LEMMA RollbackAmounts ==
    ASSUME IndInv, OpensKeepBalance, AmountInv, NEW h \in Block, Rollback(h)
    PROVE  AmountInv'
<1> DEFINE S == RollbackSet(h)
<1>1. S \subseteq blocks \ Genesis /\ rollbackBlocks(S)
  BY RollbackSetClosed, Zenon DEF Rollback
<1> HIDE DEF S
<1>2. blocks' = blocks \ S /\ pending' = rollBackPending(S)
  BY <1>1, Zenon DEF rollbackBlocks, DeleteStateBlocks
<1>3. ASSUME NEW s \in Block, HasPending(s)' PROVE pending'[s] = SendAmount(s)
  <2>1. s \notin S
    BY <1>2, <1>3, Zenon DEF rollBackPending, HasPending
  <2>2. CASE \E r \in S : IsReceiveBlock(r) /\ blk[r].link = s
    <3> DEFINE r == CHOOSE x \in S : IsReceiveBlock(x) /\ blk[x].link = s
    <3>1. r \in S /\ IsReceiveBlock(r) /\ blk[r].link = s
      BY <2>2, Zenon
    <3>2. pending'[s] = RestoredAmount(r)
      BY <2>1, <2>2, <1>2, Zenon DEF rollBackPending
    <3> HIDE DEF r
    <3> QED BY <1>1, <3>1, <3>2, RestoredIsSent, Zenon
  <2>3. CASE ~\E r \in S : IsReceiveBlock(r) /\ blk[r].link = s
    BY <2>1, <2>3, <1>2, <1>3, Zenon DEF rollBackPending, AmountInv, HasPending
  <2> QED BY <2>2, <2>3, Zenon
<1> QED BY <1>2, <1>3, Zenon DEF AmountInv, HasPending, SendAmount, Chain

\* Initially nothing is pending, and only chains of Genesis exist.
LEMMA InitValue == Init => ValueInv
<1> SUFFICES ASSUME Init PROVE ValueInv
  BY Zenon
<1>1. \A g \in Genesis : blk[g].type = "ContractReward"
  BY GenesisAssumption, Zenon
<1>2. IsFiniteSet(blocks) /\ \A b \in blocks \ Genesis : Checked(b)
  BY GenesisAssumption, Zenon DEF Init
<1>3. AmountInv
  BY <1>1, Zenon DEF Init, AmountInv, HasPending
<1> QED BY <1>2, <1>3, Zenon DEF ValueInv

\* Every step preserves what was checked and the amounts.
LEMMA NextValue ==
    ASSUME IndInv, ValueInv, [Next]_vars
    PROVE  ValueInv'
<1>1. ASSUME NEW b \in Block, Process(b) PROVE ValueInv'
  <2>1. BlockCheck(b) = "Progress" /\ blocks' = blocks \cup {b}
    BY <1>1, Zenon DEF Process, BlockProcess
  <2>2. IsFiniteSet(blocks)'
    BY <2>1, FS_AddElement, Zenon DEF ValueInv
  <2>3. \A d \in blocks' \ Genesis : Checked(d)
    BY <2>1, CheckAmounts, Zenon DEF ValueInv
  <2>4. OpensKeepBalance => AmountInv'
    BY <1>1, ProcessAmounts, Zenon DEF ValueInv
  <2> QED BY <2>2, <2>3, <2>4,
             Zenon DEF ValueInv, OpensKeepBalance, Checked, SameStake, RewardAmount,
             IsOpen, TotalBalance, Chain
<1>2. ASSUME NEW h \in Block, Rollback(h) PROVE ValueInv'
  <2>1. blocks' \subseteq blocks
    BY <1>2, Zenon DEF Rollback, rollbackBlocks, DeleteStateBlocks
  <2>2. IsFiniteSet(blocks)'
    BY <2>1, FS_Subset, Zenon DEF ValueInv
  <2>3. \A d \in blocks' \ Genesis : Checked(d)
    BY <2>1, Zenon DEF ValueInv
  <2>4. OpensKeepBalance => AmountInv'
    BY <1>2, RollbackAmounts, Zenon DEF ValueInv
  <2> QED BY <2>2, <2>3, <2>4,
             Zenon DEF ValueInv, OpensKeepBalance, Checked, SameStake, RewardAmount,
             IsOpen, TotalBalance, Chain
<1>3. CASE UNCHANGED <<blocks, child, link, header, openBlock, frontier, pending>>
  BY <1>3, Zenon DEF ValueInv, AmountInv, HasPending, SendAmount, OpensKeepBalance, Checked,
     SameStake, RewardAmount, IsOpen, TotalBalance, Chain
<1> QED BY <1>1, <1>2, <1>3, Zenon DEF Next, Restart, vars

-----------------------------------------------------------------------------
(***************************************************************************)
(* The weights.  The weight of a representative is the sum, over the       *)
(* confirmed blocks, of what each block changes it by: Process adds a      *)
(* term, Rollback takes the terms of the removed blocks away, and the sum  *)
(* over the accounts that Restart computes is the same number.             *)
(***************************************************************************)
WeightChange(r) == [b \in Block |-> BenefitOf(b, r) - BenefitOf(blk[b].prev, r)]

WeightInv ==
    /\ representation \in [Account -> Int]
    /\ \A r \in Account : Steady(r) => representation[r] = Sum(WeightChange(r), blocks)

\* Balances are numbers.
LEMMA BalanceFacts ==
    ASSUME NEW b \in Block
    PROVE  /\ blk[b].bal \in Nat /\ blk[b].vote \in Nat /\ blk[b].other \in Nat
           /\ TotalBalance(b) \in Nat /\ VoteWeight(b) \in Nat
           /\ \A r : /\ BenefitOf(b, r) \in Nat /\ BenefitOf(blk[b].prev, r) \in Nat
                     /\ WeightChange(r)[b] = BenefitOf(b, r) - BenefitOf(blk[b].prev, r)
                     /\ WeightChange(r)[b] \in Int
<1>1. \A d \in Block : TotalBalance(d) \in Nat /\ VoteWeight(d) \in Nat
  BY BlockFacts DEF StateBlock, TotalBalance, VoteWeight
<1>2. \A d \in Block \cup {NoHash} : \A r : BenefitOf(d, r) \in Nat
  BY <1>1, Zenon DEF BenefitOf
<1>3. blk[b].prev \in Block \cup {NoHash} /\ blk[b].bal \in Nat /\ blk[b].vote \in Nat
      /\ blk[b].other \in Nat
  BY BlockFacts, Zenon DEF StateBlock
<1>4. \A r : BenefitOf(b, r) \in Nat /\ BenefitOf(blk[b].prev, r) \in Nat
  BY <1>2, <1>3, Zenon
<1>5. \A r : WeightChange(r)[b] = BenefitOf(b, r) - BenefitOf(blk[b].prev, r)
  BY Zenon DEF WeightChange
<1>6. \A r : WeightChange(r)[b] \in Int
  BY <1>4, <1>5
<1> QED BY <1>1, <1>3, <1>4, <1>5, <1>6, Zenon

\* What the accounts that chose r own is the sum of the changes.
LEMMA DelegatedAddsUp ==
    ASSUME IndInv, IsFiniteSet(blocks), NEW r, NEW weight,
           \A b \in blocks : blk[b].token = ChainToken /\ blk[b].rep = r =>
               weight[b] = TotalBalance(b)
    PROVE  DelegatedTo(r, weight) = Sum(WeightChange(r), blocks)
<1> DEFINE w == [b \in Block |-> BenefitOf(b, r)]
           D == {b \in blocks : /\ blk[b].token = ChainToken
                                /\ header[Chain(b)] = b
                                /\ blk[b].rep = r}
           g == [b \in blocks |-> Growth(w, b)]
<1>0. blocks \subseteq Block /\ NoHash \notin Block
  BY NoHashAssumption, Zenon DEF IndInv, IndexType
<1>1. \A b \in blocks : w[b] \in Int
  BY <1>0, BalanceFacts
<1>2. D \in SUBSET AllHeads /\ AllHeads \in SUBSET blocks /\ IsFiniteSet(AllHeads)
      /\ \A b \in AllHeads : w[b] \in Int
  BY <1>1, FS_Subset, Zenon DEF AllHeads
<1>3. \A b \in D : weight[b] = w[b]
  BY <1>0, Zenon DEF BenefitOf
<1>4. \A b \in AllHeads \ D : w[b] = 0
  BY <1>0, Zenon DEF AllHeads, BenefitOf
<1>5. \A b \in blocks : g[b] = WeightChange(r)[b] /\ g[b] \in Int
  <2> TAKE b \in blocks
  <2>1. b \in Block
    BY <1>0, Zenon
  <2>2. Growth(w, b) = BenefitOf(b, r) - BenefitOf(blk[b].prev, r)
    <3>1. CASE IsOpen(b)
      BY <2>1, <3>1, Zenon DEF Growth, IsOpen, BenefitOf
    <3>2. CASE ~IsOpen(b)
      BY <2>1, <3>2, PrevFacts, Zenon DEF Growth
    <3> QED BY <3>1, <3>2, Zenon
  <2> QED BY <2>1, <2>2, BalanceFacts, Zenon
<1>6. DelegatedTo(r, weight) = Sum(weight, D)
  BY Zenon DEF DelegatedTo
<1> HIDE DEF D, w, g
<1>7. Sum(w, AllHeads) = Sum(weight, D)
  BY <1>2, <1>3, <1>4, SumOnly
<1>8. Sum(w, AllHeads) = Sum(g, blocks)
  BY <1>1, HeadsAddUp, Zenon DEF g
<1>9. Sum(g, blocks) = Sum(WeightChange(r), blocks)
  <2>1. blocks \in SUBSET blocks /\ \A b \in blocks : WeightChange(r)[b] = g[b]
    BY <1>5, Zenon
  <2> QED BY <1>5, <2>1, SumOnly
<1> QED BY <1>6, <1>7, <1>8, <1>9, Zenon

\* Undoing a block gives a steady representative back what the block changed.
LEMMA UndoneIsChange ==
    ASSUME IndInv, NEW r \in Account, Steady(r), NEW b \in blocks \ Genesis, Checked(b)
    PROVE  rollBackRep(b, r) = 0 - WeightChange(r)[b]
<1> DEFINE p == blk[b].prev
<1>0. b \in Block /\ b # NoHash /\ NoHash \notin Block
  BY NoHashAssumption, Zenon DEF IndInv, IndexType
<1>1. TotalBalance(b) \in Nat /\ WeightChange(r)[b] = BenefitOf(b, r) - BenefitOf(p, r)
  BY <1>0, BalanceFacts, Zenon
<1>2. blk[b].type \in BlockType
  BY <1>0, BlockFacts, Zenon
<1>3. CASE blk[b].type = "Open"
  <2>1. p = NoHash
    BY <1>0, <1>3, OpenAssumption, Zenon DEF IsOpen
  <2> QED BY <1>0, <1>1, <1>3, <2>1 DEF rollBackRep, BenefitOf
<1>4. ASSUME ~IsOpen(b)
      PROVE  /\ p \in Block /\ p # NoHash /\ TotalBalance(p) \in Nat
             /\ blk[p].token = blk[b].token
  <2>1. p \in Block /\ Chain(p) = Chain(b)
    BY <1>0, <1>4, PrevFacts, Zenon
  <2> QED BY <1>0, <2>1, BalanceFacts, Zenon DEF Chain
<1>5. CASE blk[b].type \in {"Send", "Receive"}
  <2>1. ~IsOpen(b)
    BY <1>0, <1>5, OpenAssumption, Zenon
  <2>2. CASE blk[b].token # ChainToken
    BY <1>0, <1>1, <1>4, <1>5, <2>1, <2>2 DEF rollBackRep, BenefitOf
  <2>3. CASE blk[b].token = ChainToken
    <3>1. blk[b].rep = r <=> blk[p].rep = r
      BY <1>0, <1>5, <2>3, Zenon DEF Steady
    <3> QED BY <1>0, <1>1, <1>4, <1>5, <2>1, <2>3, <3>1 DEF rollBackRep, BenefitOf
  <2> QED BY <2>2, <2>3, Zenon
<1>6. CASE blk[b].type \in {"Change", "Online"}
  <2>1. ~IsOpen(b)
    BY <1>0, <1>6, OpenAssumption, Zenon
  <2>2. TotalBalance(b) = TotalBalance(p)
    BY <1>6, Zenon DEF Checked, SameStake, TotalBalance
  <2> QED BY <1>0, <1>1, <1>4, <1>6, <2>1, <2>2 DEF rollBackRep, BenefitOf
<1>7. CASE blk[b].type \in {"ContractSend", "ContractReward"}
  <2>1. BenefitOf(b, r) = 0 /\ BenefitOf(p, r) = 0
    <3>1. CASE IsOpen(b)
      BY <1>0, <1>7, <3>1, Zenon DEF Steady, BenefitOf, IsOpen
    <3>2. CASE ~IsOpen(b)
      BY <1>0, <1>4, <1>7, <3>2, Zenon DEF Steady, BenefitOf
    <3> QED BY <3>1, <3>2, Zenon
  <2>2. rollBackRep(b, r) = 0
    BY <1>7, Zenon DEF rollBackRep
  <2>3. WeightChange(r)[b] = 0
    BY <1>1, <2>1
  <2> QED BY <2>2, <2>3
<1> QED BY <1>2, <1>3, <1>5, <1>6, <1>7, Zenon DEF BlockType

\* A block changes the weight of its own and the old representative at once.
LEMMA ProcessWeight ==
    ASSUME IndInv, IsFiniteSet(blocks), WeightInv, NEW b \in Block, Process(b)
    PROVE  WeightInv'
<1>1. BlockCheck(b) = "Progress" /\ blocks' = blocks \cup {b}
      /\ representation' = updateRepresentative(b)
  BY Zenon DEF Process, BlockProcess
<1>2. b \notin blocks /\ header[Chain(b)] = blk[b].prev
  BY <1>1, CheckFacts, Zenon DEF IsOpen, HasTokenMeta
<1>3. \A r \in Account : /\ representation[r] \in Int
                         /\ BenefitOf(b, r) \in Nat /\ BenefitOf(blk[b].prev, r) \in Nat
                         /\ WeightChange(r)[b] = BenefitOf(b, r) - BenefitOf(blk[b].prev, r)
                         /\ WeightChange(r)[b] \in Int
  BY BalanceFacts, Zenon DEF WeightInv
<1>4. \A r \in Account :
          representation'[r] = representation[r] - BenefitOf(blk[b].prev, r) + BenefitOf(b, r)
  BY <1>1, <1>2, Zenon DEF updateRepresentative
<1>5. representation' \in [Account -> Int]
  <2>1. \A r \in Account : representation'[r] \in Int
    BY <1>3, <1>4
  <2>2. representation' = [r \in Account |-> representation'[r]]
    BY <1>1, Zenon DEF updateRepresentative
  <2> QED BY <2>1, <2>2, Zenon
<1>6. ASSUME NEW r \in Account, Steady(r)
      PROVE  representation'[r] = Sum(WeightChange(r), blocks')
  <2>1. /\ IsFiniteSet(blocks') /\ blocks' \in SUBSET blocks' /\ b \in blocks'
        /\ blocks' \ {b} = blocks /\ blocks \in SUBSET blocks'
    BY <1>1, <1>2, FS_AddElement, Zenon
  <2>2. \A x \in blocks' : WeightChange(r)[x] \in Int
    BY <1>1, BalanceFacts, Zenon DEF IndInv, IndexType
  <2>3. Sum(WeightChange(r), blocks') = WeightChange(r)[b] + Sum(WeightChange(r), blocks' \ {b})
    BY <2>1, <2>2, SumFacts
  <2>4. representation[r] = Sum(WeightChange(r), blocks)
    BY <1>6, Zenon DEF WeightInv
  <2>5. representation'[r] = WeightChange(r)[b] + representation[r]
    BY <1>3, <1>4
  <2> QED BY <2>1, <2>3, <2>4, <2>5, Zenon
<1> QED BY <1>5, <1>6, Zenon DEF WeightInv, Steady, WeightChange, BenefitOf, TotalBalance, IsOpen

\* A rollback takes back the changes of the blocks it removes.
LEMMA RollbackWeight ==
    ASSUME IndInv, ValueInv, WeightInv, NEW h \in Block, Rollback(h)
    PROVE  WeightInv'
<1> DEFINE S == RollbackSet(h)
           undo(r) == [b \in S |-> rollBackRep(b, r)]
<1>1. S \subseteq blocks \ Genesis /\ rollbackBlocks(S)
  BY RollbackSetClosed, Zenon DEF Rollback
<1> HIDE DEF S
<1>2. /\ blocks' = blocks \ S
      /\ representation' = [r \in Account |-> representation[r] + Sum(undo(r), S)]
  BY <1>1, Zenon DEF rollbackBlocks, DeleteStateBlocks
<1>3. /\ S \in SUBSET blocks /\ blocks' \in SUBSET blocks /\ S \cap blocks' = {}
      /\ S \cup blocks' = blocks /\ IsFiniteSet(blocks) /\ IsFiniteSet(S)
      /\ blocks \subseteq Block /\ S \in SUBSET S
  BY <1>1, <1>2, FS_Subset, Zenon DEF ValueInv, IndInv, IndexType
<1>4. \A r \in Account : \A b \in S : undo(r)[b] \in Int
  <2> TAKE r \in Account
  <2> TAKE b \in S
  <2>1. b \in Block /\ TotalBalance(b) \in Nat /\ blk[b].type \in BlockType
    BY <1>3, BalanceFacts, BlockFacts, Zenon
  <2>2. blk[b].type \in {"Send", "Receive", "Change", "Online"} => TotalBalance(blk[b].prev) \in Nat
    BY <2>1, OpenAssumption, PrevFacts, BalanceFacts, Zenon
  <2>3. rollBackRep(b, r) \in Int
    <3>1. CASE blk[b].type = "Open"
      BY <2>1, <3>1 DEF rollBackRep
    <3>2. CASE blk[b].type \in {"Send", "Receive"}
      BY <2>1, <2>2, <3>2 DEF rollBackRep
    <3>3. CASE blk[b].type \in {"Change", "Online"}
      BY <2>1, <2>2, <3>3 DEF rollBackRep
    <3>4. CASE blk[b].type \in {"ContractSend", "ContractReward"}
      BY <3>4 DEF rollBackRep
    <3> QED BY <2>1, <3>1, <3>2, <3>3, <3>4, Zenon DEF BlockType
  <2> QED BY <2>3, Zenon
<1>5. \A r \in Account : Sum(undo(r), S) \in Int
  <2> TAKE r \in Account
  <2>1. PICK w : w = undo(r)
    BY Zenon
  <2>2. \A b \in S : w[b] \in Int
    BY <1>4, <2>1, Zenon
  <2>3. Sum(w, S) \in Int
    BY <1>3, <2>2, SumFacts, Zenon
  <2> QED BY <2>1, <2>3, Zenon
<1>6. representation' \in [Account -> Int]
  BY <1>2, <1>5 DEF WeightInv
<1>7. ASSUME NEW r \in Account, Steady(r)
      PROVE  representation'[r] = Sum(WeightChange(r), blocks')
  <2>1. PICK c : c = WeightChange(r)
    BY Zenon
  <2>2. PICK w : w = undo(r)
    BY Zenon
  <2>3. PICK z : z = [b \in S |-> 0]
    BY Zenon
  <2>4. \A b \in blocks : c[b] \in Int
    BY <1>3, <2>1, BalanceFacts, Zenon
  <2>5. \A b \in S : w[b] \in Int /\ c[b] \in Int /\ z[b] = w[b] + c[b] /\ z[b] = 0 /\ z[b] \in Int
    <3> TAKE b \in S
    <3>1. w[b] = 0 - c[b]
      BY <1>1, <1>7, <2>1, <2>2, UndoneIsChange, Zenon DEF ValueInv
    <3>2. c[b] \in Int
      BY <1>3, <2>4, Zenon
    <3> QED BY <2>3, <3>1, <3>2
  <2>6. Sum(z, S) = Sum(w, S) + Sum(c, S)
    BY <1>3, <2>5, SumPlus
  <2>7. Sum(z, S) = 0
    <3>1. {} \in SUBSET S /\ \A b \in {} : z[b] = z[b]
      BY Zenon
    <3>2. Sum(z, S) = Sum(z, {})
      BY <1>3, <2>5, <3>1, SumOnly
    <3>3. Sum(z, {}) = 0
      BY <1>3, <2>5, SumFacts, Zenon
    <3> QED BY <3>2, <3>3, Zenon
  <2>8. Sum(c, S \cup blocks') = Sum(c, S) + Sum(c, blocks')
    BY <1>3, <2>4, SumSplit
  <2>9. Sum(c, S) \in Int /\ Sum(c, blocks') \in Int /\ Sum(w, S) \in Int
    BY <1>3, <1>5, <2>2, <2>4, SumFacts, Zenon
  <2>10. representation[r] = Sum(c, S \cup blocks')
    BY <1>3, <1>7, <2>1, Zenon DEF WeightInv
  <2>11. representation'[r] = representation[r] + Sum(w, S)
    BY <1>2, <2>2, Zenon
  <2>12. \A i, j, k \in Int : 0 = i + j => (j + k) + i = k
    OBVIOUS
  <2>13. 0 = Sum(w, S) + Sum(c, S)
    BY <2>6, <2>7, Zenon
  <2>14. representation'[r] = (Sum(c, S) + Sum(c, blocks')) + Sum(w, S)
    BY <2>8, <2>10, <2>11, Zenon
  <2>15. (Sum(c, S) + Sum(c, blocks')) + Sum(w, S) = Sum(c, blocks')
    BY <2>9, <2>12, <2>13, Zenon
  <2> QED BY <2>1, <2>14, <2>15, Zenon
<1> QED BY <1>6, <1>7,
           Zenon DEF WeightInv, Steady, WeightChange, BenefitOf, TotalBalance, IsOpen

\* The weights computed from the accounts, at the start and at every restart.
LEMMA ComputedWeight ==
    ASSUME IndInv, IsFiniteSet(blocks)
    PROVE  \A r \in Account :
               /\ DelegatedTo(r, [b \in Block |-> TotalBalance(b)]) = Sum(WeightChange(r), blocks)
               /\ DelegatedTo(r, [b \in Block |-> VoteWeight(b)]) \in Int
               /\ Steady(r) => DelegatedTo(r, [b \in Block |-> VoteWeight(b)])
                                  = Sum(WeightChange(r), blocks)
<1> TAKE r \in Account
<1>0. blocks \subseteq Block
  BY Zenon DEF IndInv, IndexType
<1>1. PICK t : t = [b \in Block |-> TotalBalance(b)]
  BY Zenon
<1>2. PICK v : v = [b \in Block |-> VoteWeight(b)]
  BY Zenon
<1>3. DelegatedTo(r, t) = Sum(WeightChange(r), blocks)
  BY <1>0, <1>1, DelegatedAddsUp, Zenon
<1>4. DelegatedTo(r, v) \in Int
  <2> DEFINE D == {b \in blocks : /\ blk[b].token = ChainToken
                                  /\ header[Chain(b)] = b
                                  /\ blk[b].rep = r}
  <2>1. D \in SUBSET blocks /\ DelegatedTo(r, v) = Sum(v, D)
    BY Zenon DEF DelegatedTo
  <2>2. \A b \in blocks : v[b] \in Int
    BY <1>0, <1>2, BalanceFacts
  <2> HIDE DEF D
  <2> QED BY <2>1, <2>2, SumFacts
<1>5. ASSUME Steady(r) PROVE DelegatedTo(r, v) = Sum(WeightChange(r), blocks)
  <2>1. ASSUME NEW b \in blocks, blk[b].token = ChainToken, blk[b].rep = r
        PROVE  v[b] = TotalBalance(b)
    <3>1. b \in Block /\ blk[b].other = 0
      BY <1>0, <1>5, <2>1, Zenon DEF Steady
    <3>2. blk[b].bal \in Nat /\ blk[b].vote \in Nat
      BY <3>1, BalanceFacts, Zenon
    <3> QED BY <1>2, <3>1, <3>2 DEF VoteWeight, TotalBalance
  <2> QED BY <2>1, DelegatedAddsUp, Zenon
<1> QED BY <1>1, <1>2, <1>3, <1>4, <1>5, Zenon

\* The weights are right at the start.
LEMMA InitWeight == Init => WeightInv
<1> SUFFICES ASSUME Init PROVE WeightInv
  BY Zenon
<1>1. IndInv /\ IsFiniteSet(blocks)
  BY InitIndInv, InitValue, Zenon DEF ValueInv
<1>2. \A r \in Account : representation[r] = Sum(WeightChange(r), blocks)
  BY <1>1, ComputedWeight, Zenon DEF Init
<1>3. \A r \in Account : Sum(WeightChange(r), blocks) \in Int
  <2> TAKE r \in Account
  <2>1. \A b \in blocks : WeightChange(r)[b] \in Int
    BY <1>1, BalanceFacts, Zenon DEF IndInv, IndexType
  <2>2. blocks \in SUBSET blocks
    BY Zenon
  <2> QED BY <1>1, <2>1, <2>2, SumFacts, Zenon
<1>4. representation = [r \in Account |-> representation[r]]
  BY Zenon DEF Init
<1>5. representation \in [Account -> Int]
  BY <1>2, <1>3, <1>4, Zenon
<1> QED BY <1>2, <1>5, Zenon DEF WeightInv

\* Every step keeps the weights right.
LEMMA NextWeight ==
    ASSUME IndInv, ValueInv, WeightInv, [Next]_vars
    PROVE  WeightInv'
<1>1. CASE \E b \in Block : Process(b)
  BY <1>1, ProcessWeight, Zenon DEF ValueInv
<1>2. CASE \E h \in Block : Rollback(h)
  BY <1>2, RollbackWeight, Zenon
<1>3. CASE Restart
  <2>1. blocks' = blocks /\ representation' =
            [r \in Account |-> DelegatedTo(r, [b \in Block |-> VoteWeight(b)])]
    BY <1>3, Zenon DEF Restart
  <2>2. IsFiniteSet(blocks)
    BY Zenon DEF ValueInv
  <2>3. representation' \in [Account -> Int]
    BY <2>1, <2>2, ComputedWeight, Zenon
  <2>4. \A r \in Account : Steady(r) => representation'[r] = Sum(WeightChange(r), blocks')
    BY <2>1, <2>2, ComputedWeight, Zenon
  <2> QED BY <2>3, <2>4,
             Zenon DEF WeightInv, Steady, WeightChange, BenefitOf, TotalBalance, IsOpen
<1>4. CASE UNCHANGED vars
  BY <1>4, Zenon DEF vars, WeightInv, Steady, WeightChange, BenefitOf, TotalBalance, IsOpen
<1> QED BY <1>1, <1>2, <1>3, <1>4, Zenon DEF Next

-----------------------------------------------------------------------------
(***************************************************************************)
(* The child index.                                                        *)
(***************************************************************************)

\* Every step keeps the child of a block its successor.
LEMMA NextChild ==
    ASSUME IndInv, ChildIsSuccessor, [Next]_vars
    PROVE  ChildIsSuccessor'
<1> DEFINE Plain(p) == \A o \in Block \ Genesis : IsOpen(o) => blk[o].link # p
<1>0. /\ child \in [Block -> HashOrNone]
      /\ \A p, d \in Block : Plain(p) => (child[p] = d <=> d \in blocks /\ blk[d].prev = p)
      /\ NoHash \notin Block
  BY NoHashAssumption, Zenon DEF IndInv, IndexType, ChildIsSuccessor
<1>1. SUFFICES \A p, d \in Block : Plain(p) => (child'[p] = d <=> d \in blocks' /\ blk[d].prev = p)
  BY Zenon DEF ChildIsSuccessor, IsOpen
<1>2. ASSUME NEW b \in Block, Process(b), NEW p \in Block, NEW d \in Block, Plain(p)
      PROVE  child'[p] = d <=> d \in blocks' /\ blk[d].prev = p
  <2>1. /\ blocks' = blocks \cup {b} /\ child' = setBlockChild(b)
        /\ ~IsOpen(b) => child[blk[b].prev] = NoHash
    BY <1>2, Zenon DEF Process, BlockProcess, Processable
  <2>2. b \notin blocks
    BY <1>2, CheckFacts, Zenon DEF Process
  <2>3. CASE p = blk[b].prev
    <3>1. ~IsOpen(b)
      BY <1>0, <2>3, Zenon DEF IsOpen
    <3>2. child'[p] = b
      BY <1>0, <2>1, <2>3, <3>1, Zenon DEF setBlockChild
    <3>3. \A e \in blocks : e \in Block /\ blk[e].prev # p
      BY <1>0, <1>2, <2>1, <2>3, <3>1 DEF IndInv, IndexType
    <3> QED BY <2>1, <2>3, <3>2, <3>3, Zenon
  <2>4. CASE p # blk[b].prev
    <3>1. child'[p] = child[p]
      BY <1>0, <2>1, <2>4, Zenon DEF setBlockChild
    <3> QED BY <1>0, <1>2, <2>1, <2>4, <3>1
  <2> QED BY <2>3, <2>4, Zenon
<1>3. ASSUME NEW h \in Block, Rollback(h), NEW p \in Block, NEW d \in Block, Plain(p)
      PROVE  child'[p] = d <=> d \in blocks' /\ blk[d].prev = p
  <2> DEFINE S == RollbackSet(h)
  <2>1. S \subseteq blocks \ Genesis /\ rollbackBlocks(S)
    BY <1>3, RollbackSetClosed, Zenon DEF Rollback
  <2> HIDE DEF S
  <2>2. /\ blocks' = blocks \ S
        /\ child'[p] = IF \E b \in S : Parent(b) = p THEN NoHash ELSE child[p]
    BY <2>1, Zenon DEF rollbackBlocks, DeleteStateBlocks
  <2>3. S \subseteq Block
    BY <2>1, Zenon DEF IndInv, IndexType
  <2>4. \A b \in S : Parent(b) = p <=> blk[b].prev = p
    <3> TAKE b \in S
    <3>1. b \in Block \ Genesis
      BY <2>1, <2>3, Zenon
    <3>2. CASE IsOpen(b)
      BY <1>0, <1>3, <3>1, <3>2, Zenon DEF Parent, IsOpen
    <3>3. CASE ~IsOpen(b)
      BY <3>3, Zenon DEF Parent
    <3> QED BY <3>2, <3>3, Zenon
  <2>5. CASE \E b \in S : blk[b].prev = p
    <3>1. PICK b \in S : blk[b].prev = p
      BY <2>5, Zenon
    <3>2. child[p] = b
      BY <1>0, <1>3, <2>1, <2>3, <3>1
    <3>3. child'[p] = NoHash
      BY <2>2, <2>4, <2>5, Zenon
    <3> QED BY <1>0, <1>3, <2>2, <3>1, <3>2, <3>3
  <2>6. CASE ~\E b \in S : blk[b].prev = p
    <3>1. child'[p] = child[p]
      BY <2>2, <2>4, <2>6, Zenon
    <3> QED BY <1>0, <1>3, <2>2, <2>6, <3>1, Zenon
  <2> QED BY <2>5, <2>6, Zenon
<1>4. CASE UNCHANGED <<blocks, child>>
  BY <1>0, <1>4, Zenon
<1> QED BY <1>2, <1>3, <1>4, Zenon DEF Next, Restart, vars

-----------------------------------------------------------------------------
(***************************************************************************)
(* The supply.  A block changes its chain by what it receives minus what   *)
(* it sends.  Summed over all blocks, the left side is what the heads own  *)
(* beyond Genesis, and on the right side every receive cancels its send:   *)
(* what remains are the sends nobody received.                             *)
(***************************************************************************)
Sent(b) == IF IsSendBlock(b) /\ SendAmount(b) # NoAmount THEN SendAmount(b) ELSE 0
Received(b) == IF IsReceiveBlock(b) THEN Sent(blk[b].link) ELSE 0

\* What is sent is a number.
LEMMA SentFacts ==
    ASSUME IndInv, NEW b \in blocks
    PROVE  Sent(b) \in Nat
<1>1. b \in Block /\ blk[b].type \in BlockType /\ blk[b].amt \in Nat \cup {NoAmount}
  BY BlockFacts, Zenon DEF IndInv, IndexType
<1>2. CASE blk[b].type = "Send"
  <2>1. ~IsOpen(b)
    BY <1>1, <1>2, OpenAssumption, Zenon
  <2>2. blk[b].bal \in Nat /\ blk[blk[b].prev].bal \in Nat /\ blk[blk[b].prev].bal > blk[b].bal
    BY <1>1, <1>2, <2>1, PrevFacts, BlockFacts, Zenon DEF IndInv, Credits
  <2> QED BY <1>2, <2>2 DEF Sent, SendAmount
<1>3. CASE blk[b].type # "Send"
  BY <1>1, <1>3, Zenon DEF Sent, SendAmount
<1> QED BY <1>2, <1>3, Zenon

\* The balance of a chain changes by what a block receives minus what it sends.
LEMMA BlockBalances ==
    ASSUME IndInv, ValueInv, OpensKeepBalance, ContractsConserve, NEW b \in blocks \ Genesis
    PROVE  /\ RewardAmount(b) \in Int
           /\ Received(b) = RewardAmount(b) + Sent(b)
           /\ IsReceiveBlock(b) => blk[blk[b].link].token = blk[b].token
<1> DEFINE p == blk[b].prev
           s == blk[b].link
<1>0. b \in Block /\ blk[b].type \in BlockType /\ Checked(b)
  BY BlockFacts, Zenon DEF IndInv, IndexType, ValueInv
<1>1. blk[b].bal \in Nat /\ blk[b].vote \in Nat /\ blk[b].other \in Nat
  BY <1>0, BalanceFacts, Zenon
<1>2. ~IsOpen(b) => p \in Block /\ blk[p].bal \in Nat /\ blk[p].vote \in Nat /\ blk[p].other \in Nat
  BY <1>0, PrevFacts, BalanceFacts, Zenon
<1>3. RewardAmount(b) \in Int
  BY <1>1, <1>2 DEF RewardAmount, TotalBalance
<1>4. IsReceiveBlock(b) => /\ s \in Block /\ IsSendBlock(s) /\ s \in blocks
                           /\ blk[b].type = "ContractReward" => blk[s].type = "ContractSend"
  BY <1>0, LinkAssumption, Zenon DEF IndInv, ReceivesMatchSends
<1>5. CASE blk[b].type = "Send"
  <2>1. ~IsOpen(b)
    BY <1>0, <1>5, OpenAssumption, Zenon
  <2>2. blk[p].bal > blk[b].bal /\ SameStake(b, p)
    BY <1>0, <1>5, Zenon DEF IndInv, Credits, Checked
  <2>3. Sent(b) = blk[p].bal - blk[b].bal
    <3>1. SendAmount(b) = blk[p].bal - blk[b].bal
      BY <1>5, Zenon DEF SendAmount
    <3>2. blk[p].bal - blk[b].bal # NoAmount
      <4>1. blk[p].bal - blk[b].bal \in Nat
        BY <1>1, <1>2, <2>1, <2>2
      <4>2. \A n \in Nat : n # NoAmount
        BY DEF NoAmount
      <4> QED BY <4>1, <4>2, Zenon
    <3> QED BY <1>5, <3>1, <3>2, Zenon DEF Sent, IsSendBlock
  <2>4. RewardAmount(b) = blk[b].bal - blk[p].bal
    BY <1>1, <1>2, <2>1, <2>2 DEF RewardAmount, TotalBalance, SameStake
  <2>5. Received(b) = 0
    BY <1>5, Zenon DEF Received, IsReceiveBlock
  <2> QED BY <1>1, <1>2, <1>3, <1>5, <2>1, <2>3, <2>4, <2>5 DEF IsReceiveBlock
<1>6. CASE blk[b].type = "ContractSend"
  <2>1. blk[b].gain = (IF blk[b].amt = NoAmount THEN 0 ELSE blk[b].amt) /\ RewardAmount(b) = -blk[b].gain
    BY <1>0, <1>6, Zenon DEF ContractsConserve
  <2>2. Sent(b) = blk[b].gain
    BY <1>6, <2>1, Zenon DEF Sent, IsSendBlock, SendAmount
  <2>3. Received(b) = 0
    BY <1>6, Zenon DEF Received, IsReceiveBlock
  <2>4. blk[b].gain \in Nat
    BY <1>0, BlockFacts, Zenon DEF StateBlock
  <2> QED BY <1>3, <1>6, <2>1, <2>2, <2>3, <2>4 DEF IsReceiveBlock
<1>7. CASE blk[b].type \in {"Change", "Online"}
  <2>1. ~IsOpen(b)
    BY <1>0, <1>7, OpenAssumption, Zenon
  <2>2. blk[p].bal = blk[b].bal /\ SameStake(b, p)
    BY <1>0, <1>7, Zenon DEF Checked
  <2>3. Sent(b) = 0 /\ Received(b) = 0
    BY <1>7, Zenon DEF Sent, IsSendBlock, Received, IsReceiveBlock
  <2>4. RewardAmount(b) = 0
    BY <1>1, <1>2, <2>1, <2>2 DEF RewardAmount, TotalBalance, SameStake
  <2> QED BY <1>7, <2>3, <2>4 DEF IsReceiveBlock
<1>8. CASE blk[b].type \in {"Open", "Receive"}
  <2>1. Sent(b) = 0 /\ IsReceiveBlock(b)
    BY <1>8, Zenon DEF Sent, IsSendBlock, IsReceiveBlock
  <2>2. Received(b) = SendAmount(s) /\ blk[s].token = blk[b].token
    BY <1>0, <1>4, <1>8, <2>1, Zenon DEF Received, Sent, IndInv, Credits, Checked
  <2>3. RewardAmount(b) = SendAmount(s)
    <3>1. CASE blk[b].type = "Open"
      <4>1. IsOpen(b) /\ blk[b].vote = 0 /\ blk[b].other = 0 /\ blk[b].bal = SendAmount(s)
        BY <1>0, <3>1, OpenAssumption, Zenon DEF Checked, ValueInv, AmountInv
      <4> QED BY <1>1, <4>1 DEF RewardAmount, TotalBalance
    <3>2. CASE blk[b].type = "Receive"
      <4>1. ~IsOpen(b) /\ SameStake(b, p) /\ blk[b].bal - blk[p].bal = SendAmount(s)
        BY <1>0, <3>2, OpenAssumption, Zenon DEF Checked, ValueInv, AmountInv
      <4> QED BY <1>1, <1>2, <4>1 DEF RewardAmount, TotalBalance, SameStake
    <3> QED BY <1>8, <3>1, <3>2, Zenon
  <2> QED BY <1>3, <2>1, <2>2, <2>3
<1>9. CASE blk[b].type = "ContractReward"
  <2>1. Sent(b) = 0 /\ IsReceiveBlock(b)
    BY <1>9, Zenon DEF Sent, IsSendBlock, IsReceiveBlock
  <2>2. s \in Block \ Genesis /\ blk[s].type = "ContractSend"
    BY <1>4, <1>9, <2>1, GenesisAssumption, Zenon
  <2>3. /\ blk[s].gain = (IF blk[s].amt = NoAmount THEN 0 ELSE blk[s].amt)
        /\ blk[s].token = blk[b].token
    BY <1>0, <1>9, <2>2, Zenon DEF ContractsConserve
  <2>4. Received(b) = blk[s].gain
    BY <2>1, <2>2, <2>3, Zenon DEF Received, Sent, IsSendBlock, SendAmount
  <2>5. RewardAmount(b) = blk[s].gain
    BY <1>0, <1>9, Zenon DEF Checked
  <2> QED BY <1>3, <2>1, <2>3, <2>4, <2>5
<1> QED BY <1>0, <1>5, <1>6, <1>7, <1>8, <1>9, Zenon DEF BlockType

\* What the heads own and what is pending is what Genesis owns.
LEMMA SupplyAddsUp ==
    ASSUME IndInv, ValueInv, OpensKeepBalance, ContractsConserve, NEW t \in Token,
           NEW total, total = [b \in Block |-> TotalBalance(b)]
    PROVE  Sum(total, Heads(t)) + Sum(pending, {s \in Block : HasPending(s) /\ blk[s].token = t})
           = Sum(total, {g \in Genesis : blk[g].token = t})
<1> DEFINE N == blocks \ Genesis
           R == {b \in N : IsReceiveBlock(b)}
           L == {s \in N : link[s] # NoHash}
           P == {s \in Block : HasPending(s) /\ blk[s].token = t}
           G == {g \in Genesis : blk[g].token = t}
           f == [b \in R |-> blk[b].link]
<1>1. PICK own : own = [b \in Block |-> IF blk[b].token = t THEN TotalBalance(b) ELSE 0]
  BY Zenon
<1>2. PICK out : out = [b \in Block |-> IF blk[b].token = t THEN Sent(b) ELSE 0]
  BY Zenon
<1>3. PICK inn : inn = [b \in Block |-> IF blk[b].token = t THEN Received(b) ELSE 0]
  BY Zenon
<1>4. PICK gr : gr = [b \in blocks |-> Growth(own, b)]
  BY Zenon
<1>5. /\ blocks \subseteq Block /\ Genesis \subseteq blocks /\ IsFiniteSet(blocks)
      /\ IsFiniteSet(Genesis) /\ IsFiniteSet(N) /\ Genesis \in SUBSET blocks
      /\ N \in SUBSET blocks /\ Genesis \cap N = {} /\ Genesis \cup N = blocks
  BY FS_Subset, Zenon DEF IndInv, IndexType, ChainShape, ValueInv
<1>6. \A b \in blocks : own[b] \in Int
  BY <1>1, <1>5, BalanceFacts
<1>7. \A b \in blocks : gr[b] = IF blk[b].token = t THEN RewardAmount(b) ELSE 0
  <2> TAKE b \in blocks
  <2>1. b \in Block /\ TotalBalance(b) \in Nat
    BY <1>5, BalanceFacts, Zenon
  <2>2. CASE IsOpen(b)
    BY <1>1, <1>4, <2>1, <2>2 DEF Growth, RewardAmount
  <2>3. CASE ~IsOpen(b)
    <3>1. blk[b].prev \in Block /\ blk[blk[b].prev].token = blk[b].token
      BY <2>1, <2>3, PrevFacts, Zenon DEF Chain
    <3> QED BY <1>1, <1>4, <2>1, <2>3, <3>1 DEF Growth, RewardAmount
  <2> QED BY <2>2, <2>3, Zenon
<1>8. \A b \in N : /\ inn[b] \in Int /\ gr[b] \in Int /\ out[b] \in Int
                   /\ inn[b] = gr[b] + out[b]
                   /\ IsReceiveBlock(b) => blk[blk[b].link].token = blk[b].token
  <2> TAKE b \in N
  <2>1. b \in Block /\ Sent(b) \in Nat /\ RewardAmount(b) \in Int
        /\ Received(b) = RewardAmount(b) + Sent(b)
        /\ (IsReceiveBlock(b) => blk[blk[b].link].token = blk[b].token)
    BY <1>5, SentFacts, BlockBalances, Zenon
  <2>2. Received(b) \in Int
    BY <2>1
  <2>3. gr[b] = IF blk[b].token = t THEN RewardAmount(b) ELSE 0
    BY <1>5, <1>7, Zenon
  <2> QED BY <1>2, <1>3, <2>1, <2>2, <2>3
<1>9. \A g \in Genesis : gr[g] = own[g] /\ own[g] \in Int
  <2> TAKE g \in Genesis
  <2>1. g \in Block /\ IsOpen(g) /\ TotalBalance(g) \in Nat
    BY <1>5, GenesisAssumption, BalanceFacts, Zenon
  <2> QED BY <1>1, <1>5, <1>7, <2>1 DEF RewardAmount
<1>10. Sum(own, AllHeads) = Sum(total, Heads(t))
  <2>1. /\ AllHeads \in SUBSET blocks /\ Heads(t) \in SUBSET AllHeads
        /\ \A b \in Heads(t) : total[b] = own[b]
        /\ \A b \in AllHeads \ Heads(t) : own[b] = 0
    BY <1>1, <1>5, Zenon DEF AllHeads, Heads
  <2>2. IsFiniteSet(AllHeads) /\ \A b \in AllHeads : own[b] \in Int
    BY <1>5, <1>6, <2>1, FS_Subset, Zenon
  <2> QED BY <2>1, <2>2, SumOnly
<1>11. Sum(own, AllHeads) = Sum(gr, blocks)
  BY <1>4, <1>5, <1>6, HeadsAddUp, Zenon
<1>12. Sum(gr, Genesis) = Sum(total, G)
  <2>1. /\ G \in SUBSET Genesis /\ \A g \in G : total[g] = gr[g]
        /\ \A g \in Genesis \ G : gr[g] = 0
        /\ \A g \in Genesis : gr[g] \in Int
    BY <1>1, <1>5, <1>9, Zenon
  <2> HIDE DEF G
  <2> QED BY <1>5, <2>1, SumOnly
<1>13. /\ f \in [R -> L] /\ \A x, y \in R : f[x] = f[y] => x = y
       /\ \A s \in L : \E x \in R : f[x] = s
       /\ R \in SUBSET N /\ L \in SUBSET N
       /\ \A x \in R : inn[x] = out[f[x]]
  <2>1. \A b \in R : /\ blk[b].link \in blocks /\ link[blk[b].link] = b /\ b \in Block
                     /\ b # NoHash
    BY <1>5, BlockFacts, Zenon DEF IndInv, ReceivesMatchSends
  <2>2. \A b \in R : blk[b].link \in L
    <3> TAKE b \in R
    <3>1. blk[b].link \in Block /\ IsSendBlock(blk[b].link)
      BY <2>1, LinkAssumption, Zenon
    <3>2. blk[b].link \notin Genesis
      BY <3>1, GenesisAssumption, Zenon DEF IsSendBlock
    <3> QED BY <2>1, <3>2, Zenon
  <2>3. \A s \in L : link[s] \in R /\ f[link[s]] = s
    BY <1>5, LinkedIsConfirmed, Zenon
  <2>4. \A x \in R : inn[x] = out[f[x]]
    <3> TAKE x \in R
    <3>1. blk[blk[x].link].token = blk[x].token /\ Received(x) = Sent(blk[x].link)
      BY <1>8, Zenon DEF Received
    <3>2. x \in Block /\ blk[x].link \in Block /\ f[x] = blk[x].link
      BY <1>5, <2>1, Zenon
    <3> HIDE DEF f, R
    <3>3. inn[x] = IF blk[x].token = t THEN Received(x) ELSE 0
      BY <1>3, <3>2, Zenon
    <3>4. out[blk[x].link] = IF blk[blk[x].link].token = t THEN Sent(blk[x].link) ELSE 0
      BY <1>2, <3>2, Zenon
    <3> QED BY <3>1, <3>2, <3>3, <3>4, Zenon
  <2>5. f \in [R -> L]
    BY <2>2, Zenon
  <2>6. \A x, y \in R : f[x] = f[y] => x = y
    BY <2>1, Zenon
  <2>7. R \in SUBSET N /\ L \in SUBSET N
    BY Zenon
  <2> HIDE DEF R, L, f, N
  <2> QED BY <2>3, <2>4, <2>5, <2>6, <2>7, Zenon
<1>14. \A b \in N \ R : inn[b] = 0
  BY <1>3, <1>5, Zenon DEF Received
<1>15. Sum(out, N \ L) = Sum(pending, P)
  <2>1. P \in SUBSET (N \ L)
    <3> SUFFICES ASSUME NEW s \in P PROVE s \in N \ L
      BY Zenon
    <3>1. s \in Block /\ s \in blocks /\ IsSendBlock(s) /\ link[s] = NoHash
      BY Zenon DEF IndInv, PendingIsUnreceived
    <3> QED BY <3>1, GenesisAssumption, Zenon DEF IsSendBlock
  <2>2. \A s \in P : pending[s] = out[s]
    <3> TAKE s \in P
    <3>1. /\ s \in Block /\ IsSendBlock(s) /\ SendAmount(s) # NoAmount /\ blk[s].token = t
          /\ pending[s] = SendAmount(s)
      BY Zenon DEF IndInv, PendingIsUnreceived, ValueInv, AmountInv
    <3> QED BY <1>2, <3>1, Zenon DEF Sent
  <2>3. \A s \in (N \ L) \ P : out[s] = 0
    <3> TAKE s \in (N \ L) \ P
    <3>1. s \in Block /\ s \in blocks /\ link[s] = NoHash /\ (~HasPending(s) \/ blk[s].token # t)
      BY <1>5, Zenon
    <3>2. ~HasPending(s) => Sent(s) = 0
      BY <3>1, Zenon DEF IndInv, PendingIsUnreceived, Sent
    <3> QED BY <1>2, <3>1, <3>2, Zenon
  <2>4. IsFiniteSet(N \ L) /\ \A s \in N \ L : out[s] \in Int
    BY <1>5, <1>8, FS_Subset, Zenon
  <2> HIDE DEF N, L, P
  <2> QED BY <2>1, <2>2, <2>3, <2>4, SumOnly
<1> HIDE DEF N, R, L, P, G, f
<1>16. Sum(gr, Genesis \cup N) = Sum(gr, Genesis) + Sum(gr, N)
  <2>1. \A b \in blocks : gr[b] \in Int
    BY <1>5, <1>8, <1>9, Zenon
  <2> QED BY <1>5, <2>1, SumSplit
<1>17. Sum(inn, N) = Sum(gr, N) + Sum(out, N)
  BY <1>5, <1>8, SumPlus
<1>18. Sum(inn, N) = Sum(inn, R)
  BY <1>5, <1>8, <1>13, <1>14, SumOnly
<1>19. Sum(inn, R) = Sum(out, L)
  BY <1>5, <1>8, <1>13, SumRenamed
<1>20. Sum(out, N) = Sum(out, L) + Sum(out, N \ L)
  <2>1. L \in SUBSET N /\ N \ L \in SUBSET N /\ L \cap (N \ L) = {} /\ L \cup (N \ L) = N
    BY <1>13, Zenon
  <2>2. Sum(out, L \cup (N \ L)) = Sum(out, L) + Sum(out, N \ L)
    BY <1>5, <1>8, <2>1, SumSplit
  <2> QED BY <2>1, <2>2, Zenon
<1>21. /\ Sum(gr, Genesis) \in Int /\ Sum(gr, N) \in Int /\ Sum(out, L) \in Int
       /\ Sum(out, N \ L) \in Int /\ Sum(out, N) \in Int
  <2>1. Genesis \in SUBSET Genesis /\ N \in SUBSET N /\ L \in SUBSET N /\ N \ L \in SUBSET N
    BY <1>13, Zenon
  <2> QED BY <1>5, <1>8, <1>9, <2>1, SumFacts, Zenon
<1>22. ASSUME NEW c \in Int, NEW l \in Int, NEW n \in Int, NEW o \in Int, NEW p \in Int,
              l = n + o, o = l + p
       PROVE  (c + n) + p = c
  BY <1>22
<1>23. Sum(total, Heads(t)) = Sum(gr, Genesis) + Sum(gr, N)
  BY <1>5, <1>10, <1>11, <1>16, Zenon
<1>24. Sum(out, L) = Sum(gr, N) + Sum(out, N)
  BY <1>17, <1>18, <1>19, Zenon
<1>26. (Sum(gr, Genesis) + Sum(gr, N)) + Sum(out, N \ L) = Sum(gr, Genesis)
  BY <1>20, <1>21, <1>22, <1>24
<1>27. Sum(total, Heads(t)) + Sum(pending, P) = Sum(total, G)
  BY <1>12, <1>15, <1>23, <1>26, Zenon
<1> QED BY <1>27, Zenon DEF P, G

-----------------------------------------------------------------------------
(***************************************************************************)
(* The theorems.                                                           *)
(***************************************************************************)
FullInv == IndInv /\ ValueInv /\ WeightInv /\ ChildIsSuccessor

\* The invariant holds initially.
LEMMA InitFull == Init => FullInv
<1> SUFFICES ASSUME Init PROVE ChildIsSuccessor
  BY InitIndInv, InitValue, InitWeight, Zenon DEF FullInv
<1>1. \A g \in Genesis : blk[g].prev = NoHash
  BY GenesisAssumption, Zenon DEF IsOpen
<1> QED BY <1>1, NoHashAssumption, Zenon DEF Init, ChildIsSuccessor

\* Every step preserves it.
LEMMA NextFull ==
    ASSUME OneTokenPerAccount, FullInv, [Next]_vars
    PROVE  FullInv'
  BY NextIndInv, NextValue, NextWeight, NextChild, Zenon DEF FullInv

\* Whatever is processed, rolled back and recomputed, every index holds hashes
\* of blocks, every pending amount is a natural number and every weight an
\* integer.
THEOREM TypesStayRight ==
    ASSUME OneTokenPerAccount
    PROVE  Spec => []TypeOK
<1>1. Init => FullInv
  BY InitFull, Zenon
<1>2. FullInv /\ [Next]_vars => FullInv'
  BY NextFull, Zenon
<1>3. FullInv => TypeOK
  BY Zenon DEF FullInv, IndInv, WeightInv, TypeOK
<1> QED BY <1>1, <1>2, <1>3, PTL DEF Spec

\* Where no block changes the balance of a chain that an Open started, the
\* pending table always holds the amount the send took from the sender, also
\* for a send that a rollback made receivable again.
THEOREM PendingAmountsStaySent ==
    ASSUME OneTokenPerAccount
    PROVE  Spec => []PendingAmountIsSent
<1>1. Init => FullInv
  BY InitFull, Zenon
<1>2. FullInv /\ [Next]_vars => FullInv'
  BY NextFull, Zenon
<1>3. FullInv => PendingAmountIsSent
  BY Zenon DEF FullInv, ValueInv, AmountInv, PendingAmountIsSent
<1> QED BY <1>1, <1>2, <1>3, PTL DEF Spec

\* For any set of blocks and any history of processing and rolling back, the
\* balances and the pending amounts of a token add up to its supply in Genesis.
THEOREM SupplyStaysConserved ==
    ASSUME OneTokenPerAccount
    PROVE  Spec => []SupplyIsConserved
<1>1. Init => FullInv
  BY InitFull, Zenon
<1>2. FullInv /\ [Next]_vars => FullInv'
  BY NextFull, Zenon
<1>3. FullInv => SupplyIsConserved
  BY SupplyAddsUp, Zenon DEF FullInv, SupplyIsConserved
<1> QED BY <1>1, <1>2, <1>3, PTL DEF Spec

\* The weight of a representative, kept by increments on every block and every
\* rollback and recomputed at every restart, is what the accounts that chose it
\* own.
THEOREM WeightsStayDelegated ==
    ASSUME OneTokenPerAccount
    PROVE  Spec => []WeightIsDelegated
<1>1. Init => FullInv
  BY InitFull, Zenon
<1>2. FullInv /\ [Next]_vars => FullInv'
  BY NextFull, Zenon
<1>3. FullInv => WeightIsDelegated
  BY ComputedWeight, Zenon DEF FullInv, ValueInv, WeightInv, WeightIsDelegated
<1> QED BY <1>1, <1>2, <1>3, PTL DEF Spec

\* The child index is the successor relation of the confirmed blocks, so a
\* second block on the same parent is always refused.
THEOREM ChildrenStaySuccessors ==
    ASSUME OneTokenPerAccount
    PROVE  Spec => []ChildIsSuccessor
<1>1. Init => FullInv
  BY InitFull, Zenon
<1>2. FullInv /\ [Next]_vars => FullInv'
  BY NextFull, Zenon
<1>3. FullInv => ChildIsSuccessor
  BY Zenon DEF FullInv
<1> QED BY <1>1, <1>2, <1>3, PTL DEF Spec
=============================================================================
