-------------------------- MODULE ClientSheetProofs --------------------------
(***************************************************************************)
(* Proofs about ClientSheet, for any finite set of cells and any texts.    *)
(***************************************************************************)
EXTENDS ClientSheet, FiniteSetTheorems, NaturalsInduction, SequenceTheorems, TLAPS

-----------------------------------------------------------------------------
(* Numbers.                                                                *)

LEMMA NatMin ==
  ASSUME NEW T \in SUBSET Nat, T # {}
  PROVE  \E x \in T : \A y \in T : x <= y
<1> DEFINE R == OpToRel(<, Nat)
<1>1. \A x, y \in Nat : <<x, y>> \in R <=> x < y
  BY DEF OpToRel
<1>2. \E x \in T : \A y \in T : ~ (<<y, x>> \in R)
  <2>1. IsWellFoundedOn(R, Nat)
    BY NatLessThanWellFounded
  <2> HIDE DEF R
  <2>2. QED
    BY <2>1, WFMin, Zenon
<1> HIDE DEF R
<1>3. PICK x \in T : \A y \in T : ~ (<<y, x>> \in R)
  BY <1>2
<1>4. \A y \in T : ~(y < x)
  BY <1>1, <1>3
<1>5. \A y \in T : y \in Nat /\ x \in Nat
  OBVIOUS
<1>6. QED
  BY <1>4, <1>5

\* Induction, on the set of the numbers for which something holds.
LEMMA NatSet ==
  ASSUME NEW S \in SUBSET Nat, 0 \in S, \A n \in S : n + 1 \in S
  PROVE  S = Nat
<1> SUFFICES ASSUME Nat \ S # {}
             PROVE  FALSE
  OBVIOUS
<1>1. PICK m \in Nat \ S : \A n \in Nat \ S : m <= n
  BY NatMin
<1>2. m # 0 /\ m - 1 \in Nat /\ ~(m <= m - 1)
  BY <1>1
<1>3. m - 1 \in S
  BY <1>1, <1>2
<1>4. (m - 1) + 1 = m
  BY <1>2
<1> QED
  BY <1>1, <1>3, <1>4

-----------------------------------------------------------------------------
(* The graph: as long as no name is its own dependee, it is what the       *)
(* dependees of each name make it.                                         *)

Links == [Cell -> SUBSET Cell]

Pairs(e) == {p \in Cell \X Cell : p[1] \in e[p[2]]}

GraphOf(e) ==
  [dependents |-> [n \in Cell |-> {m \in Cell : n \in e[m]}],
   dependees  |-> e,
   size       |-> Cardinality(Pairs(e))]

LEMMA SameCardinality == \A S : DG!Cardinality(S) = Cardinality(S)
  BY Zenon DEF DG!Cardinality, Cardinality

LEMMA PairsFinite ==
  ASSUME IsFiniteSet(Cell), NEW e
  PROVE  IsFiniteSet(Pairs(e)) /\ Cardinality(Pairs(e)) \in Nat
<1>1. IsFiniteSet(Cell \X Cell)
  BY FS_Product
<1>2. Pairs(e) \in SUBSET (Cell \X Cell)
  BY DEF Pairs
<1> QED
  BY <1>1, <1>2, FS_Subset, FS_CardinalityType

LEMMA GraphOfType ==
  ASSUME IsFiniteSet(Cell), NEW e \in Links
  PROVE  /\ GraphOf(e) \in DG!Graph
         /\ GraphOf(e).dependees = e
         /\ GraphOf(e).dependents \in Links
         /\ \A n, m \in Cell : m \in GraphOf(e).dependents[n] <=> n \in e[m]
<1>1. Cardinality(Pairs(e)) \in Nat
  BY PairsFinite
<1> QED
  BY <1>1 DEF GraphOf, DG!Graph, Links

\* The pairs with one name, counted.
LEMMA Fan ==
  ASSUME IsFiniteSet(Cell), NEW s \in Cell, NEW S \in SUBSET Cell
  PROVE  /\ IsFiniteSet(S \X {s}) /\ Cardinality(S \X {s}) = Cardinality(S)
         /\ Cardinality(S) \in Nat
<1>1. IsFiniteSet(S) /\ Cardinality(S) \in Nat
  BY FS_Subset, FS_CardinalityType
<1>2. IsFiniteSet({s}) /\ Cardinality({s}) = 1
  BY FS_Singleton
<1>3. IsFiniteSet(S \X {s}) /\ Cardinality(S \X {s}) = Cardinality(S) * Cardinality({s})
  BY <1>1, <1>2, FS_Product
<1> QED
  BY <1>1, <1>2, <1>3

LEMMA Balance ==
  ASSUME NEW A, NEW B, IsFiniteSet(A), IsFiniteSet(B), A \cap B = {}
  PROVE  /\ Cardinality(A \cup B) = Cardinality(A) + Cardinality(B)
         /\ Cardinality(A) \in Nat /\ Cardinality(B) \in Nat
<1>1. Cardinality(A \cap B) = 0
  BY FS_EmptySet, Zenon
<1>2. Cardinality(A \cup B) = Cardinality(A) + Cardinality(B) - Cardinality(A \cap B)
  BY FS_Union
<1>3. Cardinality(A) \in Nat /\ Cardinality(B) \in Nat
  BY FS_CardinalityType
<1> QED
  BY <1>1, <1>2, <1>3

\* ReplaceDependees replaces the dependees, and counts.
LEMMA Replaced ==
  ASSUME IsFiniteSet(Cell), NEW e \in Links, NEW s \in Cell, s \notin e[s],
         NEW new \in SUBSET Cell, s \notin new
  PROVE  DG!ReplaceDependees(GraphOf(e), s, new) = {GraphOf([e EXCEPT ![s] = new])}
<1> DEFINE g    == GraphOf(e)
           old  == e[s]
           mid  == DG!WithoutDependees(g, s, old)
           last == DG!WithDependees(mid, s, new)
           none == [e EXCEPT ![s] = {}]
           next == [e EXCEPT ![s] = new]
<1>1. DG!ReplaceDependees(g, s, new) = {last}
  BY DEF DG!ReplaceDependees, GraphOf
<1>2. old \in SUBSET Cell /\ none \in Links /\ next \in Links
  BY DEF Links
<1>3. /\ IsFiniteSet(Pairs(none)) /\ Cardinality(Pairs(none)) \in Nat
      /\ IsFiniteSet(old \X {s}) /\ Cardinality(old \X {s}) = Cardinality(old)
      /\ IsFiniteSet(new \X {s}) /\ Cardinality(new \X {s}) = Cardinality(new)
      /\ Cardinality(old) \in Nat /\ Cardinality(new) \in Nat
  BY <1>2, PairsFinite, Fan
<1>4. /\ Pairs(e) = Pairs(none) \cup (old \X {s}) /\ Pairs(none) \cap (old \X {s}) = {}
      /\ Pairs(next) = Pairs(none) \cup (new \X {s}) /\ Pairs(none) \cap (new \X {s}) = {}
  BY <1>2 DEF Pairs, Links
<1>5. /\ Cardinality(Pairs(e)) = Cardinality(Pairs(none)) + Cardinality(old)
      /\ Cardinality(Pairs(next)) = Cardinality(Pairs(none)) + Cardinality(new)
  BY <1>3, <1>4, Balance
<1>6. mid = GraphOf(none)
  <2>1. {n \in old : s \in g.dependents[n]} = old
    BY <1>2 DEF GraphOf
  <2>2. g.size - DG!Cardinality({n \in old : s \in g.dependents[n]}) = Cardinality(Pairs(none))
    <3>1. g.size = Cardinality(Pairs(e)) /\ DG!Cardinality(old) = Cardinality(old)
      BY SameCardinality DEF GraphOf
    <3> DEFINE count == DG!Cardinality({n \in old : s \in g.dependents[n]})
    <3>2. count = Cardinality(old)
      BY <2>1, <3>1, Zenon
    <3> HIDE DEF g, old, none, count
    <3>3. g.size - count = Cardinality(Pairs(none))
      BY <1>3, <1>5, <3>1, <3>2
    <3> QED
      BY <3>3 DEF count
  <2>3. [n \in Cell |-> IF n \in old THEN g.dependents[n] \ {s} ELSE g.dependents[n]]
          = [n \in Cell |-> {m \in Cell : n \in none[m]}]
    BY <1>2 DEF GraphOf, Links
  <2>4. [g.dependees EXCEPT ![s] = @ \ old] = none
    BY <1>2 DEF GraphOf, Links
  <2> QED
    BY <2>2, <2>3, <2>4 DEF GraphOf, DG!WithoutDependees
<1>7. last = GraphOf(next)
  <2> HIDE DEF mid
  <2>0. /\ mid.size = Cardinality(Pairs(none)) /\ mid.dependees = none
        /\ mid.dependents = [n \in Cell |-> {m \in Cell : n \in none[m]}]
    BY <1>6 DEF GraphOf
  <2>1. {n \in new : s \notin mid.dependents[n]} = new
    BY <1>2, <2>0 DEF Links
  <2>2. mid.size + DG!Cardinality({n \in new : s \notin mid.dependents[n]}) = Cardinality(Pairs(next))
    <3>1. DG!Cardinality(new) = Cardinality(new)
      BY SameCardinality
    <3> HIDE DEF old, none, next
    <3> QED
      BY <1>3, <1>5, <2>0, <2>1, <3>1
  <2>3. [n \in Cell |-> IF n \in new THEN mid.dependents[n] \cup {s} ELSE mid.dependents[n]]
          = [n \in Cell |-> {m \in Cell : n \in next[m]}]
    BY <1>2, <2>0 DEF Links
  <2>4. [mid.dependees EXCEPT ![s] = @ \cup new] = next
    BY <1>2, <2>0 DEF Links
  <2> QED
    BY <2>2, <2>3, <2>4 DEF GraphOf, DG!WithDependees
<1> QED
  BY <1>1, <1>7

-----------------------------------------------------------------------------
(* The loops of Visit.  A call of one has fewer cells that are not visited, *)
(* or as many and fewer names left.                                         *)

Calls == (SUBSET Cell) \X (SUBSET Cell)

Unvisited(call) == Cardinality(Cell \ call[2])

Weight(call) == Unvisited(call) * (Cardinality(Cell) + 1) + Cardinality(call[1])

Smaller(a, b) == b[2] \subseteq a[2] /\ (b[2] # a[2] \/ (a[1] \subseteq b[1] /\ a[1] # b[1]))

LEMMA Fewer ==
  ASSUME NEW B, IsFiniteSet(B), NEW A \in SUBSET B
  PROVE  /\ Cardinality(A) \in Nat /\ Cardinality(B) \in Nat /\ Cardinality(A) <= Cardinality(B)
         /\ A # B => Cardinality(A) < Cardinality(B)
<1>1. IsFiniteSet(A) /\ Cardinality(A) <= Cardinality(B)
  BY FS_Subset
<1>2. Cardinality(A) = Cardinality(B) => A = B
  BY FS_Subset
<1> QED
  BY <1>1, <1>2, FS_CardinalityType

LEMMA Lexicographic ==
  ASSUME NEW n \in Nat, NEW k \in Nat, NEW l \in Nat, NEW p \in Nat, NEW q \in Nat, k < l, p <= n
  PROVE  k * (n + 1) + p < l * (n + 1) + q
<1>1. PICK d \in Nat : l = k + 1 + d
  <2>1. l - k - 1 \in Nat /\ l = k + 1 + (l - k - 1)
    OBVIOUS
  <2> QED
    BY <2>1
<1>2. l * (n + 1) = k * (n + 1) + (n + 1) + d * (n + 1)
  BY <1>1
<1>3. d * (n + 1) \in Nat /\ k * (n + 1) \in Nat
  OBVIOUS
<1> QED
  BY <1>2, <1>3

LEMMA WeightType ==
  ASSUME IsFiniteSet(Cell), NEW call \in Calls
  PROVE  /\ Weight(call) \in Nat /\ Unvisited(call) \in Nat
         /\ Cardinality(call[1]) \in Nat /\ Cardinality(call[1]) <= Cardinality(Cell)
         /\ Cardinality(Cell) \in Nat
<1>1. call[1] \in SUBSET Cell /\ Cell \ call[2] \in SUBSET Cell
  BY DEF Calls
<1>2. /\ Cardinality(call[1]) \in Nat /\ Cardinality(Cell) \in Nat
      /\ Cardinality(call[1]) <= Cardinality(Cell)
  BY <1>1, Fewer
<1>3. Unvisited(call) \in Nat
  BY <1>1, Fewer DEF Unvisited
<1>4. Unvisited(call) * (Cardinality(Cell) + 1) \in Nat
  BY <1>2, <1>3
<1> QED
  BY <1>2, <1>3, <1>4 DEF Weight

LEMMA SmallerWeighsLess ==
  ASSUME IsFiniteSet(Cell), NEW a \in Calls, NEW b \in Calls, Smaller(a, b)
  PROVE  Weight(a) < Weight(b)
<1>1. /\ a[1] \in SUBSET Cell /\ b[1] \in SUBSET Cell /\ a[2] \in SUBSET Cell /\ b[2] \in SUBSET Cell
      /\ b[2] \subseteq a[2]
  BY DEF Calls, Smaller
<1>2. /\ Unvisited(a) \in Nat /\ Unvisited(b) \in Nat /\ Cardinality(Cell) \in Nat
      /\ Cardinality(a[1]) \in Nat /\ Cardinality(b[1]) \in Nat /\ Cardinality(a[1]) <= Cardinality(Cell)
  BY WeightType
<1>3. CASE b[2] # a[2]
  <2>1. Cell \ a[2] \in SUBSET (Cell \ b[2]) /\ Cell \ a[2] # Cell \ b[2]
    BY <1>1, <1>3
  <2>2. IsFiniteSet(Cell \ b[2])
    BY FS_Subset
  <2>3. Unvisited(a) < Unvisited(b)
    BY <2>1, <2>2, Fewer DEF Unvisited
  <2> QED
    BY <1>2, <2>3, Lexicographic DEF Weight
<1>4. CASE b[2] = a[2] /\ a[1] \subseteq b[1] /\ a[1] # b[1]
  <2>1. IsFiniteSet(b[1])
    BY <1>1, FS_Subset
  <2>2. Cardinality(a[1]) < Cardinality(b[1])
    BY <1>4, <2>1, Fewer
  <2>3. PICK n \in Nat : n = Unvisited(a) * (Cardinality(Cell) + 1)
    BY <1>2
  <2>4. Unvisited(a) = Unvisited(b)
    BY <1>4 DEF Unvisited
  <2> QED
    BY <1>2, <2>2, <2>3, <2>4 DEF Weight
<1> QED
  BY <1>3, <1>4 DEF Smaller

\* What holds of each call, if it holds of the smaller ones, holds of all.
LEMMA LoopInduction ==
  ASSUME IsFiniteSet(Cell), NEW S \in SUBSET Calls,
         \A b \in Calls : (\A a \in Calls : Smaller(a, b) => a \in S) => b \in S
  PROVE  S = Calls
<1> SUFFICES ASSUME Calls \ S # {}
             PROVE  FALSE
  OBVIOUS
<1> DEFINE W == {Weight(call) : call \in Calls \ S}
<1>1. W \in SUBSET Nat /\ W # {}
  BY WeightType
<1>2. PICK m \in W : \A n \in W : m <= n
  BY <1>1, NatMin
<1>3. PICK b \in Calls \ S : m = Weight(b)
  BY <1>2
<1>4. PICK a \in Calls : Smaller(a, b) /\ a \notin S
  BY <1>3
<1>5. Weight(a) < m /\ Weight(a) \in Nat /\ m \in Nat
  BY <1>3, <1>4, SmallerWeighsLess, WeightType
<1>6. m <= Weight(a)
  BY <1>2, <1>4
<1> QED
  BY <1>5, <1>6

\* The results of a call leave visited what was, and are of cells.
Grows(call, runs) == \A r \in runs : call[2] \subseteq r.visited /\ r.visited \subseteq Cell

\* The calls that a loop makes first: for the other names, and for the
\* dependents of one.
Skip(left, n, visited) == <<left \ {n}, visited>>

Enter(g, n, visited) == <<g.dependents[n], visited \cup {n}>>

LEMMA CallsShrink ==
  ASSUME NEW g, g.dependents \in Links, NEW left \in SUBSET Cell, NEW visited \in SUBSET Cell, NEW n \in left
  PROVE  /\ \A seen \in SUBSET Cell : visited \subseteq seen =>
              Skip(left, n, seen) \in Calls /\ Smaller(Skip(left, n, seen), <<left, visited>>)
         /\ n \notin visited => /\ Enter(g, n, visited) \in Calls
                                /\ Smaller(Enter(g, n, visited), <<left, visited>>)
  BY DEF Skip, Enter, Calls, Smaller, Links

\* A loop depends on nothing but the results of smaller calls.
LEMMA LoopSame ==
  ASSUME NEW g, g.dependents \in Links, NEW f, NEW h, NEW left \in SUBSET Cell, NEW visited \in SUBSET Cell,
         \A a \in Calls : Smaller(a, <<left, visited>>) => f[a] = h[a] /\ Grows(a, f[a])
  PROVE  /\ Loop(g, f, left, visited) = Loop(g, h, left, visited)
         /\ Grows(<<left, visited>>, Loop(g, f, left, visited))
<1> DEFINE Rest(l, n, call) ==
             {[rest EXCEPT !.changed = @ \o AddFirst(n, call.changed)] : rest \in l[Skip(left, n, call.visited)]}
           Next1(l, n) == IF n \in visited THEN l[Skip(left, n, visited)]
                          ELSE UNION {Rest(l, n, call) : call \in l[Enter(g, n, visited)]}
<1>1. \A l : Loop(g, l, left, visited) = IF left = {} THEN {[visited |-> visited, changed |-> <<>>]}
                                         ELSE UNION {Next1(l, n) : n \in left}
  BY DEF Loop, Skip, Enter
<1>2. ASSUME NEW n \in left PROVE Next1(f, n) = Next1(h, n) /\ Grows(<<left, visited>>, Next1(f, n))
  <2>1. CASE n \in visited
    <3>1. LET a == Skip(left, n, visited) IN f[a] = h[a] /\ Grows(a, f[a])
      BY CallsShrink
    <3> QED
      BY <2>1, <3>1 DEF Grows, Skip
  <2>2. CASE n \notin visited
    <3>1. LET a == Enter(g, n, visited) IN f[a] = h[a] /\ Grows(a, f[a])
      BY <2>2, CallsShrink
    <3>2. ASSUME NEW call \in f[Enter(g, n, visited)]
          PROVE  /\ Rest(f, n, call) = Rest(h, n, call)
                 /\ Grows(<<left, visited>>, Rest(f, n, call))
      <4>1. visited \subseteq call.visited /\ call.visited \in SUBSET Cell
        BY <3>1 DEF Grows, Enter
      <4>2. LET a == Skip(left, n, call.visited) IN f[a] = h[a] /\ Grows(a, f[a])
        BY <4>1, CallsShrink
      <4>3. ASSUME NEW r \in f[Skip(left, n, call.visited)]
            PROVE  LET x == [r EXCEPT !.changed = @ \o AddFirst(n, call.changed)]
                   IN visited \subseteq x.visited /\ x.visited \subseteq Cell
        BY <4>1, <4>2 DEF Grows, Skip
      <4> QED
        BY <4>2, <4>3 DEF Grows
    <3> HIDE DEF Rest
    <3>3. f[Enter(g, n, visited)] = h[Enter(g, n, visited)]
      BY <3>1
    <3>4. UNION {Rest(f, n, call) : call \in f[Enter(g, n, visited)]}
            = UNION {Rest(h, n, call) : call \in h[Enter(g, n, visited)]}
      BY <3>2, <3>3
    <3>5. Grows(<<left, visited>>, UNION {Rest(f, n, call) : call \in f[Enter(g, n, visited)]})
      BY <3>2 DEF Grows
    <3> QED
      BY <2>2, <3>4, <3>5
  <2> QED
    BY <2>1, <2>2
<1> HIDE DEF Next1
<1>3. Loop(g, f, left, visited) = Loop(g, h, left, visited)
  <2>1. UNION {Next1(f, n) : n \in left} = UNION {Next1(h, n) : n \in left}
    BY <1>2
  <2> QED
    BY <1>1, <2>1
<1>4. Grows(<<left, visited>>, Loop(g, f, left, visited))
  BY <1>1, <1>2 DEF Grows
<1> QED
  BY <1>3, <1>4

\* The loops return: there are results of all the calls.
LEMMA LoopReturns ==
  ASSUME IsFiniteSet(Cell), NEW g, g.dependents \in Links
  PROVE  \E f : /\ f = [at \in Calls |-> Loop(g, f, at[1], at[2])]
                /\ \A at \in Calls : Grows(at, f[at])
<1> DEFINE Solves(f, n) ==
             \A at \in Calls : Weight(at) < n => f[at] = Loop(g, f, at[1], at[2]) /\ Grows(at, f[at])
           S == {n \in Nat : \E f : Solves(f, n)}
<1>0. \A at \in Calls : at = <<at[1], at[2]>> /\ at[1] \in SUBSET Cell /\ at[2] \in SUBSET Cell
  BY DEF Calls
<1>1. 0 \in S
  <2>1. \A at \in Calls : ~(Weight(at) < 0)
    BY WeightType
  <2> QED
    BY <2>1
<1>2. ASSUME NEW n \in S PROVE n + 1 \in S
  <2>1. PICK f : Solves(f, n)
    OBVIOUS
  <2> DEFINE h == [at \in Calls |-> Loop(g, f, at[1], at[2])]
  <2>2. ASSUME NEW at \in Calls, Weight(at) < n + 1
        PROVE  h[at] = Loop(g, h, at[1], at[2]) /\ Grows(at, h[at])
    <3>1. ASSUME NEW a \in Calls, Smaller(a, <<at[1], at[2]>>) PROVE f[a] = h[a] /\ Grows(a, f[a])
      <4>1. Weight(a) < Weight(at)
        BY <1>0, <3>1, SmallerWeighsLess
      <4>2. Weight(a) < n
        BY <2>2, <4>1, WeightType
      <4> QED
        BY <2>1, <4>2
    <3> HIDE DEF h
    <3>2. /\ Loop(g, f, at[1], at[2]) = Loop(g, h, at[1], at[2])
          /\ Grows(<<at[1], at[2]>>, Loop(g, f, at[1], at[2]))
      BY <1>0, <3>1, LoopSame
    <3>3. h[at] = Loop(g, f, at[1], at[2])
      BY DEF h
    <3> QED
      BY <1>0, <3>2, <3>3
  <2> HIDE DEF h
  <2>3. Solves(h, n + 1)
    BY <2>2
  <2>4. n + 1 \in Nat
    OBVIOUS
  <2> HIDE DEF Solves
  <2> QED
    BY <2>3, <2>4
<1>3. S = Nat
  <2> HIDE DEF Solves
  <2>1. S \in SUBSET Nat
    OBVIOUS
  <2> HIDE DEF S
  <2> QED
    BY <1>1, <1>2, <2>1, NatSet
<1> DEFINE N == (Cardinality(Cell) + 1) * (Cardinality(Cell) + 1) + 1
<1>4. N \in Nat /\ \A at \in Calls : Weight(at) < N
  <2>1. Cardinality(Cell) \in Nat
    BY FS_CardinalityType
  <2>2. ASSUME NEW at \in Calls PROVE Weight(at) < N
    <3>1. /\ Unvisited(at) \in Nat /\ Cardinality(at[1]) \in Nat /\ Cardinality(at[1]) <= Cardinality(Cell)
      BY WeightType
    <3>2. Unvisited(at) <= Cardinality(Cell)
      <4>1. Cell \ at[2] \in SUBSET Cell
        OBVIOUS
      <4> QED
        BY <4>1, Fewer DEF Unvisited
    <3>3. Unvisited(at) < Cardinality(Cell) + 1
      BY <2>1, <3>1, <3>2
    <3>4. Weight(at) < (Cardinality(Cell) + 1) * (Cardinality(Cell) + 1) + 1
      BY <2>1, <3>1, <3>3, Lexicographic DEF Weight
    <3> QED
      BY <3>4
  <2> QED
    BY <2>1, <2>2
<1> HIDE DEF N
<1>5. PICK k : Solves(k, N)
  BY <1>3, <1>4
<1> DEFINE f == [at \in Calls |-> k[at]]
<1>6. ASSUME NEW at \in Calls
      PROVE  f[at] = Loop(g, f, at[1], at[2]) /\ Grows(at, f[at])
  <2>1. \A a \in Calls : k[a] = f[a] /\ k[a] = Loop(g, k, a[1], a[2]) /\ Grows(a, k[a])
    BY <1>4, <1>5
  <2> HIDE DEF f
  <2>2. Loop(g, k, at[1], at[2]) = Loop(g, f, at[1], at[2])
    BY <1>0, <2>1, LoopSame
  <2> QED
    BY <2>1, <2>2
<1>7. f = [at \in Calls |-> Loop(g, f, at[1], at[2])]
  <2> HIDE DEF f
  <2>1. DOMAIN f = Calls /\ f = [at \in Calls |-> f[at]]
    BY DEF f
  <2>2. [at \in Calls |-> f[at]] = [at \in Calls |-> Loop(g, f, at[1], at[2])]
    BY <1>6
  <2> QED
    BY <2>1, <2>2
<1> HIDE DEF f
<1> QED
  BY <1>6, <1>7

\* What Visit starts from, as any results of the calls.
LEMMA VisitResult ==
  ASSUME IsFiniteSet(Cell), NEW g, g.dependents \in Links, NEW c \in Cell
  PROVE  \E f : /\ \A at \in Calls : f[at] = Loop(g, f, at[1], at[2])
                /\ Visit(g, c) = {[r EXCEPT !.changed = AddFirst(c, @)] : r \in f[<<g.dependents[c], {c}>>]}
<1> DEFINE Is(f) == f = [at \in (SUBSET Cell) \X (SUBSET Cell) |-> Loop(g, f, at[1], at[2])]
           loops == CHOOSE f : Is(f)
<1>1. \E f : Is(f)
  BY LoopReturns DEF Calls
<1>2. Visit(g, c) = {[r EXCEPT !.changed = AddFirst(c, @)] : r \in loops[<<g.dependents[c], {c}>>]}
  BY DEF Visit
<1> HIDE DEF Is
<1>3. Is(loops)
  BY <1>1
<1> HIDE DEF loops
<1>4. \A at \in Calls : loops[at] = Loop(g, loops, at[1], at[2])
  BY <1>3 DEF Is, Calls
<1> QED
  BY <1>2, <1>4

-----------------------------------------------------------------------------
(* Lists in which no name comes twice, or ahead of one it depends on.      *)

Line(deps, s) ==
  /\ s \in Seq(Cell)
  /\ \A i, j \in 1..Len(s) : (s[i] = s[j] => i = j) /\ (s[j] \in deps[s[i]] => i < j)

LEMMA Joined ==
  ASSUME NEW s \in Seq(Cell), NEW t \in Seq(Cell)
  PROVE  /\ s \o t \in Seq(Cell) /\ Len(s \o t) = Len(s) + Len(t)
         /\ Len(s) \in Nat /\ Len(t) \in Nat
         /\ \A i \in 1..Len(s) + Len(t) :
              (s \o t)[i] = IF i <= Len(s) THEN s[i] ELSE t[i - Len(s)]
         /\ ToSet(s \o t) = ToSet(s) \cup ToSet(t)
<1>1. /\ s \o t \in Seq(Cell) /\ Len(s \o t) = Len(s) + Len(t)
      /\ \A i \in 1..Len(s) + Len(t) : (s \o t)[i] = IF i <= Len(s) THEN s[i] ELSE t[i - Len(s)]
  BY ConcatProperties
<1>2. /\ Len(s) \in Nat /\ Len(t) \in Nat /\ DOMAIN (s \o t) = 1..Len(s) + Len(t)
      /\ DOMAIN s = 1..Len(s) /\ DOMAIN t = 1..Len(t)
  BY <1>1, LenProperties
<1> DEFINE u == s \o t
<1>3. \A i \in 1..Len(s) : i \in 1..Len(s) + Len(t) /\ u[i] = s[i]
  BY <1>1, <1>2
<1>4. \A i \in 1..Len(t) : i + Len(s) \in 1..Len(s) + Len(t) /\ u[i + Len(s)] = t[i]
  BY <1>1, <1>2
<1>5. \A i \in 1..Len(s) + Len(t) : u[i] \in ToSet(s) \cup ToSet(t)
  <2> SUFFICES ASSUME NEW i \in 1..Len(s) + Len(t) PROVE u[i] \in ToSet(s) \cup ToSet(t)
    OBVIOUS
  <2>1. CASE i <= Len(s)
    <3>1. i \in DOMAIN s /\ u[i] = s[i]
      BY <1>1, <1>2, <2>1
    <3> QED
      BY <3>1 DEF ToSet
  <2>2. CASE ~(i <= Len(s))
    <3>1. i - Len(s) \in DOMAIN t /\ u[i] = t[i - Len(s)]
      BY <1>1, <1>2, <2>2
    <3> QED
      BY <3>1 DEF ToSet
  <2> QED
    BY <2>1, <2>2
<1> HIDE DEF u
<1>6. ToSet(u) = ToSet(s) \cup ToSet(t)
  <2>1. DOMAIN u = 1..Len(s) + Len(t)
    BY <1>2 DEF u
  <2>2. ToSet(u) \subseteq ToSet(s) \cup ToSet(t)
    BY <1>5, <2>1 DEF ToSet
  <2>3. ToSet(s) \subseteq ToSet(u)
    BY <1>2, <1>3, <2>1 DEF ToSet
  <2>4. ToSet(t) \subseteq ToSet(u)
    BY <1>2, <1>4, <2>1 DEF ToSet
  <2> QED
    BY <2>2, <2>3, <2>4
<1> QED
  BY <1>1, <1>2, <1>6 DEF u

LEMMA Alone ==
  ASSUME NEW x \in Cell
  PROVE  <<x>> \in Seq(Cell) /\ Len(<<x>>) = 1 /\ <<x>>[1] = x /\ ToSet(<<x>>) = {x}
  BY DEF ToSet

LEMMA Lined ==
  ASSUME NEW deps, NEW s, NEW t, Line(deps, s), Line(deps, t),
         ToSet(s) \cap ToSet(t) = {},
         \A x \in ToSet(s), y \in ToSet(t) : x \notin deps[y]
  PROVE  Line(deps, s \o t)
<1>1. s \in Seq(Cell) /\ t \in Seq(Cell)
  BY DEF Line
<1>2. /\ s \o t \in Seq(Cell) /\ Len(s \o t) = Len(s) + Len(t)
      /\ Len(s) \in Nat /\ Len(t) \in Nat
      /\ \A i \in 1..Len(s) + Len(t) :
           (s \o t)[i] = IF i <= Len(s) THEN s[i] ELSE t[i - Len(s)]
  BY <1>1, Joined
<1>3. /\ \A i \in 1..Len(s) : s[i] \in ToSet(s)
      /\ \A i \in 1..Len(t) : t[i] \in ToSet(t)
  BY <1>1, LenProperties DEF ToSet
<1> DEFINE u == s \o t
<1>4. /\ \A i, j \in 1..Len(s) : (s[i] = s[j] => i = j) /\ (s[j] \in deps[s[i]] => i < j)
      /\ \A i, j \in 1..Len(t) : (t[i] = t[j] => i = j) /\ (t[j] \in deps[t[i]] => i < j)
  BY DEF Line
<1>5. ASSUME NEW i \in 1..Len(u), NEW j \in 1..Len(u)
      PROVE  (u[i] = u[j] => i = j) /\ (u[j] \in deps[u[i]] => i < j)
  <2> HIDE DEF u
  <2>1. i \in 1..Len(s) + Len(t) /\ j \in 1..Len(s) + Len(t)
    BY <1>2 DEF u
  <2>2. CASE i <= Len(s) /\ j <= Len(s)
    <3>1. i \in 1..Len(s) /\ j \in 1..Len(s) /\ u[i] = s[i] /\ u[j] = s[j]
      BY <1>2, <2>1, <2>2 DEF u
    <3> QED
      BY <1>4, <3>1
  <2>3. CASE i <= Len(s) /\ ~(j <= Len(s))
    <3>1. /\ i \in 1..Len(s) /\ j - Len(s) \in 1..Len(t) /\ i < j
          /\ u[i] = s[i] /\ u[j] = t[j - Len(s)]
      BY <1>2, <2>1, <2>3 DEF u
    <3>2. s[i] # t[j - Len(s)]
      BY <1>3, <3>1
    <3> QED
      BY <3>1, <3>2
  <2>4. CASE ~(i <= Len(s)) /\ j <= Len(s)
    <3>1. /\ j \in 1..Len(s) /\ i - Len(s) \in 1..Len(t)
          /\ u[j] = s[j] /\ u[i] = t[i - Len(s)]
      BY <1>2, <2>1, <2>4 DEF u
    <3>2. s[j] # t[i - Len(s)] /\ s[j] \notin deps[t[i - Len(s)]]
      BY <1>3, <3>1
    <3> QED
      BY <3>1, <3>2
  <2>5. CASE ~(i <= Len(s)) /\ ~(j <= Len(s))
    <3>1. /\ i - Len(s) \in 1..Len(t) /\ j - Len(s) \in 1..Len(t)
          /\ u[i] = t[i - Len(s)] /\ u[j] = t[j - Len(s)]
      BY <1>2, <2>1, <2>5 DEF u
    <3>2. PICK k, l \in 1..Len(t) : k = i - Len(s) /\ l = j - Len(s)
      BY <3>1
    <3>3. (t[k] = t[l] => k = l) /\ (t[l] \in deps[t[k]] => k < l)
      BY <1>4
    <3>4. (k = l => i = j) /\ (k < l => i < j)
      BY <1>2, <2>1, <3>2
    <3> QED
      BY <3>1, <3>2, <3>3, <3>4
  <2> QED
    BY <2>2, <2>3, <2>4, <2>5
<1> QED
  BY <1>2, <1>5 DEF Line

-----------------------------------------------------------------------------
(* What a walk visits, and in which order.                                 *)

Closed(deps, S) == \A n \in S : deps[n] \subseteq S

\* No way leads from the name back to it: some closed set of names holds its
\* dependents and not it.
OpenAt(deps, c) == \E S \in SUBSET Cell : deps[c] \subseteq S /\ Closed(deps, S) /\ c \notin S

AllOpen(deps) == \A c \in Cell : OpenAt(deps, c)

Walks(deps, at) ==
  {r \in [visited : SUBSET Cell, changed : Seq(Cell)] :
     /\ at[1] \cup at[2] \subseteq r.visited
     /\ ToSet(r.changed) = r.visited \ at[2]
     /\ \A n \in r.visited \ at[2] : deps[n] \subseteq r.visited
     /\ \A S \in SUBSET Cell : at[1] \subseteq S /\ Closed(deps, S) => r.visited \subseteq S \cup at[2]
     /\ AllOpen(deps) => Line(deps, r.changed)}

\* A call and then the rest of the loop.
LEMMA Stepped ==
  ASSUME NEW deps \in Links, NEW left \in SUBSET Cell, NEW visited \in SUBSET Cell,
         NEW n \in left, n \notin visited,
         NEW call \in Walks(deps, <<deps[n], visited \cup {n}>>),
         NEW rest \in Walks(deps, <<left \ {n}, call.visited>>)
  PROVE  [rest EXCEPT !.changed = @ \o AddFirst(n, call.changed)] \in Walks(deps, <<left, visited>>)
<1>1. /\ call.visited \in SUBSET Cell /\ call.changed \in Seq(Cell)
      /\ deps[n] \cup visited \cup {n} \subseteq call.visited
      /\ ToSet(call.changed) = call.visited \ (visited \cup {n})
      /\ \A m \in call.visited \ (visited \cup {n}) : deps[m] \subseteq call.visited
      /\ \A S \in SUBSET Cell : deps[n] \subseteq S /\ Closed(deps, S)
                                  => call.visited \subseteq S \cup visited \cup {n}
      /\ AllOpen(deps) => Line(deps, call.changed)
  BY DEF Walks
<1>2. /\ rest.visited \in SUBSET Cell /\ rest.changed \in Seq(Cell)
      /\ rest = [visited |-> rest.visited, changed |-> rest.changed]
      /\ (left \ {n}) \cup call.visited \subseteq rest.visited
      /\ ToSet(rest.changed) = rest.visited \ call.visited
      /\ \A m \in rest.visited \ call.visited : deps[m] \subseteq rest.visited
      /\ \A S \in SUBSET Cell : left \ {n} \subseteq S /\ Closed(deps, S)
                                  => rest.visited \subseteq S \cup call.visited
      /\ AllOpen(deps) => Line(deps, rest.changed)
  BY DEF Walks
<1> DEFINE tail == <<n>> \o call.changed
           r    == [visited |-> rest.visited, changed |-> rest.changed \o tail]
<1>3. [rest EXCEPT !.changed = @ \o AddFirst(n, call.changed)] = r
  <2>1. rest \in [visited : SUBSET Cell, changed : Seq(Cell)]
    BY DEF Walks
  <2>2. \A t : [rest EXCEPT !.changed = t] = [visited |-> rest.visited, changed |-> t]
    BY <2>1
  <2>3. AddFirst(n, call.changed) = tail
    BY DEF AddFirst
  <2> HIDE DEF tail
  <2> QED
    BY <2>2, <2>3
<1>4. n \in Cell /\ <<n>> \in Seq(Cell) /\ Len(<<n>>) = 1 /\ <<n>>[1] = n /\ ToSet(<<n>>) = {n}
  BY Alone
<1>5. tail \in Seq(Cell) /\ ToSet(tail) = {n} \cup ToSet(call.changed)
  <2> DEFINE one == <<n>>
  <2>1. one \in Seq(Cell) /\ ToSet(one) = {n}
    BY <1>4
  <2> HIDE DEF one
  <2>2. one \o call.changed \in Seq(Cell) /\ ToSet(one \o call.changed) = ToSet(one) \cup ToSet(call.changed)
    BY <1>1, <2>1, Joined
  <2> QED
    BY <2>1, <2>2 DEF one
<1>6. r.changed \in Seq(Cell) /\ ToSet(r.changed) = ToSet(rest.changed) \cup ToSet(tail)
  <2> HIDE DEF tail
  <2> QED
    BY <1>2, <1>5, Joined
<1>7. r.visited = rest.visited /\ ToSet(r.changed) = r.visited \ visited
  BY <1>1, <1>2, <1>5, <1>6
<1>8. \A m \in r.visited \ visited : deps[m] \subseteq r.visited
  <2> SUFFICES ASSUME NEW m \in r.visited \ visited PROVE deps[m] \subseteq r.visited
    OBVIOUS
  <2>1. CASE m = n
    BY <1>1, <1>2, <2>1
  <2>2. CASE m \in call.visited \ (visited \cup {n})
    BY <1>1, <1>2, <2>2
  <2>3. CASE m \notin call.visited
    BY <1>2, <2>3
  <2> QED
    BY <2>1, <2>2, <2>3
<1>9. ASSUME NEW S \in SUBSET Cell, left \subseteq S, Closed(deps, S)
      PROVE  r.visited \subseteq S \cup visited
  <2>1. n \in S /\ deps[n] \subseteq S /\ left \ {n} \subseteq S
    BY <1>9 DEF Closed
  <2> QED
    BY <1>1, <1>2, <1>9, <2>1
<1>10. ASSUME AllOpen(deps)
       PROVE  Line(deps, r.changed)
  <2>1. PICK S \in SUBSET Cell : deps[n] \subseteq S /\ Closed(deps, S) /\ n \notin S
    BY <1>4, <1>10 DEF AllOpen, OpenAt
  <2>2. \A m \in call.visited \ (visited \cup {n}) : n \notin deps[m]
    BY <1>1, <2>1 DEF Closed
  <2>3. Line(deps, <<n>>)
    <3>1. n \notin deps[n]
      BY <2>1
    <3>2. \A i, j \in 1..1 : (<<n>>[i] = <<n>>[j] => i = j) /\ (<<n>>[j] \in deps[<<n>>[i]] => i < j)
      <4> SUFFICES ASSUME NEW i \in 1..1, NEW j \in 1..1
                   PROVE  i = j /\ <<n>>[j] \notin deps[<<n>>[i]]
        OBVIOUS
      <4>1. i = 1 /\ j = 1
        OBVIOUS
      <4> QED
        BY <1>4, <3>1, <4>1
    <3> QED
      BY <1>4, <3>2 DEF Line
  <2>4. Line(deps, tail)
    <3>1. ToSet(<<n>>) \cap ToSet(call.changed) = {}
      BY <1>1, <1>4
    <3>2. \A x \in ToSet(<<n>>), y \in ToSet(call.changed) : x \notin deps[y]
      BY <1>1, <1>4, <2>2
    <3> QED
      BY <1>1, <1>10, <2>3, <3>1, <3>2, Lined
  <2>5. ToSet(rest.changed) \cap ToSet(tail) = {}
    BY <1>1, <1>2, <1>5
  <2>6. \A x \in ToSet(rest.changed), y \in ToSet(tail) : x \notin deps[y]
    BY <1>1, <1>2, <1>5
  <2> HIDE DEF tail
  <2>7. Line(deps, rest.changed \o tail)
    BY <1>2, <1>10, <2>4, <2>5, <2>6, Lined
  <2> QED
    BY <2>7
<1> HIDE DEF tail
<1>11. r \in [visited : SUBSET Cell, changed : Seq(Cell)]
  BY <1>2, <1>6
<1>12. left \cup visited \subseteq r.visited
  BY <1>1, <1>2
<1> HIDE DEF r
<1>13. r \in Walks(deps, <<left, visited>>)
  BY <1>7, <1>8, <1>9, <1>10, <1>11, <1>12 DEF Walks
<1> QED
  BY <1>3, <1>13

LEMMA LoopsWalk ==
  ASSUME IsFiniteSet(Cell), NEW g, g.dependents \in Links,
         NEW f, \A at \in Calls : f[at] = Loop(g, f, at[1], at[2])
  PROVE  \A at \in Calls : f[at] # {} /\ f[at] \subseteq Walks(g.dependents, at)
<1> DEFINE deps == g.dependents
           S == {at \in Calls : f[at] # {} /\ f[at] \subseteq Walks(deps, at)}
<1>1. ASSUME NEW left \in SUBSET Cell, NEW visited \in SUBSET Cell,
             \A a \in Calls : Smaller(a, <<left, visited>>) => a \in S
      PROVE  Loop(g, f, left, visited) # {} /\ Loop(g, f, left, visited) \subseteq Walks(deps, <<left, visited>>)
  <2>1. CASE left = {}
    <3> DEFINE r == [visited |-> visited, changed |-> << >>]
    <3>1. Loop(g, f, left, visited) = {r}
      BY <2>1 DEF Loop
    <3>2. << >> \in Seq(Cell) /\ ToSet(<< >>) = {} /\ Line(deps, << >>)
      BY DEF ToSet, Line
    <3>3. r \in Walks(deps, <<left, visited>>)
      BY <2>1, <3>2 DEF Walks
    <3> QED
      BY <3>1, <3>3
  <2>2. CASE left # {}
    <3> DEFINE Rest(n, call) == {[rest EXCEPT !.changed = @ \o AddFirst(n, call.changed)] :
                                   rest \in f[<<left \ {n}, call.visited>>]}
               Turn(n) == IF n \in visited THEN f[<<left \ {n}, visited>>]
                          ELSE UNION {Rest(n, call) : call \in f[<<deps[n], visited \cup {n}>>]}
    <3>1. Loop(g, f, left, visited) = UNION {Turn(n) : n \in left}
      BY <2>2 DEF Loop
    <3>2. ASSUME NEW n \in left PROVE Turn(n) # {} /\ Turn(n) \subseteq Walks(deps, <<left, visited>>)
      <4>1. CASE n \in visited
        <5>1. <<left \ {n}, visited>> \in S
          BY <1>1, CallsShrink DEF Skip
        <5>2. Walks(deps, <<left \ {n}, visited>>) \subseteq Walks(deps, <<left, visited>>)
          BY <4>1 DEF Walks
        <5> QED
          BY <4>1, <5>1, <5>2
      <4>2. CASE n \notin visited
        <5>1. <<deps[n], visited \cup {n}>> \in S
          BY <1>1, <4>2, CallsShrink DEF Enter
        <5>2. ASSUME NEW call \in f[<<deps[n], visited \cup {n}>>]
              PROVE  Rest(n, call) # {} /\ Rest(n, call) \subseteq Walks(deps, <<left, visited>>)
          <6>1. call \in Walks(deps, <<deps[n], visited \cup {n}>>)
            BY <5>1
          <6>2. call.visited \in SUBSET Cell /\ visited \subseteq call.visited
            BY <6>1 DEF Walks
          <6>3. <<left \ {n}, call.visited>> \in S
            BY <1>1, <6>2, CallsShrink DEF Skip
          <6>4. \A rest \in f[<<left \ {n}, call.visited>>] :
                  [rest EXCEPT !.changed = @ \o AddFirst(n, call.changed)] \in Walks(deps, <<left, visited>>)
            BY <4>2, <6>1, <6>3, Stepped
          <6> QED
            BY <6>3, <6>4
        <5> HIDE DEF Rest
        <5>3. UNION {Rest(n, call) : call \in f[<<deps[n], visited \cup {n}>>]} # {}
          <6>1. PICK call : call \in f[<<deps[n], visited \cup {n}>>]
            BY <5>1
          <6>2. PICK r : r \in Rest(n, call)
            BY <5>2, <6>1
          <6> QED
            BY <6>1, <6>2
        <5>4. UNION {Rest(n, call) : call \in f[<<deps[n], visited \cup {n}>>]}
                \subseteq Walks(deps, <<left, visited>>)
          BY <5>2
        <5> QED
          BY <4>2, <5>3, <5>4
      <4> QED
        BY <4>1, <4>2
    <3> HIDE DEF Turn
    <3>3. UNION {Turn(n) : n \in left} # {}
      <4>1. PICK n : n \in left
        BY <2>2
      <4>2. PICK r : r \in Turn(n)
        BY <3>2, <4>1
      <4> QED
        BY <4>1, <4>2
    <3>4. UNION {Turn(n) : n \in left} \subseteq Walks(deps, <<left, visited>>)
      BY <3>2
    <3> QED
      BY <3>1, <3>3, <3>4
  <2> QED
    BY <2>1, <2>2
<1>2. ASSUME NEW b \in Calls, \A a \in Calls : Smaller(a, b) => a \in S
      PROVE  b \in S
  <2>1. b = <<b[1], b[2]>> /\ b[1] \in SUBSET Cell /\ b[2] \in SUBSET Cell
    BY DEF Calls
  <2>2. f[b] = Loop(g, f, b[1], b[2])
    OBVIOUS
  <2> HIDE DEF S
  <2>3. Loop(g, f, b[1], b[2]) # {} /\ Loop(g, f, b[1], b[2]) \subseteq Walks(deps, <<b[1], b[2]>>)
    BY <1>1, <1>2, <2>1
  <2>4. f[b] # {} /\ f[b] \subseteq Walks(deps, b)
    BY <2>1, <2>2, <2>3
  <2> QED
    BY <2>4 DEF S
<1>3. S = Calls
  <2>1. S \in SUBSET Calls
    OBVIOUS
  <2> HIDE DEF S
  <2> QED
    BY <1>2, <2>1, LoopInduction
<1> QED
  BY <1>3

\* A walk visits what it can reach, and lists it in the order of a calculation.
Walk(deps, c) ==
  {w \in [visited : SUBSET Cell, changed : Seq(Cell)] :
     /\ c \in w.visited /\ Closed(deps, w.visited)
     /\ ToSet(w.changed) = w.visited
     /\ \A S \in SUBSET Cell : deps[c] \subseteq S /\ Closed(deps, S) => w.visited \subseteq S \cup {c}
     /\ AllOpen(deps) => Line(deps, w.changed)}

LEMMA VisitWalks ==
  ASSUME IsFiniteSet(Cell), NEW g, g.dependents \in Links, NEW c \in Cell
  PROVE  Visit(g, c) # {} /\ Visit(g, c) \subseteq Walk(g.dependents, c)
<1>1. PICK f : /\ \A at \in Calls : f[at] = Loop(g, f, at[1], at[2])
               /\ Visit(g, c) = {[r EXCEPT !.changed = AddFirst(c, @)] : r \in f[<<g.dependents[c], {c}>>]}
  BY VisitResult
<1> DEFINE deps == g.dependents
           at   == <<deps[c], {c}>>
<1>2. at \in Calls
  BY DEF Calls, Links
<1>3. f[at] # {} /\ f[at] \subseteq Walks(deps, at)
  BY <1>1, <1>2, LoopsWalk
<1>4. ASSUME NEW r \in f[at]
      PROVE  [r EXCEPT !.changed = AddFirst(c, @)] \in Walk(deps, c)
  <2> DEFINE one == <<c>>
             w   == [visited |-> r.visited, changed |-> one \o r.changed]
  <2>1. r \in [visited : SUBSET Cell, changed : Seq(Cell)]
    BY <1>3 DEF Walks
  <2>2. [r EXCEPT !.changed = AddFirst(c, @)] = w
    <3>1. \A t : [r EXCEPT !.changed = t] = [visited |-> r.visited, changed |-> t]
      BY <2>1
    <3>2. AddFirst(c, r.changed) = one \o r.changed
      BY DEF AddFirst
    <3> HIDE DEF one
    <3> QED
      BY <3>1, <3>2
  <2>3. /\ deps[c] \cup {c} \subseteq r.visited
        /\ ToSet(r.changed) = r.visited \ {c}
        /\ \A n \in r.visited \ {c} : deps[n] \subseteq r.visited
        /\ \A S \in SUBSET Cell : deps[c] \subseteq S /\ Closed(deps, S) => r.visited \subseteq S \cup {c}
        /\ AllOpen(deps) => Line(deps, r.changed)
    BY <1>3 DEF Walks
  <2>4. one \in Seq(Cell) /\ ToSet(one) = {c} /\ Len(one) = 1 /\ one[1] = c
    BY Alone
  <2> HIDE DEF one
  <2>5. one \o r.changed \in Seq(Cell) /\ ToSet(one \o r.changed) = {c} \cup ToSet(r.changed)
    BY <2>1, <2>4, Joined
  <2>6. c \in r.visited /\ Closed(deps, r.visited)
    BY <2>3 DEF Closed
  <2>7. ASSUME AllOpen(deps) PROVE Line(deps, one \o r.changed)
    <3>1. PICK S \in SUBSET Cell : deps[c] \subseteq S /\ Closed(deps, S) /\ c \notin S
      BY <2>7 DEF AllOpen, OpenAt
    <3>2. \A x \in ToSet(one), y \in ToSet(r.changed) : x \notin deps[y]
      BY <2>3, <2>4, <3>1 DEF Closed
    <3>3. ToSet(one) \cap ToSet(r.changed) = {}
      BY <2>3, <2>4
    <3>4. Line(deps, one)
      <4> SUFFICES ASSUME NEW i \in 1..1, NEW j \in 1..1
                   PROVE  i = j /\ one[j] \notin deps[one[i]]
        BY <2>4 DEF Line
      <4> QED
        BY <2>4, <3>1
    <3> QED
      BY <2>3, <2>7, <3>2, <3>3, <3>4, Lined
  <2>8. w \in [visited : SUBSET Cell, changed : Seq(Cell)] /\ ToSet(w.changed) = w.visited
    BY <2>1, <2>3, <2>5
  <2> HIDE DEF deps
  <2>9. w \in Walk(deps, c)
    BY <2>3, <2>6, <2>7, <2>8 DEF Walk
  <2> QED
    BY <2>2, <2>9
<1> QED
  BY <1>1, <1>3, <1>4

\* Visit is a test for cycles through its name.
LEMMA CircularIs ==
  ASSUME IsFiniteSet(Cell), NEW g, g.dependents \in Links, NEW c \in Cell
  PROVE  Circular(g, c) <=> ~OpenAt(g.dependents, c)
<1> DEFINE deps == g.dependents
<1>1. ASSUME Circular(g, c), OpenAt(deps, c) PROVE FALSE
  <2>1. PICK S \in SUBSET Cell : deps[c] \subseteq S /\ Closed(deps, S) /\ c \notin S
    BY <1>1 DEF OpenAt
  <2>2. PICK w \in Visit(g, c) : \E n \in w.visited : c \in deps[n]
    BY <1>1 DEF Circular
  <2>3. w.visited \subseteq S \cup {c}
    BY <2>1, <2>2, VisitWalks DEF Walk
  <2> QED
    BY <2>1, <2>2, <2>3 DEF Closed
<1>2. ASSUME ~Circular(g, c) PROVE OpenAt(deps, c)
  <2>1. PICK w \in Visit(g, c) : w \in Walk(deps, c)
    BY VisitWalks
  <2>2. \A n \in w.visited : c \notin deps[n]
    BY <1>2 DEF Circular
  <2>3. c \in w.visited /\ Closed(deps, w.visited) /\ w.visited \in SUBSET Cell
    BY <2>1 DEF Walk
  <2>4. Closed(deps, w.visited \ {c}) /\ deps[c] \subseteq w.visited \ {c}
    BY <2>2, <2>3 DEF Closed
  <2> QED
    BY <2>3, <2>4 DEF OpenAt
<1> QED
  BY <1>1, <1>2

-----------------------------------------------------------------------------
(* Cycles among the dependees of a graph.                                  *)

\* The dependents that a graph has.
DependentsOf(e) == [n \in Cell |-> {m \in Cell : n \in e[m]}]

\* New dependees of one name close no cycle but through it.
LEMMA StaysOpen ==
  ASSUME NEW e \in Links, NEW s \in Cell, NEW new \in SUBSET Cell,
         AllOpen(DependentsOf(e)), OpenAt(DependentsOf([e EXCEPT ![s] = new]), s)
  PROVE  AllOpen(DependentsOf([e EXCEPT ![s] = new]))
<1> DEFINE deps == DependentsOf(e)
           next == DependentsOf([e EXCEPT ![s] = new])
<1>1. PICK C \in SUBSET Cell : next[s] \subseteq C /\ Closed(next, C) /\ s \notin C
  BY DEF OpenAt
<1>2. \A n \in Cell : next[n] \in SUBSET Cell /\ next[n] \subseteq deps[n] \cup {s}
  BY DEF DependentsOf, Links
<1> HIDE DEF deps, next
<1>3. ASSUME NEW d \in Cell PROVE OpenAt(next, d)
  <2>1. PICK S \in SUBSET Cell : deps[d] \subseteq S /\ Closed(deps, S) /\ d \notin S
    BY DEF AllOpen, OpenAt, deps
  <2>2. CASE d = s
    BY <1>1, <2>2 DEF OpenAt
  <2>3. CASE d \in C
    <3>1. next[d] \subseteq S \cap C /\ Closed(next, S \cap C)
      BY <1>1, <1>2, <2>1, <2>3 DEF Closed
    <3> QED
      BY <2>1, <3>1 DEF OpenAt
  <2>4. CASE d # s /\ d \notin C
    <3>1. next[d] \subseteq S \cup {s} \cup C /\ Closed(next, S \cup {s} \cup C)
      BY <1>1, <1>2, <2>1 DEF Closed
    <3>2. d \notin S \cup {s} \cup C /\ S \cup {s} \cup C \in SUBSET Cell
      BY <2>1, <2>4
    <3> QED
      BY <3>1, <3>2 DEF OpenAt
  <2> QED
    BY <2>2, <2>3, <2>4
<1> QED
  BY <1>3 DEF AllOpen, next

LEMMA OpenWithout ==
  ASSUME NEW e \in Links, NEW s \in Cell, AllOpen(DependentsOf(e))
  PROVE  AllOpen(DependentsOf([e EXCEPT ![s] = {}]))
<1> DEFINE deps == DependentsOf(e)
           next == DependentsOf([e EXCEPT ![s] = {}])
<1>1. \A n \in Cell : next[n] \subseteq deps[n]
  BY DEF DependentsOf, Links
<1>2. AllOpen(deps)
  OBVIOUS
<1> HIDE DEF deps, next
<1>3. \A S \in SUBSET Cell : Closed(deps, S) => Closed(next, S)
  BY <1>1 DEF Closed
<1>4. AllOpen(next)
  BY <1>1, <1>2, <1>3 DEF AllOpen, OpenAt
<1> QED
  BY <1>4 DEF next

\* A closed cycle of formulas is one of the graph that knows them, and the
\* other way round.
LEMMA ClosesIs ==
  ASSUME NEW e \in Links, NEW cells, NEW c \in Cell,
         \A n \in Cell : Names(cells, n) \in SUBSET Cell
  PROVE  /\ (\A n \in Cell : Names(cells, n) \subseteq e[n]) /\ OpenAt(DependentsOf(e), c) => ~Closes(cells, c)
         /\ (\A n \in Cell : Names(cells, n) = e[n]) /\ ~OpenAt(DependentsOf(e), c) => Closes(cells, c)
<1> DEFINE deps == DependentsOf(e)
<1>0. \A n, m \in Cell : m \in deps[n] <=> n \in e[m]
  BY DEF DependentsOf
<1>00. \A n \in Cell : deps[n] \in SUBSET Cell
  BY DEF DependentsOf
<1> HIDE DEF deps
<1>1. ASSUME \A n \in Cell : Names(cells, n) \subseteq e[n], OpenAt(deps, c)
      PROVE  ~Closes(cells, c)
  <2>1. PICK S \in SUBSET Cell : deps[c] \subseteq S /\ Closed(deps, S) /\ c \notin S
    BY <1>1 DEF OpenAt
  <2> DEFINE T == Cell \ (S \cup {c})
  <2>2. \A n \in T \cup {c} : \A v \in Names(cells, n) : v \in T
    <3> SUFFICES ASSUME NEW n \in T \cup {c}, NEW v \in Names(cells, n) PROVE v \in T
      OBVIOUS
    <3>1. v \in Cell /\ n \in deps[v] /\ n \notin S
      BY <1>0, <1>1, <2>1
    <3>2. v \notin S /\ v # c
      BY <2>1, <3>1 DEF Closed
    <3> QED
      BY <3>1, <3>2
  <2>3. T \in SUBSET Cell /\ c \notin T
    OBVIOUS
  <2> HIDE DEF T
  <2>4. Names(cells, c) \subseteq T /\ \A n \in T : Names(cells, n) \subseteq T
    BY <2>2
  <2> QED
    BY <2>3, <2>4 DEF Closes
<1>2. ASSUME \A n \in Cell : Names(cells, n) = e[n], ~Closes(cells, c)
      PROVE  OpenAt(deps, c)
  <2>1. PICK S \in SUBSET Cell : /\ Names(cells, c) \subseteq S /\ c \notin S
                                 /\ \A n \in S : Names(cells, n) \subseteq S
    BY <1>2 DEF Closes
  <2> DEFINE T == Cell \ (S \cup {c})
  <2>2. \A n \in T \cup {c} : \A m \in deps[n] : m \in T
    BY <1>0, <1>00, <1>2, <2>1
  <2>3. T \in SUBSET Cell /\ c \notin T
    OBVIOUS
  <2> HIDE DEF T
  <2>4. deps[c] \subseteq T /\ Closed(deps, T)
    BY <2>2 DEF Closed
  <2> QED
    BY <2>3, <2>4 DEF OpenAt
<1> QED
  BY <1>1, <1>2 DEF deps

-----------------------------------------------------------------------------
(* Sums of numbers are numbers.                                            *)

Sums(f, it) ==
  it = [s \in SUBSET DOMAIN f |->
          IF s = {} THEN 0 ELSE f[CHOOSE x \in s : TRUE] + it[s \ {CHOOSE x \in s : TRUE}]]

LEMMA SumIs ==
  ASSUME NEW f
  PROVE  SumFunction(f) = (CHOOSE it : Sums(f, it))[DOMAIN f]
  BY Zenon DEF SumFunction, SumFunctionOnSet, FoldFunctionOnSet, MapThenFoldSet, Sums

LEMMA SumReturns ==
  ASSUME NEW V, IsFiniteSet(V), NEW f \in [V -> Nat]
  PROVE  \E it : Sums(f, it)
<1> DEFINE Step(it, s) == IF s = {} THEN 0 ELSE f[CHOOSE x \in s : TRUE] + it[s \ {CHOOSE x \in s : TRUE}]
           Solves(it, n) == \A s \in SUBSET V : Cardinality(s) < n => it[s] = Step(it, s)
           S == {n \in Nat : \E it : Solves(it, n)}
<1>1. \A s \in SUBSET V : Cardinality(s) \in Nat /\ Cardinality(s) <= Cardinality(V) /\ Cardinality(V) \in Nat
  BY Fewer
<1>2. ASSUME NEW s \in SUBSET V, s # {}
      PROVE  LET x == CHOOSE x \in s : TRUE
             IN  x \in s /\ f[x] \in Nat /\ s \ {x} \in SUBSET V /\ Cardinality(s \ {x}) < Cardinality(s)
  <2>1. PICK x : x = CHOOSE y \in s : TRUE
    OBVIOUS
  <2>2. x \in s /\ f[x] \in Nat
    BY <1>2, <2>1
  <2>3. IsFiniteSet(s) /\ s \ {x} \in SUBSET s /\ s \ {x} # s
    BY <2>2, FS_Subset
  <2>4. Cardinality(s \ {x}) < Cardinality(s)
    BY <2>3, Fewer
  <2> QED
    BY <2>1, <2>2, <2>4
<1>3. 0 \in S
  <2>1. \A s \in SUBSET V : ~(Cardinality(s) < 0)
    BY <1>1
  <2> QED
    BY <2>1
<1>4. ASSUME NEW n \in S PROVE n + 1 \in S
  <2>1. PICK it : Solves(it, n)
    OBVIOUS
  <2> DEFINE new == [s \in SUBSET V |-> Step(it, s)]
  <2>2. ASSUME NEW s \in SUBSET V, Cardinality(s) < n + 1
        PROVE  new[s] = Step(new, s)
    <3>1. CASE s = {}
      BY <3>1
    <3>2. CASE s # {}
      <4>1. PICK x : x = CHOOSE y \in s : TRUE
        OBVIOUS
      <4>2. x \in s /\ f[x] \in Nat /\ s \ {x} \in SUBSET V /\ Cardinality(s \ {x}) < Cardinality(s)
        BY <1>2, <3>2, <4>1
      <4>3. Cardinality(s \ {x}) < n
        BY <1>1, <2>2, <4>2
      <4>4. it[s \ {x}] = Step(it, s \ {x})
        BY <2>1, <4>2, <4>3
      <4>5. new[s \ {x}] = it[s \ {x}]
        BY <4>2, <4>4
      <4>6. Step(it, s) = f[x] + it[s \ {x}] /\ Step(new, s) = f[x] + new[s \ {x}]
        BY <3>2, <4>1
      <4>7. new[s] = Step(it, s)
        OBVIOUS
      <4> HIDE DEF new, Step
      <4> QED
        BY <4>2, <4>4, <4>5, <4>6, <4>7
    <3> QED
      BY <3>1, <3>2
  <2> HIDE DEF new
  <2>3. Solves(new, n + 1)
    BY <2>2
  <2>4. n + 1 \in Nat
    OBVIOUS
  <2> HIDE DEF Solves
  <2> QED
    BY <2>3, <2>4
<1>5. Cardinality(V) + 1 \in S
  <2> HIDE DEF Solves
  <2>1. S \in SUBSET Nat
    OBVIOUS
  <2> HIDE DEF S
  <2>2. S = Nat
    BY <1>3, <1>4, <2>1, NatSet
  <2>3. Cardinality(V) \in Nat
    BY FS_CardinalityType
  <2> QED
    BY <2>2, <2>3
<1>6. PICK k : Solves(k, Cardinality(V) + 1)
  BY <1>5
<1>7. \A s \in SUBSET V : k[s] = Step(k, s)
  BY <1>1, <1>6
<1> DEFINE it == [s \in SUBSET V |-> k[s]]
<1>8. \A s \in SUBSET V : it[s] = Step(it, s)
  <2> SUFFICES ASSUME NEW s \in SUBSET V PROVE it[s] = Step(it, s)
    OBVIOUS
  <2>1. CASE s = {}
    BY <1>7, <2>1
  <2>2. CASE s # {}
    <3>1. PICK x : x = CHOOSE y \in s : TRUE
      OBVIOUS
    <3>2. s \ {x} \in SUBSET V
      OBVIOUS
    <3>3. Step(k, s) = f[x] + k[s \ {x}] /\ Step(it, s) = f[x] + it[s \ {x}]
      BY <2>2, <3>1
    <3>4. it[s] = k[s] /\ it[s \ {x}] = k[s \ {x}]
      BY <3>2
    <3> QED
      BY <1>7, <3>3, <3>4
  <2> QED
    BY <2>1, <2>2
<1>9. it = [s \in SUBSET V |-> Step(it, s)]
  <2> HIDE DEF Step
  <2>1. it = [s \in SUBSET V |-> it[s]]
    OBVIOUS
  <2> HIDE DEF it
  <2>2. [s \in SUBSET V |-> it[s]] = [s \in SUBSET V |-> Step(it, s)]
    BY <1>8
  <2> QED
    BY <2>1, <2>2
<1>11. DOMAIN f = V
  OBVIOUS
<1> HIDE DEF it
<1> QED
  BY <1>9, <1>11 DEF Sums

LEMMA SumType ==
  ASSUME NEW V, IsFiniteSet(V), NEW f \in [V -> Nat]
  PROVE  SumFunction(f) \in Nat
<1> DEFINE it == CHOOSE k : Sums(f, k)
           S  == {n \in Nat : \A s \in SUBSET V : Cardinality(s) < n => it[s] \in Nat}
<1>1. Sums(f, it)
  BY SumReturns
<1>2. DOMAIN f = V
  OBVIOUS
<1> HIDE DEF it
<1>3. \A s \in SUBSET V : it[s] = IF s = {} THEN 0
                                ELSE f[CHOOSE x \in s : TRUE] + it[s \ {CHOOSE x \in s : TRUE}]
  BY <1>1, <1>2 DEF Sums
<1>4. \A s \in SUBSET V : Cardinality(s) \in Nat /\ Cardinality(V) \in Nat /\ Cardinality(s) <= Cardinality(V)
  BY Fewer
<1>5. 0 \in S
  <2>1. \A s \in SUBSET V : ~(Cardinality(s) < 0)
    BY <1>4
  <2> QED
    BY <2>1
<1>6. ASSUME NEW n \in S PROVE n + 1 \in S
  <2>1. ASSUME NEW s \in SUBSET V, Cardinality(s) < n + 1, s # {} PROVE it[s] \in Nat
    <3>1. PICK x : x = CHOOSE y \in s : TRUE
      OBVIOUS
    <3>2. x \in s /\ f[x] \in Nat
      BY <2>1, <3>1
    <3>3. IsFiniteSet(s) /\ s \ {x} \in SUBSET s /\ s \ {x} # s /\ s \ {x} \in SUBSET V
      BY <3>2, FS_Subset
    <3>4. Cardinality(s \ {x}) < Cardinality(s)
      BY <3>3, Fewer
    <3>5. Cardinality(s \ {x}) < n
      BY <1>4, <2>1, <3>3, <3>4
    <3>6. it[s \ {x}] \in Nat
      BY <3>3, <3>5
    <3>7. it[s] = f[x] + it[s \ {x}]
      BY <1>3, <2>1, <3>1
    <3> QED
      BY <3>2, <3>6, <3>7
  <2>2. it[{}] \in Nat
    BY <1>3
  <2>3. n + 1 \in Nat
    OBVIOUS
  <2> QED
    BY <2>1, <2>2, <2>3
<1>7. S = Nat
  <2>1. S \in SUBSET Nat
    OBVIOUS
  <2> HIDE DEF S
  <2> QED
    BY <1>5, <1>6, <2>1, NatSet
<1>8. Cardinality(V) \in Nat /\ Cardinality(V) < Cardinality(V) + 1 /\ Cardinality(V) + 1 \in Nat
  BY <1>4
<1>9. it[V] \in Nat
  BY <1>7, <1>8
<1> QED
  BY <1>2, <1>9, SumIs DEF it

-----------------------------------------------------------------------------
(* Values, and what a recalculation does with them.                        *)

Sheets == UNION {[D -> [content : Text, value : Value]] : D \in SUBSET Cell}

LEMMA SheetIs ==
  ASSUME NEW s
  PROVE  s \in Sheets <=> /\ DOMAIN s \in SUBSET Cell
                          /\ s \in [DOMAIN s -> [content : Text, value : Value]]
  BY DEF Sheets

\* The sheets agree on the values of these cells.
Agree(s, t, V) ==
  \A v \in V : (v \in DOMAIN s <=> v \in DOMAIN t) /\ (v \in DOMAIN s => s[v].value = t[v].value)

LEMMA ComputedSame ==
  ASSUME NEW s, NEW t, NEW text, text \in Formula => Agree(s, t, Vars[text])
  PROVE  Computed(s, text) = Computed(t, text) /\ (Raises(s, text) <=> Raises(t, text))
<1>1. CASE text \notin Formula
  BY <1>1, TextAssumption DEF Computed, Raises
<1>2. CASE text \in Formula
  <2>1. \A v \in Vars[text] : IsDefined(s, v) <=> IsDefined(t, v)
    BY <1>2 DEF Agree, IsDefined
  <2>2. ASSUME \A v \in Vars[text] : IsDefined(s, v)
        PROVE  [v \in Vars[text] |-> s[v].value] = [v \in Vars[text] |-> t[v].value]
    BY <1>2, <2>2 DEF Agree, IsDefined
  <2>3. Computed(s, text) = Computed(t, text)
    <3>1. CASE \A v \in Vars[text] : IsDefined(s, v)
      <4>1. \A v \in Vars[text] : IsDefined(t, v)
        BY <2>1, <3>1
      <4>2. Computed(s, text) = SumFunction([v \in Vars[text] |-> s[v].value])
        BY <1>2, <3>1 DEF Computed
      <4>3. Computed(t, text) = SumFunction([v \in Vars[text] |-> t[v].value])
        BY <1>2, <4>1 DEF Computed
      <4> QED
        BY <2>2, <3>1, <4>2, <4>3
    <3>2. CASE ~(\A v \in Vars[text] : IsDefined(s, v))
      BY <1>2, <2>1, <3>2 DEF Computed
    <3> QED
      BY <3>1, <3>2
  <2>4. Raises(s, text) <=> Raises(t, text)
    BY <2>1 DEF Raises
  <2> QED
    BY <2>3, <2>4
<1> QED
  BY <1>1, <1>2

LEMMA ComputedType ==
  ASSUME IsFiniteSet(Cell), NEW s \in Sheets, NEW text \in Text
  PROVE  Computed(s, text) \in Value \ {Null}
<1>1. CASE text \notin Formula
  BY <1>1, TextAssumption DEF Computed, Text, Value
<1>2. CASE text \in Formula /\ \A v \in Vars[text] : IsDefined(s, v)
  <2> DEFINE V == Vars[text]
             f == [v \in V |-> s[v].value]
  <2>1. \A v \in V : s[v].value \in Nat
    BY <1>2 DEF IsDefined, Sheets, Value
  <2>2. f \in [V -> Nat]
    BY <2>1
  <2>3. IsFiniteSet(V)
    BY <1>2, TextAssumption, FS_Subset
  <2>4. Computed(s, text) = SumFunction(f)
    BY <1>2 DEF Computed
  <2> HIDE DEF f, V
  <2>5. SumFunction(f) \in Nat
    BY <2>2, <2>3, SumType
  <2> QED
    BY <2>4, <2>5, TextAssumption DEF Value
<1>3. CASE text \in Formula /\ ~(\A v \in Vars[text] : IsDefined(s, v))
  <2>1. Computed(s, text) = Error
    BY <1>3 DEF Computed
  <2> QED
    BY <2>1, TextAssumption DEF Value
<1> QED
  BY <1>1, <1>2, <1>3

Runs == [sheet : Sheets, raised : BOOLEAN]

LEMMA RecalculateIs ==
  ASSUME IsFiniteSet(Cell), NEW run \in Runs, NEW c \in DOMAIN run.sheet
  PROVE  LET next == Recalculate(run, c)
         IN /\ next \in Runs /\ DOMAIN next.sheet = DOMAIN run.sheet
            /\ \A d \in DOMAIN run.sheet : next.sheet[d].content = run.sheet[d].content
            /\ \A d \in DOMAIN run.sheet \ {c} : next.sheet[d] = run.sheet[d]
            /\ IF run.raised \/ Raises(run.sheet, run.sheet[c].content)
               THEN next.raised /\ next.sheet = run.sheet
               ELSE ~next.raised /\ next.sheet[c].value = Computed(run.sheet, run.sheet[c].content)
<1> DEFINE s == run.sheet
           x == Computed(s, s[c].content)
           t == [s EXCEPT ![c].value = x]
<1>1. s \in Sheets /\ run = [sheet |-> s, raised |-> run.raised] /\ run.raised \in BOOLEAN
  BY DEF Runs
<1>2. DOMAIN s \in SUBSET Cell /\ s \in [DOMAIN s -> [content : Text, value : Value]]
  BY <1>1, SheetIs
<1>3. x \in Value
  BY <1>1, <1>2, ComputedType
<1>4. CASE run.raised \/ Raises(s, s[c].content)
  <2>1. Recalculate(run, c) = [sheet |-> s, raised |-> TRUE]
    BY <1>1, <1>4 DEF Recalculate
  <2> QED
    BY <1>1, <1>4, <2>1 DEF Runs
<1>5. CASE ~(run.raised \/ Raises(s, s[c].content))
  <2>1. Recalculate(run, c) = [run EXCEPT !.sheet[c].value = x]
    BY <1>5 DEF Recalculate
  <2> HIDE DEF x
  <2>2. [run EXCEPT !.sheet[c].value = x] = [sheet |-> t, raised |-> run.raised]
    BY <1>1
  <2>3. /\ DOMAIN t = DOMAIN s /\ t \in [DOMAIN s -> [content : Text, value : Value]]
        /\ t[c].value = x /\ t[c].content = s[c].content
        /\ \A d \in DOMAIN s \ {c} : t[d] = s[d]
    BY <1>2, <1>3
  <2> HIDE DEF t
  <2>4. t \in Sheets
    BY <1>2, <2>3, SheetIs
  <2> QED
    BY <1>1, <1>5, <2>1, <2>2, <2>3, <2>4 DEF Runs, x
<1> QED
  BY <1>4, <1>5

LEMMA RecalcRun ==
  ASSUME NEW s, NEW cells \in Seq(Cell)
  PROVE  \E run : /\ RecalcHelper(s, cells) = run[Len(cells)]
                  /\ run[0] = [sheet |-> s, raised |-> FALSE]
                  /\ \A i \in 1..Len(cells) : run[i] = Recalculate(run[i - 1], cells[i])
<1> DEFINE N == Len(cells)
           Step(run, i) == IF i = 0 THEN [sheet |-> s, raised |-> FALSE] ELSE Recalculate(run[i - 1], cells[i])
           Solves(run, n) == \A i \in 0..N : i < n => run[i] = Step(run, i)
           S == {n \in Nat : \E run : Solves(run, n)}
<1>0. N \in Nat
  BY LenProperties
<1> HIDE DEF N
<1>1. 0 \in S
  BY <1>0
<1>2. ASSUME NEW n \in S PROVE n + 1 \in S
  <2>1. PICK run : Solves(run, n)
    OBVIOUS
  <2> DEFINE new == [i \in 0..N |-> Step(run, i)]
  <2>2. ASSUME NEW i \in 0..N, i < n + 1 PROVE new[i] = Step(new, i)
    <3>1. CASE i = 0
      BY <3>1
    <3>2. CASE i # 0
      <4>1. i - 1 \in 0..N /\ i - 1 < n
        BY <1>0, <2>2, <3>2
      <4>2. run[i - 1] = new[i - 1]
        BY <2>1, <4>1
      <4>3. new[i] = Recalculate(run[i - 1], cells[i])
        BY <3>2
      <4> HIDE DEF new
      <4> QED
        BY <3>2, <4>2, <4>3
    <3> QED
      BY <3>1, <3>2
  <2> HIDE DEF new, Step
  <2>3. Solves(new, n + 1)
    BY <2>2
  <2>4. n + 1 \in Nat
    OBVIOUS
  <2> HIDE DEF Solves
  <2> QED
    BY <2>3, <2>4
<1>3. S = Nat
  <2> HIDE DEF Solves
  <2>1. S \in SUBSET Nat
    OBVIOUS
  <2> HIDE DEF S
  <2> QED
    BY <1>1, <1>2, <2>1, NatSet
<1>4. N + 1 \in S
  <2> HIDE DEF S
  <2> QED
    BY <1>0, <1>3
<1>5. PICK k : Solves(k, N + 1)
  BY <1>4
<1>6. \A i \in 0..N : k[i] = Step(k, i)
  <2> HIDE DEF Step
  <2>1. \A i \in 0..N : i < N + 1
    BY <1>0
  <2> QED
    BY <1>5, <2>1
<1> DEFINE run == [i \in 0..N |-> k[i]]
           Is(r) == r = [i \in 0..N |-> Step(r, i)]
<1>7. \A i \in 0..N : run[i] = Step(run, i)
  <2> SUFFICES ASSUME NEW i \in 0..N PROVE run[i] = Step(run, i)
    OBVIOUS
  <2>1. CASE i = 0
    BY <1>6, <2>1
  <2>2. CASE i # 0
    <3>1. i - 1 \in 0..N
      BY <1>0, <2>2
    <3>2. run[i - 1] = k[i - 1] /\ run[i] = k[i]
      BY <3>1
    <3> HIDE DEF run
    <3> QED
      BY <1>6, <2>2, <3>2
  <2> QED
    BY <2>1, <2>2
<1>8. Is(run)
  <2> HIDE DEF Step
  <2>1. run = [i \in 0..N |-> run[i]]
    OBVIOUS
  <2> HIDE DEF run
  <2>2. [i \in 0..N |-> run[i]] = [i \in 0..N |-> Step(run, i)]
    BY <1>7
  <2> QED
    BY <2>1, <2>2
<1> DEFINE it == CHOOSE r : Is(r)
<1>9. RecalcHelper(s, cells) = it[N]
  BY Zenon DEF RecalcHelper, N
<1> HIDE DEF Is, run
<1>10. Is(it)
  BY <1>8
<1> HIDE DEF it
<1>11. it = [i \in 0..N |-> Step(it, i)]
  BY <1>10 DEF Is
<1>12. \A i \in 0..N : it[i] = Step(it, i)
  <2> HIDE DEF Step
  <2> QED
    BY <1>11
<1>13. it[0] = [sheet |-> s, raised |-> FALSE]
  <2>1. 0 \in 0..N
    BY <1>0
  <2>2. it[0] = Step(it, 0)
    BY <1>12, <2>1
  <2> QED
    BY <2>2
<1>14. \A i \in 1..N : it[i] = Recalculate(it[i - 1], cells[i])
  <2> SUFFICES ASSUME NEW i \in 1..N PROVE it[i] = Recalculate(it[i - 1], cells[i])
    OBVIOUS
  <2>1. i \in 0..N /\ i # 0
    BY <1>0
  <2> QED
    BY <1>12, <2>1
<1> QED
  BY <1>9, <1>13, <1>14 DEF N

\* The value of the cell is that of its content.
IsCurrent(t, c) == t[c].value = Computed(t, t[c].content) /\ ~Raises(t, t[c].content)

\* The same cells with the same contents.
SameContents(s, t) == DOMAIN t = DOMAIN s /\ \A d \in DOMAIN s : t[d].content = s[d].content

\* A list in the order of a calculation makes every cell of it current, unless
\* an evaluation throws.
LEMMA Recalculates ==
  ASSUME IsFiniteSet(Cell), NEW s \in Sheets, NEW cells, NEW deps, Line(deps, cells),
         ToSet(cells) \subseteq DOMAIN s,
         \A c \in ToSet(cells) : s[c].content \in Formula => \A v \in Vars[s[c].content] : c \in deps[v]
  PROVE  LET r == RecalcHelper(s, cells)
         IN /\ r \in Runs /\ SameContents(s, r.sheet)
            /\ \A d \in DOMAIN s \ ToSet(cells) : r.sheet[d] = s[d]
            /\ r.raised => \E c \in ToSet(cells) : s[c].content \in Misnamed
            /\ ~r.raised => \A c \in ToSet(cells) : IsCurrent(r.sheet, c)
<1> DEFINE N == Len(cells)
<1>0. /\ cells \in Seq(Cell)
      /\ \A i, j \in 1..N : (cells[i] = cells[j] => i = j) /\ (cells[j] \in deps[cells[i]] => i < j)
  BY DEF Line
<1>1. N \in Nat /\ ToSet(cells) = {cells[i] : i \in 1..N}
  BY <1>0, LenProperties DEF ToSet
<1>2. PICK run : /\ RecalcHelper(s, cells) = run[N]
                 /\ run[0] = [sheet |-> s, raised |-> FALSE]
                 /\ \A i \in 1..N : run[i] = Recalculate(run[i - 1], cells[i])
  BY <1>0, RecalcRun
<1> HIDE DEF N
<1> DEFINE Typed(n) == run[n] \in Runs /\ SameContents(s, run[n].sheet)
           Rest(n) == \A d \in DOMAIN s : (\A j \in 1..n : cells[j] # d) => run[n].sheet[d] = s[d]
           Raised(n) == run[n].raised => \E j \in 1..n : s[cells[j]].content \in Misnamed
           Done(n) == ~run[n].raised => \A j \in 1..n : IsCurrent(run[n].sheet, cells[j])
           Good(n) == Typed(n) /\ Rest(n) /\ Raised(n) /\ Done(n)
           S == {n \in Nat : n <= N => Good(n)}
<1>3. 0 \in S
  <2>1. run[0] \in Runs /\ run[0].sheet = s /\ ~run[0].raised
    BY <1>2 DEF Runs
  <2>2. \A j \in 1..0 : FALSE
    OBVIOUS
  <2>3. Typed(0) /\ Rest(0) /\ Raised(0) /\ Done(0)
    BY <2>1, <2>2 DEF SameContents
  <2> QED
    BY <2>3
<1>4. ASSUME NEW n \in Nat, n + 1 <= N, Good(n) PROVE Good(n + 1)
  <2> DEFINE m == n + 1
             c == cells[m]
             old == run[n]
             t == old.sheet
             u == run[m].sheet
  <2>1. m \in 1..N /\ m - 1 = n /\ \A j \in 1..m : j \in 1..N /\ (j = m \/ (j \in 1..n /\ j < m))
    BY <1>1, <1>4
  <2>2. c \in ToSet(cells) /\ c \in DOMAIN s /\ c \in DOMAIN t
    BY <1>1, <1>4, <2>1 DEF SameContents
  <2>3. run[m] = Recalculate(old, c)
    BY <1>2, <2>1
  <2>4. old \in Runs /\ t \in Sheets
    BY <1>4 DEF Runs
  <2> HIDE DEF c, m
  <2>5. /\ run[m] \in Runs /\ DOMAIN u = DOMAIN t
        /\ \A d \in DOMAIN t : u[d].content = t[d].content
        /\ \A d \in DOMAIN t \ {c} : u[d] = t[d]
        /\ IF old.raised \/ Raises(t, t[c].content)
           THEN run[m].raised /\ u = t
           ELSE ~run[m].raised /\ u[c].value = Computed(t, t[c].content)
    BY <2>2, <2>3, <2>4, RecalculateIs
  <2>6. /\ DOMAIN t = DOMAIN s /\ \A d \in DOMAIN s : t[d].content = s[d].content
    BY <1>4 DEF SameContents
  <2> HIDE DEF t, u, old
  <2>7. run[m] \in Runs /\ SameContents(s, u)
    BY <2>5, <2>6 DEF SameContents
  <2>8. ASSUME NEW d \in DOMAIN s, \A j \in 1..m : cells[j] # d PROVE u[d] = s[d]
    <3>1. d # c /\ \A j \in 1..n : cells[j] # d
      BY <1>4, <2>8 DEF c, m
    <3> QED
      BY <1>4, <2>5, <2>6, <3>1 DEF t, old
  <2>9. ASSUME run[m].raised PROVE \E j \in 1..m : s[cells[j]].content \in Misnamed
    <3>1. CASE old.raised
      <4>1. PICK j \in 1..n : s[cells[j]].content \in Misnamed
        BY <1>4, <3>1 DEF old
      <4>2. j \in 1..m
        BY <1>4, <4>1 DEF m
      <4> QED
        BY <4>1, <4>2
    <3>2. CASE Raises(t, t[c].content)
      <4>1. s[c].content \in Misnamed /\ m \in 1..m
        BY <1>4, <2>2, <2>6, <3>2 DEF Raises, m
      <4> QED
        BY <4>1 DEF c
    <3> QED
      BY <2>5, <2>9, <3>1, <3>2
  <2>10. ASSUME ~run[m].raised, NEW j \in 1..m PROVE IsCurrent(u, cells[j])
    <3> DEFINE x == cells[j]
               text == s[x].content
    <3>1. ~old.raised /\ ~Raises(t, t[c].content) /\ u[c].value = Computed(t, t[c].content)
      BY <2>5, <2>10
    <3>2. j \in 1..N /\ x \in ToSet(cells) /\ x \in DOMAIN s
      BY <1>1, <2>1
    <3>3. ASSUME text \in Formula PROVE Agree(t, u, Vars[text])
      <4>1. c \notin Vars[text]
        <5>1. ASSUME c \in Vars[text] PROVE FALSE
          <6>1. x \in deps[c]
            BY <3>2, <3>3, <5>1
          <6>2. m < j
            BY <1>0, <2>1, <3>2, <6>1 DEF c
          <6> QED
            BY <2>1, <6>2 DEF m
        <5> QED
          BY <5>1
      <4> QED
        BY <2>5, <4>1 DEF Agree
    <3>4. Computed(t, text) = Computed(u, text) /\ (Raises(t, text) <=> Raises(u, text))
      BY <3>3, ComputedSame
    <3>5. t[x].content = text /\ u[x].content = text
      BY <2>5, <2>6, <3>2
    <3>6. CASE j = m
      <4>1. x = c
        BY <3>6 DEF c
      <4> QED
        BY <3>1, <3>4, <3>5, <4>1 DEF IsCurrent
    <3>7. CASE j \in 1..n
      <4>1. x # c
        <5>1. j # m
          BY <3>7 DEF m
        <5> QED
          BY <1>0, <2>1, <3>2, <5>1 DEF c
      <4>2. IsCurrent(t, x)
        BY <1>4, <3>1, <3>7 DEF t, old
      <4>3. u[x] = t[x]
        BY <2>5, <2>6, <3>2, <4>1
      <4> QED
        BY <3>4, <3>5, <4>2, <4>3 DEF IsCurrent
    <3> QED
      BY <2>1, <3>6, <3>7
  <2> QED
    BY <2>7, <2>8, <2>9, <2>10 DEF m, u
<1>5. S = Nat
  <2>1. ASSUME NEW n \in S PROVE n + 1 \in S
    <3> HIDE DEF Good
    <3>1. n + 1 \in Nat /\ (n + 1 <= N => n <= N)
      BY <1>1
    <3> QED
      BY <1>4, <3>1
  <2>2. S \in SUBSET Nat
    OBVIOUS
  <2> HIDE DEF S
  <2> QED
    BY <1>3, <2>1, <2>2, NatSet
<1>6. Good(N)
  <2> HIDE DEF Good
  <2> QED
    BY <1>1, <1>5
<1>7. \A d \in DOMAIN s \ ToSet(cells) : run[N].sheet[d] = s[d]
  BY <1>1, <1>6
<1>8. run[N].raised => \E c \in ToSet(cells) : s[c].content \in Misnamed
  BY <1>1, <1>6
<1>9. ~run[N].raised => \A c \in ToSet(cells) : IsCurrent(run[N].sheet, c)
  BY <1>1, <1>6
<1> QED
  BY <1>2, <1>6, <1>7, <1>8, <1>9

\* Cells that are current stay as they are.
LEMMA RecalculatesNothing ==
  ASSUME IsFiniteSet(Cell), NEW s \in Sheets, NEW cells \in Seq(Cell),
         ToSet(cells) \subseteq DOMAIN s, \A c \in ToSet(cells) : IsCurrent(s, c)
  PROVE  RecalcHelper(s, cells) = [sheet |-> s, raised |-> FALSE]
<1> DEFINE N == Len(cells)
           same == [sheet |-> s, raised |-> FALSE]
<1>1. N \in Nat /\ ToSet(cells) = {cells[i] : i \in 1..N}
  BY LenProperties DEF ToSet
<1>2. PICK run : /\ RecalcHelper(s, cells) = run[N]
                 /\ run[0] = same
                 /\ \A i \in 1..N : run[i] = Recalculate(run[i - 1], cells[i])
  BY RecalcRun
<1> HIDE DEF N
<1> DEFINE S == {n \in Nat : n <= N => run[n] = same}
<1>3. ASSUME NEW c \in ToSet(cells) PROVE Recalculate(same, c) = same
  <2>1. c \in DOMAIN s /\ s \in [DOMAIN s -> [content : Text, value : Value]]
    BY SheetIs
  <2>2. s[c].value = Computed(s, s[c].content) /\ ~Raises(s, s[c].content)
    BY DEF IsCurrent
  <2> DEFINE x == Computed(s, s[c].content)
  <2>3. Recalculate(same, c) = [same EXCEPT !.sheet[c].value = x]
    BY <2>2 DEF Recalculate
  <2>4. s[c].value = x
    BY <2>2
  <2> HIDE DEF x
  <2>5. [s EXCEPT ![c].value = x] = s
    BY <2>1, <2>4
  <2>6. PICK r : r = same
    OBVIOUS
  <2>7. r \in Runs /\ r = [sheet |-> s, raised |-> FALSE] /\ r.sheet = s /\ r.raised = FALSE
    BY <2>6 DEF Runs
  <2>8. [r EXCEPT !.sheet[c].value = x]
          = [sheet |-> [r.sheet EXCEPT ![c].value = x], raised |-> r.raised]
    <3>1. r = [sheet |-> r.sheet, raised |-> r.raised]
      BY <2>7
    <3> QED
      BY <3>1
  <2> QED
    BY <2>3, <2>5, <2>6, <2>7, <2>8
<1>4. 0 \in S
  BY <1>2
<1>5. ASSUME NEW n \in S PROVE n + 1 \in S
  <2>1. CASE n + 1 <= N
    <3>1. n <= N /\ n + 1 \in 1..N /\ (n + 1) - 1 = n
      BY <1>1, <2>1
    <3>2. run[n + 1] = Recalculate(same, cells[n + 1])
      BY <1>2, <3>1
    <3>3. cells[n + 1] \in ToSet(cells)
      BY <1>1, <3>1
    <3> HIDE DEF same
    <3> QED
      BY <1>3, <3>2, <3>3
  <2> QED
    BY <2>1
<1>6. S = Nat
  <2>1. S \in SUBSET Nat
    OBVIOUS
  <2> HIDE DEF S
  <2> QED
    BY <1>4, <1>5, <2>1, NatSet
<1> HIDE DEF same
<1>7. run[N] = same
  BY <1>1, <1>6
<1> QED
  BY <1>2, <1>7 DEF same

-----------------------------------------------------------------------------
(* A sheet and the dependees that fit it.                                  *)

Mentions(text) == IF text \in Formula THEN Vars[text] ELSE {}

BookOf(s, e) == [sheet |-> s, graph |-> GraphOf(e)]

\* The graph is open and has the names of every formula, each name with
\* dependees is a key of the dictionary, and no formula in it is malformed.
Fits(s, e) ==
  /\ s \in Sheets /\ e \in Links
  /\ AllOpen(DependentsOf(e))
  /\ \A c \in Cell : (~Emptied(s, c) => e[c] = Names(s, c)) /\ (e[c] # {} => c \in DOMAIN s)
  /\ \A c \in DOMAIN s : s[c].content \notin Malformed

LEMMA NamesAre ==
  ASSUME NEW s \in Sheets, NEW c \in Cell
  PROVE  /\ Names(s, c) = IF c \in DOMAIN s THEN Mentions(s[c].content) ELSE {}
         /\ Names(s, c) \in SUBSET Cell
         /\ Emptied(s, c) => Names(s, c) = {}
<1>1. \A text \in Formula : Vars[text] \in SUBSET Cell
  BY TextAssumption
<1>2. Empty \notin Formula
  BY TextAssumption
<1> QED
  BY <1>1, <1>2 DEF Names, GetCellContents, Mentions, Emptied

LEMMA OpenIsAcyclic ==
  ASSUME NEW e \in Links, NEW c \in Cell, OpenAt(DependentsOf(e), c)
  PROVE  c \notin e[c]
<1>1. c \in e[c] => c \in DependentsOf(e)[c]
  BY DEF DependentsOf
<1> QED
  BY <1>1 DEF OpenAt

LEMMA FitsKept ==
  ASSUME NEW s, NEW e, Fits(s, e), NEW t \in Sheets, SameContents(s, t)
  PROVE  Fits(t, e)
<1>1. s \in Sheets /\ DOMAIN s \in SUBSET Cell
  BY SheetIs DEF Fits
<1>2. \A c \in Cell : Names(t, c) = Names(s, c) /\ (Emptied(t, c) <=> Emptied(s, c))
  BY <1>1, NamesAre DEF SameContents, Emptied
<1> QED
  BY <1>1, <1>2 DEF Fits, SameContents

\* A cell takes a text.
LEMMA PutIs ==
  ASSUME NEW s \in Sheets, NEW c \in Cell, NEW text \in Text
  PROVE  /\ SetCellHelper(s, c, text) \in Sheets
         /\ DOMAIN SetCellHelper(s, c, text) = DOMAIN s \cup {c}
         /\ SetCellHelper(s, c, text)[c].content = text
         /\ SetCellHelper(s, c, text)[c].value = IF c \in DOMAIN s THEN s[c].value ELSE Null
         /\ \A d \in DOMAIN s \ {c} : SetCellHelper(s, c, text)[d] = s[d]
<1> DEFINE t == SetCellHelper(s, c, text)
<1>1. DOMAIN s \in SUBSET Cell /\ s \in [DOMAIN s -> [content : Text, value : Value]]
  BY SheetIs
<1>2. Null \in Value
  BY DEF Value
<1>3. /\ DOMAIN t = DOMAIN s \cup {c}
      /\ t[c] = [content |-> text, value |-> IF c \in DOMAIN s THEN s[c].value ELSE Null]
      /\ \A d \in DOMAIN s \ {c} : t[d] = s[d]
  BY DEF SetCellHelper
<1>4. t \in [DOMAIN s \cup {c} -> [content : Text, value : Value]]
  <2>1. \A d \in DOMAIN s \cup {c} : t[d] \in [content : Text, value : Value]
    BY <1>1, <1>2, <1>3
  <2>2. t = [d \in DOMAIN s \cup {c} |-> t[d]]
    BY DEF SetCellHelper
  <2> HIDE DEF t
  <2> QED
    BY <2>1, <2>2
<1> HIDE DEF t
<1>5. t \in Sheets
  BY <1>1, <1>3, <1>4, SheetIs
<1> QED
  BY <1>3, <1>5 DEF t

LEMMA FitsPut ==
  ASSUME NEW s, NEW e, Fits(s, e), NEW c \in Cell, NEW text \in Text \ Malformed, text # Empty,
         OpenAt(DependentsOf([e EXCEPT ![c] = Mentions(text)]), c)
  PROVE  Fits(SetCellHelper(s, c, text), [e EXCEPT ![c] = Mentions(text)])
<1> DEFINE t == SetCellHelper(s, c, text)
           next == [e EXCEPT ![c] = Mentions(text)]
<1>1. s \in Sheets /\ e \in Links /\ DOMAIN s \in SUBSET Cell
  BY SheetIs DEF Fits
<1>2. Mentions(text) \in SUBSET Cell
  BY TextAssumption DEF Mentions
<1>3. next \in Links /\ next[c] = Mentions(text) /\ \A d \in Cell \ {c} : next[d] = e[d]
  BY <1>1, <1>2 DEF Links
<1>4. /\ t \in Sheets /\ DOMAIN t = DOMAIN s \cup {c} /\ t[c].content = text
      /\ \A d \in DOMAIN s \ {c} : t[d] = s[d]
  <2>1. s \in Sheets /\ c \in Cell /\ text \in Text
    BY <1>1
  <2> HIDE DEF t
  <2>2. /\ SetCellHelper(s, c, text) \in Sheets
        /\ DOMAIN SetCellHelper(s, c, text) = DOMAIN s \cup {c}
        /\ SetCellHelper(s, c, text)[c].content = text
        /\ \A d \in DOMAIN s \ {c} : SetCellHelper(s, c, text)[d] = s[d]
    BY <2>1, PutIs
  <2> QED
    BY <2>2 DEF t
<1>5. AllOpen(DependentsOf(next))
  BY <1>1, <1>2, StaysOpen DEF Fits
<1> HIDE DEF t, next
<1>6. ASSUME NEW d \in Cell
      PROVE  (~Emptied(t, d) => next[d] = Names(t, d)) /\ (next[d] # {} => d \in DOMAIN t)
  <2>1. CASE d = c
    BY <1>3, <1>4, <2>1, NamesAre
  <2>2. CASE d # c
    <3>1. Names(t, d) = Names(s, d) /\ (Emptied(t, d) <=> Emptied(s, d)) /\ next[d] = e[d]
      BY <1>1, <1>3, <1>4, <2>2, NamesAre DEF Emptied
    <3> QED
      BY <1>4, <3>1 DEF Fits
  <2> QED
    BY <2>1, <2>2
<1>7. \A d \in DOMAIN t : t[d].content \notin Malformed
  BY <1>4 DEF Fits
<1>8. Fits(t, next)
  BY <1>3, <1>4, <1>5, <1>6, <1>7 DEF Fits
<1> QED
  BY <1>8 DEF t, next

\* A cell is emptied.
EmptyAt(s, c) ==
  [n \in DOMAIN s \cup {c} |-> IF n = c THEN [content |-> Empty, value |-> Empty] ELSE s[n]]

LEMMA EmptyAtIs ==
  ASSUME NEW s \in Sheets, NEW c \in Cell
  PROVE  /\ EmptyAt(s, c) \in Sheets /\ DOMAIN EmptyAt(s, c) = DOMAIN s \cup {c}
         /\ EmptyAt(s, c)[c].content = Empty /\ EmptyAt(s, c)[c].value = Empty
         /\ \A d \in DOMAIN s \ {c} : EmptyAt(s, c)[d] = s[d]
<1> DEFINE t == EmptyAt(s, c)
<1>1. DOMAIN s \in SUBSET Cell /\ s \in [DOMAIN s -> [content : Text, value : Value]]
  BY SheetIs
<1>2. Empty \in Value /\ Empty \in Text
  BY DEF Value, Text
<1>3. /\ DOMAIN t = DOMAIN s \cup {c}
      /\ t[c] = [content |-> Empty, value |-> Empty]
      /\ \A d \in DOMAIN s \ {c} : t[d] = s[d]
  BY DEF EmptyAt
<1>4. t \in [DOMAIN s \cup {c} -> [content : Text, value : Value]]
  <2>1. \A d \in DOMAIN s \cup {c} : t[d] \in [content : Text, value : Value]
    BY <1>1, <1>2, <1>3
  <2>2. t = [d \in DOMAIN s \cup {c} |-> t[d]]
    BY DEF EmptyAt
  <2> HIDE DEF t
  <2> QED
    BY <2>1, <2>2
<1> HIDE DEF t
<1>5. t \in Sheets
  BY <1>1, <1>3, <1>4, SheetIs
<1> QED
  BY <1>3, <1>5 DEF t

LEMMA FitsEmpty ==
  ASSUME NEW s, NEW e, Fits(s, e), NEW c \in Cell
  PROVE  Fits(EmptyAt(s, c), e)
<1> DEFINE t == EmptyAt(s, c)
<1>1. s \in Sheets /\ e \in Links /\ DOMAIN s \in SUBSET Cell
  BY SheetIs DEF Fits
<1>2. /\ t \in Sheets /\ DOMAIN t = DOMAIN s \cup {c} /\ t[c].content = Empty
      /\ \A d \in DOMAIN s \ {c} : t[d] = s[d]
  BY <1>1, EmptyAtIs
<1> HIDE DEF t
<1>3. ASSUME NEW d \in Cell
      PROVE  (~Emptied(t, d) => e[d] = Names(t, d)) /\ (e[d] # {} => d \in DOMAIN t)
  <2>1. CASE d = c
    BY <1>2, <2>1 DEF Emptied
  <2>2. CASE d # c
    <3>1. Names(t, d) = Names(s, d) /\ (Emptied(t, d) <=> Emptied(s, d))
      BY <1>1, <1>2, <2>2, NamesAre DEF Emptied
    <3> QED
      BY <1>2, <3>1 DEF Fits
  <2> QED
    BY <2>1, <2>2
<1>4. \A d \in DOMAIN t : t[d].content \notin Malformed
  BY <1>2, TextAssumption DEF Fits
<1>5. Fits(t, e)
  BY <1>1, <1>2, <1>3, <1>4 DEF Fits
<1> QED
  BY <1>5 DEF t

-----------------------------------------------------------------------------
(* What setting a cell can end in.                                         *)

\* The cells that can be reached from c, all of them in the dictionary.
Reach(s, e, c, V) ==
  /\ c \in V /\ V \subseteq DOMAIN s /\ Closed(DependentsOf(e), V)
  /\ \A S \in SUBSET Cell : c \in S /\ Closed(DependentsOf(e), S) => V \subseteq S

LEMMA ListIs ==
  ASSUME IsFiniteSet(Cell), NEW s, NEW e, Fits(s, e), NEW c \in DOMAIN s
  PROVE  /\ GetCellsToRecalculate(GraphOf(e), c) # {}
         /\ \A cells \in GetCellsToRecalculate(GraphOf(e), c) :
              /\ cells \in Seq(Cell) /\ Line(DependentsOf(e), cells)
              /\ Reach(s, e, c, ToSet(cells))
<1> DEFINE deps == DependentsOf(e)
           g == GraphOf(e)
<1>1. /\ s \in Sheets /\ e \in Links /\ c \in Cell /\ AllOpen(deps)
      /\ \A d \in Cell : e[d] # {} => d \in DOMAIN s
  BY SheetIs DEF Fits
<1>2. g.dependents = deps /\ deps \in Links
  BY DEF GraphOf, DependentsOf, Links
<1>3. \A n, m \in Cell : m \in deps[n] <=> n \in e[m]
  BY DEF DependentsOf
<1> HIDE DEF g, deps
<1>4. Visit(g, c) # {} /\ Visit(g, c) \subseteq Walk(deps, c)
  BY <1>1, <1>2, VisitWalks
<1>5. ASSUME NEW w \in Visit(g, c)
      PROVE  /\ w.changed \in Seq(Cell) /\ Line(deps, w.changed)
             /\ Reach(s, e, c, ToSet(w.changed))
  <2>1. /\ w.visited \in SUBSET Cell /\ w.changed \in Seq(Cell)
        /\ c \in w.visited /\ Closed(deps, w.visited)
        /\ ToSet(w.changed) = w.visited
        /\ \A S \in SUBSET Cell : deps[c] \subseteq S /\ Closed(deps, S) => w.visited \subseteq S \cup {c}
        /\ Line(deps, w.changed)
    BY <1>1, <1>4 DEF Walk
  <2>2. w.visited \subseteq DOMAIN s
    <3> DEFINE S == {n \in Cell : e[n] # {}}
    <3>1. \A n \in Cell : deps[n] \subseteq S
      <4> SUFFICES ASSUME NEW n \in Cell, NEW m \in deps[n] PROVE m \in S
        OBVIOUS
      <4>1. m \in Cell
        BY <1>2 DEF Links
      <4> QED
        BY <1>3, <4>1
    <3>2. S \in SUBSET Cell /\ Closed(deps, S) /\ deps[c] \subseteq S
      BY <1>1, <3>1 DEF Closed
    <3> QED
      BY <1>1, <2>1, <3>2
  <2>3. ASSUME NEW S \in SUBSET Cell, c \in S, Closed(deps, S) PROVE w.visited \subseteq S
    BY <2>1, <2>3 DEF Closed
  <2> QED
    BY <2>1, <2>2, <2>3 DEF Reach, deps
<1>6. GetCellsToRecalculate(g, c) = {w.changed : w \in Visit(g, c)}
  BY DEF GetCellsToRecalculate
<1> QED
  BY <1>4, <1>5, <1>6 DEF g, deps

\* The list has made the cells of s current in t, unless it raised.
Recomputes(s, e, o, t) ==
  /\ o.book = BookOf(t, e) /\ SameContents(s, t)
  /\ \A d \in DOMAIN s \ ToSet(o.cells) : t[d] = s[d]
  /\ o.raised => \E n \in ToSet(o.cells) : t[n].content \in Misnamed
  /\ ~o.raised => \A n \in ToSet(o.cells) : IsCurrent(t, n)

LEMMA Recomputed ==
  ASSUME IsFiniteSet(Cell), NEW s, NEW e, Fits(s, e), NEW c \in DOMAIN s,
         NEW o \in Recalculated(s, GraphOf(e), c)
  PROVE  /\ o.cells \in Seq(Cell) /\ Reach(s, e, c, ToSet(o.cells))
         /\ o.refused = o.raised /\ o.raised \in BOOLEAN
         /\ \E t \in Sheets : Recomputes(s, e, o, t)
<1>1. PICK cells \in GetCellsToRecalculate(GraphOf(e), c) :
        o = [book |-> [sheet |-> RecalcHelper(s, cells).sheet, graph |-> GraphOf(e)],
             refused |-> RecalcHelper(s, cells).raised,
             raised |-> RecalcHelper(s, cells).raised, cells |-> cells]
  BY DEF Recalculated
<1>2. cells \in Seq(Cell) /\ Line(DependentsOf(e), cells) /\ Reach(s, e, c, ToSet(cells))
  BY <1>1, ListIs
<1>3. s \in Sheets /\ DOMAIN s \in SUBSET Cell /\ ToSet(cells) \subseteq DOMAIN s
  BY <1>2, SheetIs DEF Fits, Reach
<1>4. ASSUME NEW n \in ToSet(cells), s[n].content \in Formula, NEW v \in Vars[s[n].content]
      PROVE  n \in DependentsOf(e)[v]
  <2>1. n \in Cell /\ n \in DOMAIN s
    BY <1>3
  <2>2. Names(s, n) = Vars[s[n].content]
    BY <1>3, <1>4, <2>1, NamesAre DEF Mentions
  <2>3. e[n] = Names(s, n) /\ v \in Cell
    BY <1>4, <2>1, TextAssumption DEF Fits, Emptied
  <2> QED
    BY <1>4, <2>1, <2>2, <2>3 DEF DependentsOf
<1> DEFINE r == RecalcHelper(s, cells)
<1>5. /\ r \in Runs /\ SameContents(s, r.sheet)
      /\ \A d \in DOMAIN s \ ToSet(cells) : r.sheet[d] = s[d]
      /\ r.raised => \E n \in ToSet(cells) : s[n].content \in Misnamed
      /\ ~r.raised => \A n \in ToSet(cells) : IsCurrent(r.sheet, n)
  BY <1>2, <1>3, <1>4, Recalculates
<1> HIDE DEF r
<1>6. o = [book |-> BookOf(r.sheet, e), refused |-> r.raised, raised |-> r.raised, cells |-> cells]
  BY <1>1 DEF BookOf, r
<1>7. r.sheet \in Sheets /\ r.raised \in BOOLEAN
  BY <1>5 DEF Runs
<1>8. \A n \in ToSet(cells) : r.sheet[n].content = s[n].content
  BY <1>3, <1>5 DEF SameContents
<1>9. Recomputes(s, e, o, r.sheet)
  BY <1>5, <1>6, <1>8 DEF Recomputes
<1> QED
  BY <1>2, <1>6, <1>7, <1>9

LEMMA RecomputedAgain ==
  ASSUME IsFiniteSet(Cell), NEW s, NEW e, Fits(s, e), NEW c \in DOMAIN s,
         NEW V, Reach(s, e, c, V), \A n \in V : IsCurrent(s, n),
         NEW o \in Recalculated(s, GraphOf(e), c)
  PROVE  ~o.refused /\ o.book = BookOf(s, e)
<1>1. PICK cells \in GetCellsToRecalculate(GraphOf(e), c) :
        o = [book |-> [sheet |-> RecalcHelper(s, cells).sheet, graph |-> GraphOf(e)],
             refused |-> RecalcHelper(s, cells).raised,
             raised |-> RecalcHelper(s, cells).raised, cells |-> cells]
  BY DEF Recalculated
<1>2. cells \in Seq(Cell) /\ Reach(s, e, c, ToSet(cells))
  BY <1>1, ListIs
<1>3. s \in Sheets /\ DOMAIN s \in SUBSET Cell
  BY SheetIs DEF Fits
<1>4. ToSet(cells) \subseteq V /\ ToSet(cells) \subseteq DOMAIN s
  BY <1>2, <1>3 DEF Reach
<1>5. RecalcHelper(s, cells) = [sheet |-> s, raised |-> FALSE]
  BY <1>2, <1>3, <1>4, RecalculatesNothing
<1> QED
  BY <1>1, <1>5 DEF BookOf

\* The dependees after a text is set.
Linked(e, c, text) == [e EXCEPT ![c] = Mentions(text)]

\* SetContentsOfCell refuses a formula, empties a cell, or takes a text.
LEMMA Outcome ==
  ASSUME IsFiniteSet(Cell), NEW s, NEW e, Fits(s, e), NEW c \in Cell, NEW text \in Text,
         NEW o \in SetContentsOfCell(BookOf(s, e), c, text)
  PROVE  \/ /\ o = Refused(BookOf(s, e)) /\ text \in Formula
            /\ text \in Malformed \/ ~OpenAt(DependentsOf(Linked(e, c, text)), c)
         \/ /\ text = Empty /\ o.book = BookOf(EmptyAt(s, c), e) /\ o.refused = FALSE /\ o.raised = FALSE
            /\ o.cells \in GetCellsToRecalculate(GraphOf(e), c)
         \/ /\ text \notin Malformed \cup {Empty}
            /\ OpenAt(DependentsOf(Linked(e, c, text)), c)
            /\ o \in Recalculated(SetCellHelper(s, c, text), GraphOf(Linked(e, c, text)), c)
<1> DEFINE b == BookOf(s, e)
           next == Linked(e, c, text)
           t == SetCellHelper(s, c, text)
<1>1. b.sheet = s /\ b.graph = GraphOf(e) /\ b.graph.dependees = e
  BY DEF BookOf, GraphOf
<1>2. e \in Links /\ AllOpen(DependentsOf(e)) /\ c \notin e[c] /\ e[c] \in SUBSET Cell
  BY OpenIsAcyclic DEF Fits, AllOpen, Links
<1>3. Mentions(text) \in SUBSET Cell
  BY TextAssumption DEF Mentions
<1>4. next \in Links /\ next[c] = Mentions(text)
  BY <1>2, <1>3 DEF Links, Linked
<1>5. Empty \notin Formula /\ Malformed \subseteq Formula
  BY TextAssumption
<1>6. CASE text \in Formula
  <2>1. o \in SetToFormula(b, c, text) /\ Mentions(text) = Vars[text]
    BY <1>6 DEF SetContentsOfCell, Mentions
  <2>2. CASE text \in Malformed \/ c \in Vars[text]
    <3>1. o = Refused(b)
      BY <2>1, <2>2 DEF SetToFormula
    <3>2. c \in Vars[text] => ~OpenAt(DependentsOf(next), c)
      BY <1>4, <2>1, OpenIsAcyclic
    <3> QED
      BY <1>6, <2>2, <3>1, <3>2
  <2>3. CASE ~(text \in Malformed \/ c \in Vars[text])
    <3>1. DG!ReplaceDependees(GraphOf(e), c, Vars[text]) = {GraphOf(next)}
      BY <1>2, <1>3, <2>1, <2>3, Replaced DEF Linked
    <3>2. DG!ReplaceDependees(GraphOf(next), c, e[c]) = {GraphOf(e)}
      <4>1. DG!ReplaceDependees(GraphOf(next), c, e[c]) = {GraphOf([next EXCEPT ![c] = e[c]])}
        BY <1>2, <1>4, <2>1, <2>3, Replaced
      <4>2. [next EXCEPT ![c] = e[c]] = e
        BY <1>2, <1>3 DEF Linked, Links
      <4> QED
        BY <4>1, <4>2
    <3>3. GraphOf(next).dependents = DependentsOf(next) /\ DependentsOf(next) \in Links
      BY <1>4 DEF GraphOf, DependentsOf, Links
    <3>4. Circular(GraphOf(next), c) <=> ~OpenAt(DependentsOf(next), c)
      BY <3>3, CircularIs
    <3> HIDE DEF next
    <3>5. CASE Circular(GraphOf(next), c)
      <4>1. o \in {Refused([b EXCEPT !.graph = restored]) : restored \in {GraphOf(e)}}
        BY <1>1, <2>1, <2>3, <3>1, <3>2, <3>5 DEF SetToFormula
      <4>2. [b EXCEPT !.graph = GraphOf(e)] = b
        BY DEF BookOf
      <4> QED
        BY <1>6, <3>4, <3>5, <4>1, <4>2 DEF next
    <3>6. CASE ~Circular(GraphOf(next), c)
      <4>1. o \in Recalculated(t, GraphOf(next), c)
        BY <1>1, <2>1, <2>3, <3>1, <3>6 DEF SetToFormula
      <4> QED
        BY <1>5, <1>6, <2>3, <3>4, <3>6, <4>1 DEF next
    <3> QED
      BY <3>5, <3>6
  <2> QED
    BY <2>2, <2>3
<1>7. CASE text = Empty
  <2>1. o \in SetToEmpty(b, c)
    BY <1>5, <1>7 DEF SetContentsOfCell
  <2>2. PICK cells \in GetCellsToRecalculate(GraphOf(e), c) :
          o = [book |-> [b EXCEPT !.sheet = EmptyAt(s, c)], refused |-> FALSE, raised |-> FALSE, cells |-> cells]
    BY <1>1, <2>1 DEF SetToEmpty, EmptyAt
  <2>3. [b EXCEPT !.sheet = EmptyAt(s, c)] = BookOf(EmptyAt(s, c), e)
    BY DEF BookOf
  <2> QED
    BY <1>7, <2>2, <2>3
<1>8. CASE text \notin Formula /\ text # Empty
  <2>1. o \in SetToConstant(b, c, text) /\ Mentions(text) = {}
    BY <1>8 DEF SetContentsOfCell, Mentions
  <2>2. DG!ReplaceDependees(GraphOf(e), c, {}) = {GraphOf(next)}
    BY <1>2, <2>1, Replaced DEF Linked
  <2>3. AllOpen(DependentsOf(next))
    BY <1>2, <2>1, OpenWithout DEF Linked
  <2> HIDE DEF next
  <2>4. o \in Recalculated(t, GraphOf(next), c)
    BY <1>1, <2>1, <2>2 DEF SetToConstant
  <2> QED
    BY <1>5, <1>8, <2>3, <2>4 DEF AllOpen, next
<1> QED
  BY <1>6, <1>7, <1>8

LEMMA SomeOutcome ==
  ASSUME IsFiniteSet(Cell), NEW s, NEW e, Fits(s, e), NEW c \in Cell, NEW text \in Text
  PROVE  SetContentsOfCell(BookOf(s, e), c, text) # {}
<1> DEFINE b == BookOf(s, e)
           next == Linked(e, c, text)
           t == SetCellHelper(s, c, text)
<1>1. b.sheet = s /\ b.graph = GraphOf(e) /\ b.graph.dependees = e
  BY DEF BookOf, GraphOf
<1>2. e \in Links /\ AllOpen(DependentsOf(e)) /\ c \notin e[c] /\ e[c] \in SUBSET Cell /\ s \in Sheets
  BY OpenIsAcyclic DEF Fits, AllOpen, Links
<1>3. Mentions(text) \in SUBSET Cell
  BY TextAssumption DEF Mentions
<1>4. next \in Links /\ next[c] = Mentions(text)
  BY <1>2, <1>3 DEF Links, Linked
<1>5. Empty \notin Formula /\ Malformed \subseteq Formula
  BY TextAssumption
<1>6. ASSUME text \notin Malformed \cup {Empty}, OpenAt(DependentsOf(next), c)
      PROVE  Recalculated(t, GraphOf(next), c) # {}
  <2>1. Fits(t, next)
    BY <1>6, FitsPut DEF Linked
  <2>2. c \in DOMAIN t
    BY DEF SetCellHelper
  <2> HIDE DEF t, next
  <2>3. PICK cells : cells \in GetCellsToRecalculate(GraphOf(next), c)
    BY <2>1, <2>2, ListIs
  <2> QED
    BY <2>3 DEF Recalculated
<1>7. CASE text \in Formula
  <2>1. SetContentsOfCell(b, c, text) = SetToFormula(b, c, text) /\ Mentions(text) = Vars[text]
    BY <1>7 DEF SetContentsOfCell, Mentions
  <2>2. CASE text \in Malformed \/ c \in Vars[text]
    BY <2>1, <2>2 DEF SetToFormula
  <2>3. CASE ~(text \in Malformed \/ c \in Vars[text])
    <3>1. DG!ReplaceDependees(GraphOf(e), c, Vars[text]) = {GraphOf(next)}
      BY <1>2, <1>3, <2>1, <2>3, Replaced DEF Linked
    <3>2. DG!ReplaceDependees(GraphOf(next), c, e[c]) # {}
      <4>1. DG!ReplaceDependees(GraphOf(next), c, e[c]) = {GraphOf([next EXCEPT ![c] = e[c]])}
        BY <1>2, <1>4, <2>1, <2>3, Replaced
      <4> QED
        BY <4>1
    <3>3. GraphOf(next).dependents = DependentsOf(next) /\ DependentsOf(next) \in Links
      BY <1>4 DEF GraphOf, DependentsOf, Links
    <3>4. Circular(GraphOf(next), c) <=> ~OpenAt(DependentsOf(next), c)
      BY <3>3, CircularIs
    <3>5. ~Circular(GraphOf(next), c) => Recalculated(t, GraphOf(next), c) # {}
      BY <1>5, <1>6, <1>7, <2>3, <3>4
    <3> HIDE DEF next, t
    <3>6. SetToFormula(b, c, text) =
            IF Circular(GraphOf(next), c)
            THEN {Refused([b EXCEPT !.graph = restored]) :
                    restored \in DG!ReplaceDependees(GraphOf(next), c, e[c])}
            ELSE Recalculated(t, GraphOf(next), c)
      BY <1>1, <2>3, <3>1 DEF SetToFormula, t
    <3> QED
      BY <2>1, <3>2, <3>5, <3>6
  <2> QED
    BY <2>2, <2>3
<1>8. CASE text = Empty
  <2>1. SetContentsOfCell(b, c, text) = SetToEmpty(b, c)
    BY <1>5, <1>8 DEF SetContentsOfCell
  <2>2. Fits(EmptyAt(s, c), e) /\ c \in DOMAIN EmptyAt(s, c)
    BY <1>2, FitsEmpty, EmptyAtIs
  <2>3. PICK cells : cells \in GetCellsToRecalculate(GraphOf(e), c)
    BY <2>2, ListIs
  <2> QED
    BY <1>1, <2>1, <2>3 DEF SetToEmpty
<1>9. CASE text \notin Formula /\ text # Empty
  <2>1. SetContentsOfCell(b, c, text) = SetToConstant(b, c, text) /\ Mentions(text) = {}
    BY <1>9 DEF SetContentsOfCell, Mentions
  <2>2. DG!ReplaceDependees(GraphOf(e), c, {}) = {GraphOf(next)}
    BY <1>2, <2>1, Replaced DEF Linked
  <2>3. AllOpen(DependentsOf(next))
    BY <1>2, <2>1, OpenWithout DEF Linked
  <2>4. Recalculated(t, GraphOf(next), c) # {}
    BY <1>5, <1>6, <1>9, <2>3 DEF AllOpen
  <2> HIDE DEF next, t
  <2>5. SetToConstant(b, c, text) = Recalculated(t, GraphOf(next), c)
    BY <1>1, <2>2 DEF SetToConstant, t
  <2> QED
    BY <2>1, <2>4, <2>5
<1> QED
  BY <1>7, <1>8, <1>9

\* The cell has the text, every cell that can be reached from it is current,
\* and the others are as they were.
Became(s, e, c, text, o, t, next) ==
  /\ text \notin Malformed
  /\ next = IF text = Empty THEN e ELSE Linked(e, c, text)
  /\ DOMAIN t = DOMAIN s \cup {c} /\ t[c].content = text
  /\ \A d \in DOMAIN s \ {c} : t[d].content = s[d].content
  /\ o.cells \in Seq(Cell) /\ Reach(t, next, c, ToSet(o.cells))
  /\ \A d \in DOMAIN s \ ToSet(o.cells) : t[d] = s[d]
  /\ IF text = Empty THEN t = EmptyAt(s, c) ELSE \A n \in ToSet(o.cells) : IsCurrent(t, n)

LEMMA Set ==
  ASSUME IsFiniteSet(Cell), NEW s, NEW e, Fits(s, e), NEW c \in Cell, NEW text \in Text,
         NEW o \in SetContentsOfCell(BookOf(s, e), c, text)
  PROVE  /\ o.refused \in BOOLEAN /\ o.raised \in BOOLEAN /\ (o.raised => o.refused)
         /\ \E t, next :
              /\ o.book = BookOf(t, next) /\ Fits(t, next)
              /\ o.raised => /\ \E n \in ToSet(o.cells) : t[n].content \in Misnamed
                             /\ text \in Misnamed \/ \E n \in DOMAIN s : s[n].content \in Misnamed
              /\ o.refused /\ ~o.raised =>
                   /\ t = s /\ next = e /\ text \in Formula
                   /\ text \in Malformed \/ ~OpenAt(DependentsOf(Linked(e, c, text)), c)
              /\ ~o.refused => Became(s, e, c, text, o, t, next)
<1>0. s \in Sheets /\ e \in Links /\ DOMAIN s \in SUBSET Cell
  BY SheetIs DEF Fits
<1>1. CASE /\ o = Refused(BookOf(s, e)) /\ text \in Formula
           /\ text \in Malformed \/ ~OpenAt(DependentsOf(Linked(e, c, text)), c)
  <2>1. o.refused = TRUE /\ o.raised = FALSE /\ o.book = BookOf(s, e)
    BY <1>1 DEF Refused
  <2> QED
    BY <1>1, <2>1
<1>2. CASE /\ text = Empty /\ o.book = BookOf(EmptyAt(s, c), e) /\ o.refused = FALSE /\ o.raised = FALSE
           /\ o.cells \in GetCellsToRecalculate(GraphOf(e), c)
  <2> DEFINE t == EmptyAt(s, c)
  <2>1. Fits(t, e)
    BY FitsEmpty
  <2>2. /\ DOMAIN t = DOMAIN s \cup {c} /\ t[c].content = Empty
        /\ \A d \in DOMAIN s \ {c} : t[d] = s[d]
    BY <1>0, EmptyAtIs
  <2>3. text \notin Malformed
    BY <1>2, TextAssumption
  <2> HIDE DEF t
  <2>4. o.cells \in Seq(Cell) /\ Reach(t, e, c, ToSet(o.cells))
    BY <1>2, <2>1, <2>2, ListIs
  <2>5. \A d \in DOMAIN s \ ToSet(o.cells) : t[d] = s[d]
    BY <2>2, <2>4 DEF Reach
  <2>6. Became(s, e, c, text, o, t, e)
    BY <1>2, <2>2, <2>3, <2>4, <2>5 DEF Became, t
  <2> QED
    BY <1>2, <2>1, <2>6 DEF t
<1>3. CASE /\ text \notin Malformed \cup {Empty}
           /\ OpenAt(DependentsOf(Linked(e, c, text)), c)
           /\ o \in Recalculated(SetCellHelper(s, c, text), GraphOf(Linked(e, c, text)), c)
  <2> DEFINE u == SetCellHelper(s, c, text)
             next == Linked(e, c, text)
  <2>1. Fits(u, next)
    BY <1>3, FitsPut DEF Linked
  <2>2. /\ DOMAIN u = DOMAIN s \cup {c} /\ u[c].content = text
        /\ \A d \in DOMAIN s \ {c} : u[d] = s[d]
    BY DEF SetCellHelper
  <2> HIDE DEF u, next
  <2>3. o \in Recalculated(u, GraphOf(next), c) /\ c \in DOMAIN u
    BY <1>3, <2>2 DEF u, next
  <2>4. /\ o.cells \in Seq(Cell) /\ Reach(u, next, c, ToSet(o.cells))
        /\ o.refused = o.raised /\ o.raised \in BOOLEAN
    BY <2>1, <2>3, Recomputed
  <2>50. PICK t \in Sheets : Recomputes(u, next, o, t)
    BY <2>1, <2>3, Recomputed
  <2>5. /\ o.book = BookOf(t, next) /\ SameContents(u, t)
        /\ \A d \in DOMAIN u \ ToSet(o.cells) : t[d] = u[d]
        /\ o.raised => \E n \in ToSet(o.cells) : t[n].content \in Misnamed
        /\ ~o.raised => \A n \in ToSet(o.cells) : IsCurrent(t, n)
    BY <2>50 DEF Recomputes
  <2>6. Fits(t, next)
    BY <2>1, <2>5, FitsKept
  <2>7. DOMAIN t = DOMAIN u /\ \A d \in DOMAIN u : t[d].content = u[d].content
    BY <2>5 DEF SameContents
  <2>8. c \in ToSet(o.cells) /\ Reach(t, next, c, ToSet(o.cells))
    BY <2>4, <2>7 DEF Reach
  <2>9. \A d \in DOMAIN s \ ToSet(o.cells) : t[d] = s[d]
    BY <2>2, <2>5, <2>8
  <2>10. ASSUME ~o.refused PROVE Became(s, e, c, text, o, t, next)
    BY <1>3, <2>2, <2>4, <2>5, <2>7, <2>8, <2>9, <2>10 DEF Became, next
  <2>11. ASSUME o.raised PROVE text \in Misnamed \/ \E n \in DOMAIN s : s[n].content \in Misnamed
    <3>1. PICK n \in ToSet(o.cells) : t[n].content \in Misnamed
      BY <2>5, <2>11
    <3>2. n \in DOMAIN u /\ u[n].content \in Misnamed
      BY <2>4, <2>7, <3>1 DEF Reach
    <3> QED
      BY <2>2, <3>2
  <2> QED
    BY <2>4, <2>5, <2>6, <2>10, <2>11
<1> QED
  BY <1>1, <1>2, <1>3, Outcome

\* What was taken once is taken again, and changes nothing.
LEMMA SetAgain ==
  ASSUME IsFiniteSet(Cell), NEW s, NEW e, Fits(s, e), NEW c \in Cell, NEW text \in Text, NEW o,
         NEW t, NEW next, Fits(t, next), Became(s, e, c, text, o, t, next),
         NEW again \in SetContentsOfCell(BookOf(t, next), c, text)
  PROVE  ~again.refused /\ again.book = BookOf(t, next)
<1>0. /\ s \in Sheets /\ e \in Links /\ t \in Sheets /\ next \in Links
      /\ t \in [DOMAIN t -> [content : Text, value : Value]]
      /\ AllOpen(DependentsOf(next))
  BY SheetIs DEF Fits
<1>1. c \in DOMAIN t /\ t[c].content = text /\ text \notin Malformed
  BY DEF Became
<1>2. CASE text = Empty
  <2>1. t = EmptyAt(s, c) /\ Empty \notin Formula
    BY <1>2, TextAssumption DEF Became
  <2>2. /\ \A d \in DOMAIN t : EmptyAt(t, c)[d] = t[d]
        /\ EmptyAt(t, c) = [d \in DOMAIN t |-> EmptyAt(t, c)[d]]
    <3>1. t[c] = [content |-> Empty, value |-> Empty]
      BY <2>1 DEF EmptyAt
    <3> QED
      BY <1>1, <3>1 DEF EmptyAt
  <2>3. EmptyAt(t, c) = t
    BY <1>0, <2>2
  <2> QED
    BY <1>2, <2>1, <2>3, Outcome
<1>3. CASE text # Empty
  <2>1. next = Linked(e, c, text) /\ \A n \in ToSet(o.cells) : IsCurrent(t, n)
    BY <1>3 DEF Became
  <2>2. Linked(next, c, text) = next
    BY <1>0, <2>1 DEF Linked, Links
  <2>3. SetCellHelper(t, c, text) = t
    <3>1. t[c] = [content |-> text, value |-> t[c].value]
      BY <1>0, <1>1
    <3>2. \A d \in DOMAIN t : SetCellHelper(t, c, text)[d] = t[d]
      BY <1>1, <3>1 DEF SetCellHelper
    <3>3. SetCellHelper(t, c, text) = [d \in DOMAIN t |-> SetCellHelper(t, c, text)[d]]
      BY <1>1 DEF SetCellHelper
    <3> QED
      BY <1>0, <3>2, <3>3
  <2>4. again \in Recalculated(t, GraphOf(next), c)
    BY <1>0, <1>1, <1>3, <2>2, <2>3, Outcome DEF AllOpen
  <2>5. Reach(t, next, c, ToSet(o.cells))
    BY DEF Became
  <2> QED
    BY <1>1, <2>1, <2>4, <2>5, RecomputedAgain
<1> QED
  BY <1>2, <1>3

-----------------------------------------------------------------------------
(* Values stay those of their contents.                                    *)

\* Every cell has a value, and it is that of its content unless the cell names
\* one that was emptied.
Fresh(s) ==
  \A c \in DOMAIN s :
    /\ s[c].value # Null
    /\ (\A v \in Names(s, c) : ~Emptied(s, v)) => s[c].value = Computed(s, s[c].content)

LEMMA StaysFresh ==
  ASSUME IsFiniteSet(Cell), NEW s, NEW e, Fits(s, e), Fresh(s), NEW c \in Cell, NEW text \in Text, NEW o,
         NEW t, NEW next, Fits(t, next), Became(s, e, c, text, o, t, next)
  PROVE  Fresh(t)
<1> DEFINE V == ToSet(o.cells)
<1>0. /\ s \in Sheets /\ t \in Sheets /\ DOMAIN s \in SUBSET Cell /\ DOMAIN t \in SUBSET Cell
      /\ t \in [DOMAIN t -> [content : Text, value : Value]]
      /\ Empty \notin Formula /\ Empty # Null
  BY SheetIs, TextAssumption DEF Fits
<1>1. /\ DOMAIN t = DOMAIN s \cup {c} /\ t[c].content = text
      /\ \A d \in DOMAIN s \ {c} : t[d].content = s[d].content
      /\ Reach(t, next, c, V)
      /\ \A d \in DOMAIN s \ V : t[d] = s[d]
  BY DEF Became
\* A cell that keeps its value, and of which the names keep theirs.
<1>2. ASSUME NEW d \in DOMAIN s \ {c}, t[d] = s[d],
             \A v \in Names(t, d) : v # c /\ (v \in DOMAIN s => t[v] = s[v])
      PROVE  s[d].content \in Formula => Agree(s, t, Vars[s[d].content])
  <2>1. s[d].content \in Formula => Names(t, d) = Vars[s[d].content]
    BY <1>0, <1>1, <1>2, NamesAre DEF Mentions
  <2> QED
    BY <1>1, <1>2, <2>1 DEF Agree
<1>3. ASSUME NEW d \in DOMAIN s \ {c}, t[d] = s[d],
             (\A v \in Names(t, d) : ~Emptied(t, v)) =>
               \A v \in Names(t, d) : v # c /\ (v \in DOMAIN s => t[v] = s[v])
      PROVE  /\ t[d].value # Null
             /\ (\A v \in Names(t, d) : ~Emptied(t, v)) => t[d].value = Computed(t, t[d].content)
  <2>1. t[d].value # Null
    BY <1>3 DEF Fresh
  <2>2. ASSUME \A v \in Names(t, d) : ~Emptied(t, v)
        PROVE  t[d].value = Computed(t, t[d].content)
    <3>1. \A v \in Names(t, d) : v # c /\ (v \in DOMAIN s => t[v] = s[v])
      BY <1>3, <2>2
    <3>2. Names(t, d) = Names(s, d)
      BY <1>0, <1>1, <1>3, NamesAre
    <3>3. \A v \in Names(s, d) : ~Emptied(s, v)
      BY <1>1, <2>2, <3>1, <3>2 DEF Emptied
    <3>4. s[d].value = Computed(s, s[d].content)
      BY <3>3 DEF Fresh
    <3>5. Computed(s, s[d].content) = Computed(t, s[d].content)
      BY <1>2, <1>3, <3>1, ComputedSame
    <3> QED
      BY <1>3, <3>4, <3>5
  <2> QED
    BY <2>1, <2>2
<1>4. CASE text = Empty
  <2>1. t = EmptyAt(s, c)
    BY <1>4 DEF Became
  <2>2. t[c].value = Empty /\ \A d \in DOMAIN s \ {c} : t[d] = s[d]
    BY <1>0, <2>1, EmptyAtIs
  <2>3. Emptied(t, c)
    BY <1>1, <1>4 DEF Emptied
  <2>4. ASSUME NEW d \in DOMAIN t
        PROVE  /\ t[d].value # Null
               /\ (\A v \in Names(t, d) : ~Emptied(t, v)) => t[d].value = Computed(t, t[d].content)
    <3>1. CASE d = c
      <4>1. Computed(t, Empty) = Empty
        BY <1>0 DEF Computed
      <4> QED
        BY <1>0, <1>1, <1>4, <2>2, <3>1, <4>1
    <3>2. CASE d # c
      <4>1. d \in DOMAIN s \ {c}
        BY <1>1, <3>2
      <4>2. (\A v \in Names(t, d) : ~Emptied(t, v)) =>
               \A v \in Names(t, d) : v # c /\ (v \in DOMAIN s => t[v] = s[v])
        BY <2>2, <2>3
      <4> QED
        BY <1>3, <2>2, <4>1, <4>2
    <3> QED
      BY <3>1, <3>2
  <2> QED
    BY <2>4 DEF Fresh
<1>5. CASE text # Empty
  <2>1. \A n \in V : IsCurrent(t, n)
    BY <1>5 DEF Became
  <2>2. ASSUME NEW d \in DOMAIN t
        PROVE  /\ t[d].value # Null
               /\ (\A v \in Names(t, d) : ~Emptied(t, v)) => t[d].value = Computed(t, t[d].content)
    <3>1. CASE d \in V
      <4>1. t[d].value = Computed(t, t[d].content) /\ t[d].content \in Text
        BY <1>0, <2>1, <3>1 DEF IsCurrent
      <4> QED
        BY <1>0, <4>1, ComputedType
    <3>2. CASE d \notin V
      <4>1. d \in DOMAIN s \ {c} /\ t[d] = s[d] /\ d \in Cell
        BY <1>0, <1>1, <3>2 DEF Reach
      <4>2. ASSUME NEW v \in Names(t, d) PROVE v \notin V
        <5>1. v \in next[d] /\ v \in Cell
          BY <1>0, <4>1, NamesAre DEF Fits
        <5>2. d \in DependentsOf(next)[v]
          BY <4>1, <5>1 DEF DependentsOf
        <5> QED
          BY <1>1, <3>2, <5>2 DEF Reach, Closed
      <4>3. \A v \in Names(t, d) : v # c /\ (v \in DOMAIN s => t[v] = s[v])
        BY <1>1, <4>2 DEF Reach
      <4> QED
        BY <1>3, <4>1, <4>3
    <3> QED
      BY <3>1, <3>2
  <2> QED
    BY <2>2 DEF Fresh
<1> QED
  BY <1>4, <1>5

-----------------------------------------------------------------------------
(* Files.                                                                  *)

LEMMA LoadRun ==
  ASSUME NEW texts, NEW cells \in Seq(Cell)
  PROVE  \E run : /\ LoadFile(texts, cells) = run[Len(cells)]
                  /\ run[0] = {EmptyBook}
                  /\ \A i \in 1..Len(cells) : run[i] = Taken(run[i - 1], cells[i], texts[cells[i]])
<1> DEFINE N == Len(cells)
           Step(run, i) == IF i = 0 THEN {EmptyBook} ELSE Taken(run[i - 1], cells[i], texts[cells[i]])
           Solves(run, n) == \A i \in 0..N : i < n => run[i] = Step(run, i)
           S == {n \in Nat : \E run : Solves(run, n)}
<1>0. N \in Nat
  BY LenProperties
<1> HIDE DEF N
<1>1. 0 \in S
  BY <1>0
<1>2. ASSUME NEW n \in S PROVE n + 1 \in S
  <2>1. PICK run : Solves(run, n)
    OBVIOUS
  <2> DEFINE new == [i \in 0..N |-> Step(run, i)]
  <2>2. ASSUME NEW i \in 0..N, i < n + 1 PROVE new[i] = Step(new, i)
    <3>1. CASE i = 0
      BY <3>1
    <3>2. CASE i # 0
      <4>1. i - 1 \in 0..N /\ i - 1 < n
        BY <1>0, <2>2, <3>2
      <4>2. run[i - 1] = new[i - 1]
        BY <2>1, <4>1
      <4>3. new[i] = Taken(run[i - 1], cells[i], texts[cells[i]])
        BY <3>2
      <4> HIDE DEF new
      <4> QED
        BY <3>2, <4>2, <4>3
    <3> QED
      BY <3>1, <3>2
  <2> HIDE DEF new, Step
  <2>3. Solves(new, n + 1)
    BY <2>2
  <2>4. n + 1 \in Nat
    OBVIOUS
  <2> HIDE DEF Solves
  <2> QED
    BY <2>3, <2>4
<1>3. S = Nat
  <2> HIDE DEF Solves
  <2>1. S \in SUBSET Nat
    OBVIOUS
  <2> HIDE DEF S
  <2> QED
    BY <1>1, <1>2, <2>1, NatSet
<1>4. N + 1 \in S
  <2> HIDE DEF S
  <2> QED
    BY <1>0, <1>3
<1>5. PICK k : Solves(k, N + 1)
  BY <1>4
<1>6. \A i \in 0..N : k[i] = Step(k, i)
  <2> HIDE DEF Step
  <2>1. \A i \in 0..N : i < N + 1
    BY <1>0
  <2> QED
    BY <1>5, <2>1
<1> DEFINE run == [i \in 0..N |-> k[i]]
           Is(r) == r = [i \in 0..N |-> Step(r, i)]
<1>7. \A i \in 0..N : run[i] = Step(run, i)
  <2> SUFFICES ASSUME NEW i \in 0..N PROVE run[i] = Step(run, i)
    OBVIOUS
  <2>1. CASE i = 0
    BY <1>6, <2>1
  <2>2. CASE i # 0
    <3>1. i - 1 \in 0..N
      BY <1>0, <2>2
    <3>2. run[i - 1] = k[i - 1] /\ run[i] = k[i]
      BY <3>1
    <3> HIDE DEF run
    <3> QED
      BY <1>6, <2>2, <3>2
  <2> QED
    BY <2>1, <2>2
<1>8. Is(run)
  <2> HIDE DEF Step
  <2>1. run = [i \in 0..N |-> run[i]]
    OBVIOUS
  <2> HIDE DEF run
  <2>2. [i \in 0..N |-> run[i]] = [i \in 0..N |-> Step(run, i)]
    BY <1>7
  <2> QED
    BY <2>1, <2>2
<1> DEFINE it == CHOOSE r : Is(r)
<1>9. LoadFile(texts, cells) = it[N]
  BY Zenon DEF LoadFile, N
<1> HIDE DEF Is, run
<1>10. Is(it)
  BY <1>8
<1> HIDE DEF it
<1>11. it = [i \in 0..N |-> Step(it, i)]
  BY <1>10 DEF Is
<1>12. \A i \in 0..N : it[i] = Step(it, i)
  <2> HIDE DEF Step
  <2> QED
    BY <1>11
<1>13. it[0] = {EmptyBook}
  <2>1. 0 \in 0..N
    BY <1>0
  <2>2. it[0] = Step(it, 0)
    BY <1>12, <2>1
  <2> QED
    BY <2>2
<1>14. \A i \in 1..N : it[i] = Taken(it[i - 1], cells[i], texts[cells[i]])
  <2> SUFFICES ASSUME NEW i \in 1..N PROVE it[i] = Taken(it[i - 1], cells[i], texts[cells[i]])
    OBVIOUS
  <2>1. i \in 0..N /\ i # 0
    BY <1>0
  <2> QED
    BY <1>12, <2>1
<1> QED
  BY <1>9, <1>13, <1>14 DEF N

\* The orders of a finite set have all its elements.
LEMMA OrderIs ==
  ASSUME NEW S \in SUBSET Cell, IsFiniteSet(S), NEW order, order \in SetToSeqs(S) \/ order = SetToSeq(S)
  PROVE  order \in Seq(Cell) /\ ToSet(order) = S
<1> DEFINE n == Cardinality(S)
<1>1. n \in Nat
  BY FS_CardinalityType
<1>2. order \in Injection(1..n, S)
  <2>1. CASE order \in SetToSeqs(S)
    BY <2>1 DEF SetToSeqs, Injection, IsInjective
  <2>2. CASE order = SetToSeq(S)
    <3>1. PICK f : f \in Bijection(1..n, S)
      BY FS_CardinalityType DEF ExistsBijection
    <3>2. f \in [1..n -> S] /\ IsInjective(f)
      BY <3>1 DEF Bijection, Injection
    <3>3. order \in [1..n -> S] /\ IsInjective(order)
      BY <2>2, <3>2 DEF SetToSeq
    <3> QED
      BY <3>3 DEF Injection
  <2> QED
    BY <2>1, <2>2
<1>3. Cardinality(1..n) = n
  BY <1>1, FS_Interval
<1>4. order \in Surjection(1..n, S)
  <2> DEFINE D == 1..n
  <2>1. order \in Injection(D, S) /\ Cardinality(D) = Cardinality(S)
    BY <1>2, <1>3
  <2> HIDE DEF D
  <2>2. order \in Surjection(D, S)
    BY <2>1, FS_Injection
  <2> QED
    BY <2>2 DEF D
<1>5. order \in [1..n -> S] /\ \A c \in S : \E i \in 1..n : order[i] = c
  BY <1>4 DEF Surjection
<1> HIDE DEF n
<1>6. order \in Seq(Cell) /\ DOMAIN order = 1..n
  BY <1>1, <1>5
<1> QED
  BY <1>5, <1>6 DEF ToSet

NoLinks == [n \in Cell |-> {}]

LEMMA NothingFits ==
  ASSUME IsFiniteSet(Cell)
  PROVE  EmptyBook = BookOf([c \in {} |-> Empty], NoLinks) /\ Fits([c \in {} |-> Empty], NoLinks)
<1>1. Pairs(NoLinks) = {}
  BY DEF Pairs, NoLinks
<1>2. Cardinality({}) = 0
  BY FS_EmptySet, Zenon
<1>3. GraphOf(NoLinks) = DG!EmptyGraph
  <2>1. [n \in Cell |-> {m \in Cell : n \in NoLinks[m]}] = [n \in Cell |-> {}]
    BY DEF NoLinks
  <2> QED
    BY <1>1, <1>2, <2>1 DEF GraphOf, DG!EmptyGraph, NoLinks
<1>4. EmptyBook = BookOf([c \in {} |-> Empty], NoLinks)
  BY <1>3 DEF EmptyBook, BookOf
<1> DEFINE none == [c \in {} |-> Empty]
<1>5. none \in Sheets /\ DOMAIN none = {}
  <2>1. DOMAIN none = {} /\ none \in [{} -> [content : Text, value : Value]]
    OBVIOUS
  <2> HIDE DEF none
  <2> QED
    BY <2>1, SheetIs
<1> HIDE DEF none
<1>6. NoLinks \in Links /\ \A c \in Cell : NoLinks[c] = {}
  BY DEF NoLinks, Links
<1>7. AllOpen(DependentsOf(NoLinks))
  <2>1. \A c \in Cell : DependentsOf(NoLinks)[c] = {}
    BY DEF NoLinks, DependentsOf
  <2> QED
    BY <2>1 DEF AllOpen, OpenAt, Closed
<1>8. \A c \in Cell : Names(none, c) = {}
  BY <1>5, NamesAre
<1>9. Fits(none, NoLinks)
  BY <1>5, <1>6, <1>7, <1>8 DEF Fits
<1> QED
  BY <1>4, <1>9 DEF none

\* What the first cells of a file make.
Loaded(b, texts, cells, n, t, e) ==
  /\ b = BookOf(t, e) /\ Fits(t, e) /\ Fresh(t)
  /\ DOMAIN t = {cells[i] : i \in 1..n}
  /\ \A c \in DOMAIN t : t[c].content = texts[c]

LEMMA LoadSteps ==
  ASSUME IsFiniteSet(Cell), NEW cells \in Seq(Cell), NEW texts, \A c \in ToSet(cells) : texts[c] \in Text,
         NEW books, books[0] = {EmptyBook},
         \A i \in 1..Len(cells) : books[i] = Taken(books[i - 1], cells[i], texts[cells[i]]),
         NEW m \in 0..Len(cells), NEW b \in books[m]
  PROVE  \E t, e : Loaded(b, texts, cells, m, t, e)
<1> DEFINE N == Len(cells)
<1>1. /\ N \in Nat /\ ToSet(cells) = {cells[i] : i \in 1..N}
      /\ \A i \in 1..N : cells[i] \in Cell
  BY LenProperties DEF ToSet
<1>2. books[0] = {EmptyBook} /\ \A i \in 1..N : books[i] = Taken(books[i - 1], cells[i], texts[cells[i]])
  OBVIOUS
<1>20. m \in Nat /\ m <= N
  BY <1>1
<1> HIDE DEF N
<1> DEFINE Good(n) == \A p \in books[n] : \E t, e : Loaded(p, texts, cells, n, t, e)
           S == {n \in Nat : n <= N => Good(n)}
<1>3. 0 \in S
  <2> DEFINE none == [c \in {} |-> Empty]
  <2>1. EmptyBook = BookOf(none, NoLinks) /\ Fits(none, NoLinks)
    BY NothingFits
  <2>2. DOMAIN none = {} /\ {cells[i] : i \in 1..0} = {}
    OBVIOUS
  <2> HIDE DEF none
  <2>3. Loaded(EmptyBook, texts, cells, 0, none, NoLinks)
    BY <2>1, <2>2 DEF Loaded, Fresh
  <2> QED
    BY <1>2, <2>3
<1>4. ASSUME NEW n \in Nat, n + 1 <= N, Good(n) PROVE Good(n + 1)
  <2> SUFFICES ASSUME NEW p \in books[n + 1]
               PROVE  \E t, e : Loaded(p, texts, cells, n + 1, t, e)
    OBVIOUS
  <2> DEFINE c == cells[n + 1]
  <2>1. n + 1 \in 1..N /\ (n + 1) - 1 = n
    BY <1>1, <1>4
  <2>2. c \in Cell /\ texts[c] \in Text
    <3>1. c \in ToSet(cells) /\ c \in Cell
      BY <1>1, <2>1
    <3> QED
      BY <3>1
  <2>3. p \in Taken(books[n], c, texts[c])
    BY <1>2, <2>1
  <2> HIDE DEF c
  <2>4. PICK q \in books[n] : \E o \in SetContentsOfCell(q, c, texts[c]) : ~o.refused /\ p = o.book
    BY <2>3 DEF Taken
  <2>5. PICK s, e : Loaded(q, texts, cells, n, s, e)
    BY <1>4
  <2>6. /\ q = BookOf(s, e) /\ Fits(s, e) /\ Fresh(s)
        /\ DOMAIN s = {cells[i] : i \in 1..n} /\ \A d \in DOMAIN s : s[d].content = texts[d]
    BY <2>5 DEF Loaded
  <2>7. PICK o \in SetContentsOfCell(BookOf(s, e), c, texts[c]) : ~o.refused /\ p = o.book
    BY <2>4, <2>6
  <2>8. PICK t, next : p = BookOf(t, next) /\ Fits(t, next) /\ Became(s, e, c, texts[c], o, t, next)
    BY <2>2, <2>6, <2>7, Set
  <2>9. Fresh(t)
    BY <2>2, <2>6, <2>8, StaysFresh
  <2>10. /\ DOMAIN t = DOMAIN s \cup {c} /\ t[c].content = texts[c]
         /\ \A d \in DOMAIN s \ {c} : t[d].content = s[d].content
    BY <2>8 DEF Became
  <2>11. {cells[i] : i \in 1..(n + 1)} = {cells[i] : i \in 1..n} \cup {c}
    <3>1. 1..(n + 1) = 1..n \cup {n + 1}
      BY <1>4
    <3> QED
      BY <3>1 DEF c
  <2>12. Loaded(p, texts, cells, n + 1, t, next)
    BY <2>6, <2>8, <2>9, <2>10, <2>11 DEF Loaded
  <2> QED
    BY <2>12
<1>5. S = Nat
  <2>1. ASSUME NEW n \in S PROVE n + 1 \in S
    <3> HIDE DEF Good
    <3>1. n + 1 \in Nat /\ (n + 1 <= N => n <= N)
      BY <1>1
    <3> QED
      BY <1>4, <3>1
  <2>2. S \in SUBSET Nat
    OBVIOUS
  <2> HIDE DEF S
  <2> QED
    BY <1>3, <2>1, <2>2, NatSet
<1>6. Good(m)
  <2> HIDE DEF Good
  <2> QED
    BY <1>5, <1>20
<1> QED
  BY <1>6

LEMMA LoadIs ==
  ASSUME IsFiniteSet(Cell), NEW cells \in Seq(Cell), NEW texts, \A c \in ToSet(cells) : texts[c] \in Text,
         NEW b \in LoadFile(texts, cells)
  PROVE  \E t, e : /\ b = BookOf(t, e) /\ Fits(t, e) /\ Fresh(t)
                   /\ DOMAIN t = ToSet(cells) /\ \A c \in DOMAIN t : t[c].content = texts[c]
<1>1. Len(cells) \in 0..Len(cells) /\ ToSet(cells) = {cells[i] : i \in 1..Len(cells)}
  BY LenProperties DEF ToSet
<1>2. PICK books : /\ LoadFile(texts, cells) = books[Len(cells)]
                   /\ books[0] = {EmptyBook}
                   /\ \A i \in 1..Len(cells) : books[i] = Taken(books[i - 1], cells[i], texts[cells[i]])
  BY LoadRun
<1>3. PICK t, e : Loaded(b, texts, cells, Len(cells), t, e)
  BY <1>1, <1>2, LoadSteps
<1> QED
  BY <1>1, <1>3 DEF Loaded

\* The names of the texts are among dependees that close no cycle, and every
\* formula can be evaluated: then no text is refused, in any order.
LEMMA LoadEnds ==
  ASSUME IsFiniteSet(Cell), NEW cells \in Seq(Cell), NEW texts, NEW e \in Links, AllOpen(DependentsOf(e)),
         \A c \in ToSet(cells) : /\ texts[c] \in Text \ (Malformed \cup Misnamed \cup {Empty})
                                /\ Mentions(texts[c]) \subseteq e[c]
  PROVE  LoadFile(texts, cells) # {}
<1> DEFINE N == Len(cells)
<1>1. /\ N \in Nat /\ \A i \in 1..N : cells[i] \in Cell /\ cells[i] \in ToSet(cells)
  BY LenProperties DEF ToSet
<1>2. PICK books : /\ LoadFile(texts, cells) = books[Len(cells)]
                   /\ books[0] = {EmptyBook}
                   /\ \A i \in 1..Len(cells) : books[i] = Taken(books[i - 1], cells[i], texts[cells[i]])
  BY LoadRun
<1>3. ASSUME NEW n \in 0..N, NEW p \in books[n] PROVE \E t, f : Loaded(p, texts, cells, n, t, f)
  <2>1. \A c \in ToSet(cells) : texts[c] \in Text
    OBVIOUS
  <2> QED
    BY <1>2, <1>3, <2>1, LoadSteps
<1> HIDE DEF N
<1> DEFINE Some(n) == n <= N => books[n] # {}
           S == {n \in Nat : Some(n)}
<1>4. 0 \in S
  BY <1>2
<1>5. ASSUME NEW n \in Nat, n + 1 <= N, NEW p \in books[n] PROVE books[n + 1] # {}
  <2> DEFINE c == cells[n + 1]
             text == texts[c]
  <2>1. n \in 0..N /\ n + 1 \in 1..N /\ (n + 1) - 1 = n
    BY <1>1, <1>5
  <2>2. c \in Cell /\ c \in ToSet(cells)
    BY <1>1, <2>1
  <2> HIDE DEF c
  <2>3. text \in Text /\ text \notin Malformed \cup Misnamed \cup {Empty} /\ Mentions(text) \subseteq e[c]
    BY <2>2
  <2>4. PICK t, f : Loaded(p, texts, cells, n, t, f)
    BY <1>3, <1>5, <2>1
  <2>5. /\ p = BookOf(t, f) /\ Fits(t, f) /\ t \in Sheets /\ f \in Links
        /\ DOMAIN t = {cells[i] : i \in 1..n} /\ \A d \in DOMAIN t : t[d].content = texts[d]
    BY <2>4 DEF Loaded, Fits
  <2>6. \A d \in DOMAIN t : d \in ToSet(cells)
    <3>1. \A i \in 1..n : i \in 1..N
      BY <1>1, <2>1
    <3> QED
      BY <1>1, <2>5, <3>1
  <2>7. ASSUME NEW d \in Cell PROVE f[d] \subseteq e[d]
    <3>1. CASE d \in DOMAIN t
      <4>1. texts[d] # Empty /\ Mentions(texts[d]) \subseteq e[d] /\ t[d].content = texts[d]
        BY <2>5, <2>6, <3>1
      <4>2. f[d] = Names(t, d)
        BY <2>5, <4>1 DEF Fits, Emptied
      <4> QED
        BY <2>5, <3>1, <4>1, <4>2, NamesAre
    <3>2. CASE d \notin DOMAIN t
      BY <2>5, <3>2 DEF Fits
    <3> QED
      BY <3>1, <3>2
  <2>8. \A d \in Cell : Linked(f, c, text)[d] \subseteq e[d]
    BY <2>2, <2>3, <2>5, <2>7 DEF Linked, Links
  <2>9. OpenAt(DependentsOf(Linked(f, c, text)), c)
    <3>1. \A d \in Cell : DependentsOf(Linked(f, c, text))[d] \subseteq DependentsOf(e)[d]
      BY <2>8 DEF DependentsOf
    <3>2. PICK C \in SUBSET Cell : DependentsOf(e)[c] \subseteq C /\ Closed(DependentsOf(e), C) /\ c \notin C
      BY <2>2 DEF AllOpen, OpenAt
    <3> QED
      BY <2>2, <3>1, <3>2 DEF OpenAt, Closed
  <2> HIDE DEF text
  <2>10. PICK o : o \in SetContentsOfCell(BookOf(t, f), c, text)
    BY <2>2, <2>3, <2>5, SomeOutcome
  <2>11. /\ o.refused \in BOOLEAN /\ o.raised \in BOOLEAN
         /\ o.raised => text \in Misnamed \/ \E d \in DOMAIN t : t[d].content \in Misnamed
         /\ o.refused /\ ~o.raised => text \in Malformed \/ ~OpenAt(DependentsOf(Linked(f, c, text)), c)
    <3>1. text \in Text
      BY <2>3
    <3>2. /\ o.refused \in BOOLEAN /\ o.raised \in BOOLEAN
          /\ \E u, next :
               /\ o.raised => text \in Misnamed \/ \E d \in DOMAIN t : t[d].content \in Misnamed
               /\ o.refused /\ ~o.raised =>
                    text \in Malformed \/ ~OpenAt(DependentsOf(Linked(f, c, text)), c)
      BY <2>2, <2>5, <2>10, <3>1, Set
    <3> QED
      BY <3>2
  <2>12. \A d \in DOMAIN t : t[d].content \notin Misnamed
    BY <2>5, <2>6
  <2>13. ~o.refused
    BY <2>3, <2>9, <2>11, <2>12
  <2>14. books[n + 1] = Taken(books[n], c, text)
    BY <1>2, <2>1 DEF N, c, text
  <2>15. o.book \in Taken(books[n], c, text)
    BY <1>5, <2>5, <2>10, <2>13 DEF Taken
  <2> QED
    BY <2>14, <2>15
<1>6. ASSUME NEW n \in S PROVE n + 1 \in S
  <2>1. n + 1 <= N => n <= N /\ books[n] # {}
    BY <1>1
  <2> QED
    BY <1>5, <2>1
<1>7. S = Nat
  <2>1. S \in SUBSET Nat
    OBVIOUS
  <2> HIDE DEF S
  <2> QED
    BY <1>4, <1>6, <2>1, NatSet
<1>8. N \in S
  <2> HIDE DEF S
  <2> QED
    BY <1>1, <1>7
<1>9. books[N] # {}
  BY <1>1, <1>8
<1> QED
  BY <1>2, <1>9 DEF N

-----------------------------------------------------------------------------
(* The inductive invariant.                                                *)

IsBook(b) == \E t, e : b = BookOf(t, e) /\ Fits(t, e)

\* The two books fit, and as long as nothing has failed, their values are
\* fresh and the grid has those of the window.
Sound ==
  /\ IsBook(book)
  /\ opened = <<>> \/ \E b : opened = <<b>> /\ IsBook(b)
  /\ panel \in [Cell -> Value \ {Null}] /\ updates \in 0..MaxUpdates /\ failed \in BOOLEAN
  /\ ~failed => /\ Fresh(sheet) /\ Fresh(window.sheet)
                /\ \A c \in Cell : panel[c] = GetCellValue(window.sheet, c)

LEMMA BookIs ==
  ASSUME NEW t, NEW e
  PROVE  BookOf(t, e).sheet = t /\ BookOf(t, e).graph = GraphOf(e) /\ BookOf(t, e).graph.dependees = e
  BY DEF BookOf, GraphOf

LEMMA BookSame ==
  ASSUME NEW t, NEW e, NEW u, NEW f, BookOf(t, e) = BookOf(u, f)
  PROVE  t = u /\ e = f
<1>1. BookOf(t, e).sheet = BookOf(u, f).sheet /\ BookOf(t, e).graph.dependees = BookOf(u, f).graph.dependees
  OBVIOUS
<1> QED
  BY <1>1, BookIs

LEMMA OutcomeRecord ==
  ASSUME NEW b, NEW c, NEW text, NEW o \in SetContentsOfCell(b, c, text)
  PROVE  o = [book |-> o.book, refused |-> o.refused, raised |-> o.raised, cells |-> o.cells]
<1>1. \A s, g : \A p \in Recalculated(s, g, c) :
        p = [book |-> p.book, refused |-> p.refused, raised |-> p.raised, cells |-> p.cells]
  BY DEF Recalculated
<1>2. \A q : LET p == Refused(q) IN
        p = [book |-> p.book, refused |-> p.refused, raised |-> p.raised, cells |-> p.cells]
  BY DEF Refused
<1>3. CASE o \in SetToFormula(b, c, text)
  <2>1. \/ o = Refused(b)
        \/ \E q : o = Refused(q)
        \/ \E g : o \in Recalculated(SetCellHelper(b.sheet, c, text), g, c)
    BY <1>3 DEF SetToFormula
  <2> QED
    BY <1>1, <1>2, <2>1
<1>4. CASE o \in SetToEmpty(b, c)
  BY <1>4 DEF SetToEmpty
<1>5. CASE o \in SetToConstant(b, c, text)
  <2>1. \E g : o \in Recalculated(SetCellHelper(b.sheet, c, text), g, c)
    BY <1>5 DEF SetToConstant
  <2> QED
    BY <1>1, <2>1
<1> QED
  BY <1>3, <1>4, <1>5 DEF SetContentsOfCell

LEMMA ValueIs ==
  ASSUME NEW t \in Sheets, NEW c
  PROVE  /\ GetCellValue(t, c) \in Value
         /\ (\A d \in DOMAIN t : t[d].value # Null) => GetCellValue(t, c) # Null
<1>1. t \in [DOMAIN t -> [content : Text, value : Value]]
  BY SheetIs
<1>2. Empty \in Value /\ Empty # Null
  BY TextAssumption DEF Value
<1> QED
  BY <1>1, <1>2 DEF GetCellValue

\* The grid never shows a value that was not calculated, and shows those of
\* the cells that are drawn when they all were.
LEMMA Drawn ==
  ASSUME panel \in [Cell -> Value \ {Null}], NEW t \in Sheets, NEW cells \in Seq(Cell), NEW c
  PROVE  /\ SetPanelValues(t, cells, c) \in [Cell -> Value \ {Null}]
         /\ Fresh(t) => \A n \in Cell :
              SetPanelValues(t, cells, c)[n] = IF n \in ToSet(cells) THEN GetCellValue(t, n) ELSE panel[n]
<1> DEFINE Drawable(i) == \A j \in 1..i : GetCellValue(t, cells[j]) # Null
           Has(n) == \E i \in DOMAIN cells : cells[i] = n /\ Drawable(i)
           p == SetPanelValues(t, cells, c)
<1>1. p = [n \in Cell |-> IF Has(n) THEN GetCellValue(t, n) ELSE panel[n]]
  BY DEF SetPanelValues
<1>2. DOMAIN cells = 1..Len(cells) /\ Len(cells) \in Nat
  BY LenProperties
<1>3. ASSUME NEW n \in Cell, Has(n) PROVE GetCellValue(t, n) \in Value \ {Null}
  <2>1. PICK i \in DOMAIN cells : cells[i] = n /\ Drawable(i)
    BY <1>3
  <2>2. i \in 1..i
    BY <1>2, <2>1
  <2> QED
    BY <2>1, <2>2, ValueIs
<1>4. ASSUME Fresh(t), NEW n \in Cell PROVE Has(n) <=> n \in ToSet(cells)
  <2>1. \A m : GetCellValue(t, m) # Null
    BY <1>4, ValueIs DEF Fresh
  <2> QED
    BY <2>1 DEF ToSet
<1> HIDE DEF Has, p
<1> QED
  BY <1>1, <1>3, <1>4 DEF p

\* The window ends with a book that fits, and has refused the text or set it.
LEMMA Changed ==
  ASSUME NEW s, NEW e, Fits(s, e), NEW c \in Cell, NEW text \in Text,
         NEW r \in ServerChangeTextBoxes(BookOf(s, e), c, text)
  PROVE  /\ IsBook(r.book) /\ r.refused \in BOOLEAN /\ r.cells \in Seq(Cell)
         /\ \/ r.refused /\ \E o \in SetContentsOfCell(BookOf(s, e), c, text) : o.refused
            \/ ~r.refused /\ r \in SetContentsOfCell(BookOf(s, e), c, text)
<1> DEFINE content == GetCellContents(s, c)
           old == IF content \in Formula THEN Unsigned[content] ELSE content
           Redo(o) == {[q EXCEPT !.refused = TRUE, !.cells = <<>>] : q \in SetContentsOfCell(o.book, c, old)}
<1>0. IsFiniteSet(Cell)
  BY SheetAssumption
<1>1. PICK o \in SetContentsOfCell(BookOf(s, e), c, text) : r \in IF ~o.refused THEN {o} ELSE Redo(o)
  <2>1. BookOf(s, e).sheet = s
    BY BookIs
  <2>2. r \in UNION {IF ~o.refused THEN {o} ELSE Redo(o) : o \in SetContentsOfCell(BookOf(s, e), c, text)}
    BY <2>1, Zenon DEF ServerChangeTextBoxes
  <2> HIDE DEF Redo
  <2> QED
    BY <2>2
<1>2. /\ o.refused \in BOOLEAN
      /\ \E t, next : /\ o.book = BookOf(t, next) /\ Fits(t, next)
                      /\ ~o.refused => Became(s, e, c, text, o, t, next)
  BY <1>0, Set
<1>3. CASE ~o.refused
  <2>1. r = o
    BY <1>1, <1>3
  <2>2. r.cells \in Seq(Cell)
    BY <1>2, <1>3, <2>1 DEF Became
  <2> QED
    BY <1>2, <1>3, <2>1, <2>2 DEF IsBook
<1>4. CASE o.refused
  <2>1. old \in Text
    <3>1. content \in Text
      <4>1. s \in [DOMAIN s -> [content : Text, value : Value]]
        BY SheetIs DEF Fits
      <4> QED
        BY <4>1 DEF GetCellContents, Text
    <3>2. content \in Formula => Unsigned[content] \in Word
      BY TextAssumption
    <3> QED
      BY <3>1, <3>2 DEF Text
  <2> HIDE DEF old
  <2>2. PICK q \in SetContentsOfCell(o.book, c, old) : r = [q EXCEPT !.refused = TRUE, !.cells = <<>>]
    BY <1>1, <1>4
  <2>3. PICK t, next : o.book = BookOf(t, next) /\ Fits(t, next)
    BY <1>2
  <2>4. IsBook(q.book)
    BY <1>0, <2>1, <2>2, <2>3, Set DEF IsBook
  <2>5. q = [book |-> q.book, refused |-> q.refused, raised |-> q.raised, cells |-> q.cells]
    BY <2>2, OutcomeRecord
  <2>6. r.book = q.book /\ r.refused = TRUE /\ r.cells = << >>
    BY <2>2, <2>5
  <2>7. << >> \in Seq(Cell)
    OBVIOUS
  <2> QED
    BY <1>1, <1>4, <2>4, <2>6, <2>7
<1> QED
  BY <1>2, <1>3, <1>4

LEMMA SoundInit == Init => Sound
<1> SUFFICES ASSUME Init PROVE Sound
  OBVIOUS
<1> DEFINE none == [c \in {} |-> Empty]
<1>0. IsFiniteSet(Cell) /\ MaxUpdates \in Nat /\ Empty # Null /\ Empty \in Value
  BY SheetAssumption, TextAssumption DEF Value
<1>1. EmptyBook = BookOf(none, NoLinks) /\ Fits(none, NoLinks)
  BY <1>0, NothingFits
<1>2. sheet = none /\ dGraph = GraphOf(NoLinks)
  BY <1>1, BookIs DEF Init
<1>3. DOMAIN none = {}
  OBVIOUS
<1> HIDE DEF none
<1>4. IsBook(book)
  BY <1>1, <1>2 DEF book, BookOf, IsBook
<1>5. Fresh(sheet) /\ window.sheet = sheet /\ \A c \in Cell : GetCellValue(sheet, c) = Empty
  BY <1>2, <1>3 DEF Fresh, window, book, GetCellValue, Init
<1>6. panel \in [Cell -> Value \ {Null}] /\ updates \in 0..MaxUpdates /\ failed \in BOOLEAN /\ opened = <<>>
  <2>1. panel = [c \in Cell |-> Empty] /\ updates = 0 /\ failed = FALSE /\ opened = <<>>
    BY DEF Init
  <2>2. [c \in Cell |-> Empty] \in [Cell -> Value \ {Null}]
    BY <1>0
  <2>3. 0 \in 0..MaxUpdates
    BY <1>0
  <2> QED
    BY <2>1, <2>2, <2>3
<1>7. \A c \in Cell : panel[c] = Empty
  BY DEF Init
<1> QED
  BY <1>4, <1>5, <1>6, <1>7 DEF Sound

\* The text is set twice in one Spreadsheet, or once in each of two.
LEMMA UpdatedSound ==
  ASSUME Sound, NEW c \in Cell, NEW text \in Text, CellUpdated(c, text)
  PROVE  Sound'
<1>0. IsFiniteSet(Cell) /\ MaxUpdates \in Nat
  BY SheetAssumption
<1>1. PICK s, e : book = BookOf(s, e) /\ Fits(s, e)
  BY DEF Sound, IsBook
<1>2. s = sheet /\ window = IF opened = <<>> THEN book ELSE opened[1]
  BY <1>1, BookIs DEF book, window
<1>3. PICK first \in SetContentsOfCell(book, c, text) :
        /\ ~first.refused
        /\ \E second \in ServerChangeTextBoxes(IF opened = <<>> THEN first.book ELSE window, c, text) :
             LET kept == IF opened = <<>> THEN second.book ELSE first.book
             IN /\ sheet' = kept.sheet /\ dGraph' = kept.graph
                /\ opened' = IF opened = <<>> THEN <<>> ELSE <<second.book>>
                /\ panel' = SetPanelValues(second.book.sheet, second.cells, c)
                /\ failed' = (failed \/ second.refused)
  BY DEF CellUpdated
<1>4. PICK t, next : first.book = BookOf(t, next) /\ Fits(t, next) /\ Became(s, e, c, text, first, t, next)
  BY <1>0, <1>1, <1>3, Set
<1>5. Fresh(s) => Fresh(t)
  BY <1>0, <1>1, <1>4, StaysFresh
<1>6. updates' \in 0..MaxUpdates
  BY <1>0 DEF CellUpdated, Bounded, Counted, Sound
<1>7. panel \in [Cell -> Value \ {Null}] /\ failed \in BOOLEAN
  BY DEF Sound
<1>8. CASE opened = <<>>
  <2>1. PICK second \in ServerChangeTextBoxes(BookOf(t, next), c, text) :
          /\ sheet' = second.book.sheet /\ dGraph' = second.book.graph /\ opened' = <<>>
          /\ panel' = SetPanelValues(second.book.sheet, second.cells, c)
          /\ failed' = (failed \/ second.refused)
    BY <1>3, <1>4, <1>8
  <2>2. ~second.refused /\ second \in SetContentsOfCell(BookOf(t, next), c, text)
    BY <1>0, <1>1, <1>4, Changed, SetAgain
  <2>3. second.book = BookOf(t, next)
    BY <1>0, <1>1, <1>4, <2>2, SetAgain
  <2>4. PICK t2, next2 : /\ second.book = BookOf(t2, next2)
                         /\ Became(t, next, c, text, second, t2, next2)
    BY <1>0, <1>4, <2>2, Set
  <2>5. t2 = t /\ next2 = next
    BY <2>3, <2>4, BookSame
  <2>6. second.cells \in Seq(Cell) /\ Reach(t, next, c, ToSet(second.cells))
    BY <2>4, <2>5 DEF Became
  <2>7. /\ DOMAIN t = DOMAIN s \cup {c} /\ Reach(t, next, c, ToSet(first.cells))
        /\ \A d \in DOMAIN s \ ToSet(first.cells) : t[d] = s[d]
    BY <1>4 DEF Became
  <2>8. t \in Sheets /\ DOMAIN t \in SUBSET Cell
    BY <1>4, SheetIs DEF Fits
  <2>9. ToSet(first.cells) \subseteq ToSet(second.cells) /\ c \in ToSet(second.cells)
    BY <2>6, <2>7, <2>8 DEF Reach
  <2>10. sheet' = t /\ dGraph' = GraphOf(next) /\ panel' = SetPanelValues(t, second.cells, c)
    BY <2>1, <2>3, BookIs
  <2>11. book' = BookOf(t, next) /\ window' = book' /\ window'.sheet = t
    BY <2>1, <2>10 DEF book, window, BookOf
  <2>12. panel' \in [Cell -> Value \ {Null}]
    BY <1>7, <2>6, <2>8, <2>10, Drawn
  <2>13. ASSUME ~failed'
         PROVE  Fresh(t) /\ \A n \in Cell : panel'[n] = GetCellValue(t, n)
    <3>1. Fresh(s) /\ \A n \in Cell : panel[n] = GetCellValue(s, n)
      BY <1>2, <1>8, <2>1, <2>13 DEF Sound, book
    <3>2. Fresh(t)
      BY <1>5, <3>1
    <3>3. ASSUME NEW n \in Cell \ ToSet(second.cells) PROVE GetCellValue(t, n) = GetCellValue(s, n)
      BY <2>7, <2>9 DEF GetCellValue
    <3>4. \A n \in Cell : panel'[n] = IF n \in ToSet(second.cells) THEN GetCellValue(t, n) ELSE panel[n]
      BY <1>7, <2>6, <2>8, <2>10, <3>2, Drawn
    <3> QED
      BY <3>1, <3>2, <3>3, <3>4
  <2>14. failed' \in BOOLEAN /\ IsBook(book') /\ opened' = <<>>
    BY <1>4, <1>7, <2>1, <2>2, <2>11 DEF IsBook
  <2> QED
    BY <1>6, <2>10, <2>11, <2>12, <2>13, <2>14 DEF Sound
<1>9. CASE opened # <<>>
  <2>1. PICK b : opened = <<b>> /\ IsBook(b)
    BY <1>9 DEF Sound
  <2>2. window = b
    BY <1>2, <1>9, <2>1
  <2>3. PICK w, v : b = BookOf(w, v) /\ Fits(w, v)
    BY <2>1 DEF IsBook
  <2>4. PICK second \in ServerChangeTextBoxes(BookOf(w, v), c, text) :
          /\ sheet' = first.book.sheet /\ dGraph' = first.book.graph /\ opened' = <<second.book>>
          /\ panel' = SetPanelValues(second.book.sheet, second.cells, c)
          /\ failed' = (failed \/ second.refused)
    BY <1>3, <1>9, <2>2, <2>3
  <2>5. /\ IsBook(second.book) /\ second.refused \in BOOLEAN /\ second.cells \in Seq(Cell)
        /\ ~second.refused => second \in SetContentsOfCell(BookOf(w, v), c, text)
    BY <2>3, Changed
  <2>6. PICK u, x : second.book = BookOf(u, x) /\ Fits(u, x)
    BY <2>5 DEF IsBook
  <2>7. u \in Sheets /\ second.book.sheet = u
    BY <2>6, BookIs DEF Fits
  <2>8. sheet' = t /\ dGraph' = GraphOf(next)
    BY <1>4, <2>4, BookIs
  <2>9. book' = BookOf(t, next) /\ opened' # <<>> /\ window' = second.book /\ window'.sheet = u
    BY <2>4, <2>7, <2>8 DEF book, window, BookOf
  <2>10. panel' \in [Cell -> Value \ {Null}]
    BY <1>7, <2>4, <2>5, <2>7, Drawn
  <2>11. ASSUME ~failed'
         PROVE  Fresh(t) /\ Fresh(u) /\ \A n \in Cell : panel'[n] = GetCellValue(u, n)
    <3>1. Fresh(s) /\ Fresh(w) /\ (\A n \in Cell : panel[n] = GetCellValue(w, n)) /\ ~second.refused
      <4>1. window.sheet = w /\ ~failed /\ ~second.refused
        BY <2>2, <2>3, <2>4, <2>11, BookIs
      <4> QED
        BY <1>2, <4>1 DEF Sound
    <3>2. second \in SetContentsOfCell(BookOf(w, v), c, text)
      BY <2>5, <3>1
    <3>3. PICK u2, x2 : /\ second.book = BookOf(u2, x2) /\ Fits(u2, x2)
                        /\ Became(w, v, c, text, second, u2, x2)
      BY <1>0, <2>3, <3>1, <3>2, Set
    <3>4. u2 = u
      BY <2>6, <3>3, BookSame
    <3>5. Fresh(u)
      BY <1>0, <2>3, <3>1, <3>3, <3>4, StaysFresh
    <3>6. /\ DOMAIN u = DOMAIN w \cup {c} /\ c \in ToSet(second.cells)
          /\ \A d \in DOMAIN w \ ToSet(second.cells) : u[d] = w[d]
      BY <3>3, <3>4 DEF Became, Reach
    <3>7. ASSUME NEW n \in Cell \ ToSet(second.cells) PROVE GetCellValue(u, n) = GetCellValue(w, n)
      BY <3>6 DEF GetCellValue
    <3>8. \A n \in Cell : panel'[n] = IF n \in ToSet(second.cells) THEN GetCellValue(u, n) ELSE panel[n]
      BY <1>7, <2>4, <2>5, <2>7, <3>5, Drawn
    <3> QED
      BY <1>5, <3>1, <3>5, <3>7, <3>8
  <2>12. failed' \in BOOLEAN /\ IsBook(book')
    BY <1>4, <1>7, <2>4, <2>5, <2>9 DEF IsBook
  <2> QED
    BY <1>6, <2>4, <2>5, <2>8, <2>9, <2>10, <2>11, <2>12 DEF Sound
<1> QED
  BY <1>8, <1>9

LEMMA DroppedSound ==
  ASSUME Sound, NEW c \in Cell, NEW text \in Text, UpdateDropped(c, text)
  PROVE  Sound'
<1>0. IsFiniteSet(Cell) /\ MaxUpdates \in Nat
  BY SheetAssumption
<1>1. PICK s, e : book = BookOf(s, e) /\ Fits(s, e)
  BY DEF Sound, IsBook
<1>2. s = sheet /\ dGraph = GraphOf(e)
  BY <1>1, BookIs DEF book
<1>3. PICK first \in SetContentsOfCell(BookOf(s, e), c, text) :
        /\ first.refused /\ sheet' = first.book.sheet /\ dGraph' = first.book.graph
        /\ failed' = (failed \/ first.raised)
  BY <1>1 DEF UpdateDropped
<1>4. /\ first.raised \in BOOLEAN
      /\ \E t, next : /\ first.book = BookOf(t, next) /\ Fits(t, next)
                      /\ ~first.raised => t = s /\ next = e
  BY <1>0, <1>1, <1>3, Set
<1>5. PICK t, next : /\ first.book = BookOf(t, next) /\ Fits(t, next)
                     /\ ~first.raised => t = s /\ next = e
  BY <1>4
<1>6. sheet' = t /\ dGraph' = GraphOf(next) /\ opened' = opened /\ panel' = panel
  BY <1>3, <1>5, BookIs DEF UpdateDropped
<1>7. book' = BookOf(t, next) /\ IsBook(book')
  BY <1>5, <1>6 DEF book, BookOf, IsBook
<1>8. updates' \in 0..MaxUpdates
  BY <1>0 DEF UpdateDropped, Bounded, Counted, Sound
<1>9. failed' \in BOOLEAN
  BY <1>3, <1>4 DEF Sound
<1>10. ASSUME ~failed'
       PROVE  /\ Fresh(sheet') /\ Fresh(window'.sheet)
              /\ \A n \in Cell : panel'[n] = GetCellValue(window'.sheet, n)
  <2>1. ~failed /\ t = s /\ next = e
    BY <1>3, <1>5, <1>10
  <2>2. sheet' = sheet /\ window' = window
    BY <1>2, <1>6, <2>1 DEF book, window
  <2> QED
    BY <1>6, <2>1, <2>2 DEF Sound
<1> QED
  BY <1>6, <1>7, <1>8, <1>9, <1>10 DEF Sound

LEMMA OpenedSound ==
  ASSUME Sound, NEW texts \in File, OpenFile(texts)
  PROVE  Sound'
<1>0. /\ IsFiniteSet(Cell) /\ DOMAIN texts \in SUBSET Cell
      /\ \A c \in DOMAIN texts : texts[c] \in Text
  BY SheetAssumption
<1>1. PICK s, e : book = BookOf(s, e) /\ Fits(s, e)
  BY DEF Sound, IsBook
<1>2. s = sheet /\ s \in Sheets /\ DOMAIN s \in SUBSET Cell
  BY <1>1, BookIs, SheetIs DEF book, Fits
<1>3. PICK order \in SetToSeqs(DOMAIN texts) : \E b \in LoadFile(texts, order) :
        /\ opened' = <<b>>
        /\ panel' = SetPanelValues(b.sheet, SetToSeq(DOMAIN sheet) \o order, order)
  BY DEF OpenFile
<1>4. PICK b \in LoadFile(texts, order) :
        /\ opened' = <<b>>
        /\ panel' = SetPanelValues(b.sheet, SetToSeq(DOMAIN sheet) \o order, order)
  BY <1>3
<1>5. order \in Seq(Cell) /\ ToSet(order) = DOMAIN texts
  BY <1>0, <1>3, OrderIs, FS_Subset
<1>6. PICK t, next : b = BookOf(t, next) /\ Fits(t, next) /\ Fresh(t) /\ DOMAIN t = ToSet(order)
  BY <1>0, <1>5, LoadIs
<1> DEFINE before == SetToSeq(DOMAIN s)
           cells  == before \o order
<1>7. before \in Seq(Cell) /\ ToSet(before) = DOMAIN s
  BY <1>0, <1>2, OrderIs, FS_Subset
<1> HIDE DEF before
<1>8. cells \in Seq(Cell) /\ ToSet(cells) = DOMAIN s \cup DOMAIN t
  BY <1>5, <1>6, <1>7, Joined
<1>9. t \in Sheets /\ b.sheet = t
  BY <1>6, BookIs DEF Fits
<1>10. panel' = SetPanelValues(t, cells, order)
  BY <1>2, <1>4, <1>9 DEF before
<1> HIDE DEF cells
<1>11. panel' \in [Cell -> Value \ {Null}]
  BY <1>8, <1>9, <1>10, Drawn DEF Sound
<1>12. sheet' = sheet /\ dGraph' = dGraph /\ updates' = updates /\ failed' = failed /\ opened = <<>>
  BY DEF OpenFile
<1>13. book' = book /\ opened' # <<>> /\ window' = b /\ window'.sheet = t /\ window = book
  BY <1>4, <1>9, <1>12 DEF book, window
<1>14. ASSUME ~failed PROVE \A n \in Cell : panel'[n] = GetCellValue(t, n)
  <2>1. \A n \in Cell : panel'[n] = IF n \in ToSet(cells) THEN GetCellValue(t, n) ELSE panel[n]
    BY <1>6, <1>8, <1>9, <1>10, Drawn DEF Sound
  <2>2. \A n \in Cell : panel[n] = GetCellValue(s, n)
    BY <1>1, <1>13, <1>14, BookIs DEF Sound
  <2>3. ASSUME NEW n \in Cell \ ToSet(cells) PROVE GetCellValue(t, n) = GetCellValue(s, n)
    BY <1>8 DEF GetCellValue
  <2> QED
    BY <2>1, <2>2, <2>3
<1> QED
  BY <1>4, <1>6, <1>11, <1>12, <1>13, <1>14 DEF Sound, IsBook

LEMMA SoundNext == Sound /\ [Next]_vars => Sound'
<1> SUFFICES ASSUME Sound, [Next]_vars PROVE Sound'
  OBVIOUS
<1>1. CASE \E c \in Cell, text \in Text : CellUpdated(c, text) \/ UpdateDropped(c, text)
  BY <1>1, UpdatedSound, DroppedSound
<1>2. CASE \E texts \in File : OpenFile(texts)
  BY <1>2, OpenedSound
<1>3. CASE UNCHANGED vars
  BY <1>3 DEF vars, Sound, book, window
<1> QED
  BY <1>1, <1>2, <1>3 DEF Next

LEMMA SoundAlways == Spec => []Sound
  BY SoundInit, SoundNext, PTL DEF Spec

-----------------------------------------------------------------------------
(* The theorems.                                                           *)

LEMMA BothBooks ==
  ASSUME Sound, NEW b \in {book, window}
  PROVE  \E s, e : /\ b = BookOf(s, e) /\ b.sheet = s /\ b.graph = GraphOf(e) /\ b.graph.dependees = e
                   /\ Fits(s, e) /\ s \in Sheets /\ e \in Links /\ DOMAIN s \in SUBSET Cell
                   /\ ~failed => Fresh(s)
<1>1. CASE b = book
  <2>1. PICK s, e : book = BookOf(s, e) /\ Fits(s, e)
    BY DEF Sound, IsBook
  <2>2. s = sheet /\ s \in Sheets /\ e \in Links /\ DOMAIN s \in SUBSET Cell
    BY <2>1, BookIs, SheetIs DEF book, Fits
  <2> QED
    BY <1>1, <2>1, <2>2, BookIs DEF Sound
<1>2. CASE b = window
  <2>1. IsBook(window)
    BY DEF Sound, window
  <2>2. PICK s, e : window = BookOf(s, e) /\ Fits(s, e)
    BY <2>1 DEF IsBook
  <2>3. s = window.sheet /\ s \in Sheets /\ e \in Links /\ DOMAIN s \in SUBSET Cell
    BY <2>2, BookIs, SheetIs DEF Fits
  <2> QED
    BY <1>2, <2>2, <2>3, BookIs DEF Sound
<1> QED
  BY <1>1, <1>2

\* The dictionary and the graph of the connection's Spreadsheet and of the
\* window's have the types that their operations expect, and the grid shows no
\* value that was never calculated, in however many cells, after any updates,
\* refusals and opened files.
THEOREM SheetTypes == Spec => []TypeOK
<1>1. ASSUME Sound PROVE TypeOK
  <2>1. ASSUME NEW b \in {book, window}
        PROVE  /\ DOMAIN b.sheet \subseteq Cell
               /\ \A c \in DOMAIN b.sheet : b.sheet[c].content \in Text /\ b.sheet[c].value \in Value
               /\ b.graph \in DG!Graph
    <3>1. PICK s, e : /\ b.sheet = s /\ b.graph = GraphOf(e) /\ s \in Sheets /\ e \in Links
      BY <1>1, BothBooks
    <3>2. DOMAIN s \in SUBSET Cell /\ s \in [DOMAIN s -> [content : Text, value : Value]]
      BY <3>1, SheetIs
    <3>3. GraphOf(e) \in DG!Graph
      BY <3>1, GraphOfType, SheetAssumption
    <3> QED
      BY <3>1, <3>2, <3>3
  <2>2. Len(opened) \in {0, 1}
    <3>1. CASE opened = <<>>
      BY <3>1
    <3>2. CASE \E b : opened = <<b>>
      <4>1. PICK b : opened = <<b>>
        BY <3>2
      <4> QED
        BY <4>1
    <3> QED
      BY <1>1, <3>1, <3>2 DEF Sound
  <2> QED
    BY <1>1, <2>1, <2>2 DEF Sound, TypeOK
<1> QED
  BY <1>1, SoundAlways, PTL

\* In every Spreadsheet each cell that is not emptied has in the graph exactly
\* the dependees of its formula, forwards and backwards, and each name with
\* dependees is a key of the dictionary: also after a refused formula was
\* rolled back, an evaluation threw, or the window alone refused a text.
THEOREM GraphKnows == Spec => []GraphKnowsSheet
<1>1. ASSUME Sound PROVE GraphKnowsSheet
  <2> SUFFICES ASSUME NEW b \in {book, window}, NEW c \in Cell
               PROVE  /\ ~Emptied(b.sheet, c) => b.graph.dependees[c] = Names(b.sheet, c)
                      /\ \A d \in Cell : d \in b.graph.dependents[c] <=> c \in b.graph.dependees[d]
                      /\ b.graph.dependees[c] # {} => c \in DOMAIN b.sheet
    BY DEF GraphKnowsSheet
  <2>1. PICK s, e : /\ b.sheet = s /\ b.graph = GraphOf(e) /\ b.graph.dependees = e /\ Fits(s, e)
    BY <1>1, BothBooks
  <2>2. \A d \in Cell : d \in GraphOf(e).dependents[c] <=> c \in e[d]
    BY DEF GraphOf
  <2> QED
    BY <2>1, <2>2 DEF Fits
<1> QED
  BY <1>1, SoundAlways, PTL

\* No Spreadsheet ever holds formulas that close a cycle, and no walk of
\* Visit comes back to where it started, in however many cells and whatever
\* texts were set, emptied, refused or loaded before.
THEOREM SheetsOpen == Spec => []SheetStaysOpen
<1>1. ASSUME Sound PROVE SheetStaysOpen
  <2> SUFFICES ASSUME NEW b \in {book, window}, NEW c \in Cell
               PROVE  ~Closes(b.sheet, c) /\ ~Circular(b.graph, c)
    BY DEF SheetStaysOpen
  <2>1. PICK s, e : /\ b.sheet = s /\ b.graph = GraphOf(e) /\ Fits(s, e) /\ s \in Sheets /\ e \in Links
    BY <1>1, BothBooks
  <2>2. OpenAt(DependentsOf(e), c)
    BY <2>1 DEF Fits, AllOpen
  <2>3. GraphOf(e).dependents = DependentsOf(e) /\ DependentsOf(e) \in Links
    BY DEF GraphOf, DependentsOf, Links
  <2>4. ~Circular(GraphOf(e), c)
    BY <2>2, <2>3, CircularIs, SheetAssumption
  <2>5. \A n \in Cell : Names(s, n) \in SUBSET Cell /\ Names(s, n) \subseteq e[n]
    BY <2>1, NamesAre DEF Fits
  <2>6. ~Closes(s, c)
    BY <2>1, <2>2, <2>5, ClosesIs
  <2> QED
    BY <2>1, <2>4, <2>6
<1> QED
  BY <1>1, SoundAlways, PTL

\* Until an evaluation throws, the value of every cell is the one its formula
\* has on the values of the cells it names, in whatever order the texts came
\* and Visit walked the graph, unless it names an emptied cell: the order of
\* recalculation is a topological one.
THEOREM ValuesCurrent == Spec => []ValuesAreCurrent
<1>1. ASSUME Sound PROVE ValuesAreCurrent
  <2> SUFFICES ASSUME ~failed, NEW b \in {book, window}, NEW c \in DOMAIN b.sheet,
                      \A v \in Names(b.sheet, c) : ~Emptied(b.sheet, v)
               PROVE  b.sheet[c].value = Computed(b.sheet, b.sheet[c].content)
    BY DEF ValuesAreCurrent
  <2>1. PICK s : b.sheet = s /\ Fresh(s)
    BY <1>1, BothBooks
  <2> QED
    BY <2>1 DEF Fresh
<1> QED
  BY <1>1, SoundAlways, PTL

\* Until an evaluation throws or the window alone refuses a text, the grid
\* shows the value that each cell has in the window's Spreadsheet, although the
\* cells to draw are asked for after their values may have changed.
THEOREM PanelCurrent == Spec => []PanelIsCurrent
<1>1. Sound => PanelIsCurrent
  BY DEF Sound, PanelIsCurrent
<1> QED
  BY <1>1, SoundAlways, PTL

\* A text that SetContentsOfCell refuses, unless an evaluation throws, leaves
\* the cells and the graph as they were; one that it takes can be set again,
\* and changes nothing then: on every sheet that can come up, for any texts.
THEOREM UpdatesAtomic == Spec => []UpdatesAreAtomic
<1>1. ASSUME Sound PROVE UpdatesAreAtomic
  <2> SUFFICES ASSUME NEW c \in Cell, NEW text \in Text, NEW o \in SetContentsOfCell(book, c, text)
               PROVE  IF o.raised THEN \E n \in ToSet(o.cells) : o.book.sheet[n].content \in Misnamed
                      ELSE IF o.refused THEN o.book = book
                      ELSE \A again \in SetContentsOfCell(o.book, c, text) :
                             ~again.refused /\ again.book = o.book
    BY DEF UpdatesAreAtomic
  <2>0. IsFiniteSet(Cell)
    BY SheetAssumption
  <2>1. PICK s, e : book = BookOf(s, e) /\ Fits(s, e)
    BY <1>1, BothBooks
  <2>2. /\ o.refused \in BOOLEAN /\ o.raised \in BOOLEAN /\ (o.raised => o.refused)
        /\ \E t, next :
             /\ o.book = BookOf(t, next) /\ Fits(t, next)
             /\ o.raised => \E n \in ToSet(o.cells) : t[n].content \in Misnamed
             /\ o.refused /\ ~o.raised => t = s /\ next = e
             /\ ~o.refused => Became(s, e, c, text, o, t, next)
    BY <2>0, <2>1, Set
  <2>3. PICK t, next :
          /\ o.book = BookOf(t, next) /\ Fits(t, next)
          /\ o.raised => \E n \in ToSet(o.cells) : t[n].content \in Misnamed
          /\ o.refused /\ ~o.raised => t = s /\ next = e
          /\ ~o.refused => Became(s, e, c, text, o, t, next)
    BY <2>2
  <2>4. CASE o.raised
    BY <2>3, <2>4, BookIs
  <2>5. CASE o.refused /\ ~o.raised
    BY <2>1, <2>3, <2>5
  <2>6. CASE ~o.refused /\ ~o.raised
    <3>1. \A again \in SetContentsOfCell(BookOf(t, next), c, text) :
            ~again.refused /\ again.book = BookOf(t, next)
      BY <2>0, <2>1, <2>3, <2>6, SetAgain
    <3> QED
      BY <2>3, <2>6, <3>1
  <2> QED
    BY <2>2, <2>4, <2>5, <2>6
<1> QED
  BY <1>1, SoundAlways, PTL

\* On every sheet that can come up, a formula that parses and is refused
\* without an exception of an evaluation would close a cycle of the formulas,
\* unless an emptied cell has left dependees in the graph.
THEOREM RefusalsCircular == Spec => []RefusalsAreCircular
<1>1. ASSUME Sound PROVE RefusalsAreCircular
  <2> SUFFICES ASSUME \A d \in Cell : Emptied(sheet, d) => dGraph.dependees[d] = {},
                      NEW c \in Cell, NEW text \in Formula \ Malformed,
                      NEW o \in SetContentsOfCell(book, c, text), o.refused, ~o.raised
               PROVE  Closes(SetCellHelper(sheet, c, text), c)
    BY DEF RefusalsAreCircular
  <2>0. IsFiniteSet(Cell) /\ text \in Text /\ text # Empty
    BY SheetAssumption, TextAssumption DEF Text
  <2>1. PICK s, e : book = BookOf(s, e) /\ Fits(s, e) /\ s \in Sheets /\ e \in Links
    BY <1>1, BothBooks
  <2>2. s = sheet /\ e = dGraph.dependees
    <3>1. book.sheet = s /\ book.graph.dependees = e
      BY <2>1, BookIs
    <3> QED
      BY <3>1 DEF book
  <2>3. ~OpenAt(DependentsOf(Linked(e, c, text)), c)
    BY <2>0, <2>1, Set
  <2> DEFINE t == SetCellHelper(s, c, text)
             next == Linked(e, c, text)
  <2>4. next \in Links /\ next[c] = Mentions(text) /\ \A d \in Cell \ {c} : next[d] = e[d]
    <3>1. Mentions(text) \in SUBSET Cell
      BY TextAssumption DEF Mentions
    <3> QED
      BY <2>1, <3>1 DEF Linked, Links
  <2>5. /\ t \in Sheets /\ DOMAIN t = DOMAIN s \cup {c} /\ t[c].content = text
        /\ \A d \in DOMAIN s \ {c} : t[d] = s[d]
    <3> HIDE DEF t
    <3>1. /\ SetCellHelper(s, c, text) \in Sheets
          /\ DOMAIN SetCellHelper(s, c, text) = DOMAIN s \cup {c}
          /\ SetCellHelper(s, c, text)[c].content = text
          /\ \A d \in DOMAIN s \ {c} : SetCellHelper(s, c, text)[d] = s[d]
      BY <2>0, <2>1, PutIs
    <3> QED
      BY <3>1 DEF t
  <2> HIDE DEF t, next
  <2>6. ASSUME NEW d \in Cell PROVE Names(t, d) = next[d] /\ Names(t, d) \in SUBSET Cell
    <3>1. CASE d = c
      BY <2>4, <2>5, <3>1, NamesAre
    <3>2. CASE d # c
      <4>1. Names(t, d) = Names(s, d) /\ Names(t, d) \in SUBSET Cell
        BY <2>1, <2>5, <3>2, NamesAre
      <4>2. Names(s, d) = e[d]
        <5>1. CASE Emptied(s, d)
          BY <2>1, <2>2, <5>1, NamesAre
        <5>2. CASE ~Emptied(s, d)
          BY <2>1, <5>2 DEF Fits
        <5> QED
          BY <5>1, <5>2
      <4> QED
        BY <2>4, <3>2, <4>1, <4>2
    <3> QED
      BY <3>1, <3>2
  <2>7. Closes(t, c)
    BY <2>3, <2>4, <2>6, ClosesIs DEF next
  <2> QED
    BY <2>2, <2>7 DEF t
<1> QED
  BY <1>1, SoundAlways, PTL

\* What Save writes of any window's sheet without a formula that cannot be
\* evaluated, LoadFile reads back in every order of the dictionary: no cell is
\* refused on the way, each text is back in its cell, no other cell has more than
\* white space, and all the values are current.
THEOREM FilesAgain == Spec => []FilesReopen
<1>1. ASSUME Sound PROVE FilesReopen
  <2> DEFINE s == window.sheet
             texts == SavedTexts(s)
  <2> SUFFICES ASSUME \A c \in DOMAIN s : s[c].content \notin Misnamed,
                      NEW order \in SetToSeqs(DOMAIN s)
               PROVE  /\ LoadFile(texts, order) # {}
                      /\ \A b \in LoadFile(texts, order), c \in Cell :
                           /\ GetCellContents(s, c) # Empty => GetCellContents(b.sheet, c) = GetCellContents(s, c)
                           /\ ~(GetCellContents(s, c) # Empty) => GetCellContents(b.sheet, c) \in {Empty, Whitespace}
                           /\ c \in DOMAIN b.sheet => b.sheet[c].value = Computed(b.sheet, b.sheet[c].content)
    BY DEF FilesReopen
  <2>1. PICK e : Fits(s, e) /\ s \in Sheets /\ e \in Links /\ DOMAIN s \in SUBSET Cell
    BY <1>1, BothBooks
  <2>2. AllOpen(DependentsOf(e)) /\ \A c \in Cell : ~Emptied(s, c) => e[c] = Names(s, c)
    BY <2>1 DEF Fits
  <2>3. IsFiniteSet(Cell) /\ IsFiniteSet(DOMAIN s)
    BY <2>1, SheetAssumption, FS_Subset
  <2>4. order \in Seq(Cell) /\ ToSet(order) = DOMAIN s
    BY <2>1, <2>3, OrderIs
  <2>5. /\ Whitespace \in Text /\ Whitespace # Empty /\ Whitespace \notin Formula
        /\ Malformed \cup Misnamed \subseteq Formula
    BY TextAssumption DEF Text
  <2>6. \A c \in DOMAIN s : texts[c] = IF Emptied(s, c) THEN Whitespace ELSE s[c].content
    BY DEF SavedTexts, SavedText, Emptied
  <2> HIDE DEF texts, s
  <2>7. ASSUME NEW c \in DOMAIN s
        PROVE  /\ texts[c] \in Text \ (Malformed \cup Misnamed \cup {Empty})
               /\ Mentions(texts[c]) \subseteq e[c]
    <3>1. c \in Cell /\ s[c].content \in Text
      BY <2>1, SheetIs
    <3>2. CASE Emptied(s, c)
      BY <2>5, <2>6, <3>2 DEF Mentions
    <3>3. CASE ~Emptied(s, c)
      <4>1. texts[c] = s[c].content /\ texts[c] # Empty
        BY <2>6, <3>3 DEF Emptied
      <4>2. e[c] = Mentions(texts[c])
        BY <2>1, <2>2, <3>1, <3>3, <4>1, NamesAre
      <4>3. texts[c] \notin Malformed
        BY <2>1, <4>1 DEF Fits
      <4> QED
        BY <3>1, <4>1, <4>2, <4>3
    <3> QED
      BY <3>2, <3>3
  <2>8. LoadFile(texts, order) # {}
    BY <2>1, <2>2, <2>3, <2>4, <2>7, LoadEnds
  <2>9. ASSUME NEW b \in LoadFile(texts, order)
        PROVE  /\ DOMAIN b.sheet = DOMAIN s
               /\ \A c \in DOMAIN b.sheet :
                    /\ b.sheet[c].content = texts[c]
                    /\ b.sheet[c].value = Computed(b.sheet, b.sheet[c].content)
    <3>1. \A c \in ToSet(order) : texts[c] \in Text
      BY <2>4, <2>7
    <3>2. PICK t, f : /\ b = BookOf(t, f) /\ Fits(t, f) /\ Fresh(t)
                      /\ DOMAIN t = ToSet(order) /\ \A c \in DOMAIN t : t[c].content = texts[c]
      BY <2>3, <2>4, <3>1, LoadIs
    <3>3. b.sheet = t
      BY <3>2, BookIs
    <3>4. \A c : ~Emptied(t, c)
      BY <2>4, <2>7, <3>2 DEF Emptied
    <3>5. \A c \in DOMAIN t : t[c].value = Computed(t, t[c].content)
      BY <3>2, <3>4 DEF Fresh
    <3> QED
      BY <2>4, <3>2, <3>3, <3>5
  <2>10. ASSUME NEW b \in LoadFile(texts, order), NEW c \in Cell
         PROVE  /\ GetCellContents(s, c) # Empty => GetCellContents(b.sheet, c) = GetCellContents(s, c)
                /\ ~(GetCellContents(s, c) # Empty) => GetCellContents(b.sheet, c) \in {Empty, Whitespace}
                /\ c \in DOMAIN b.sheet => b.sheet[c].value = Computed(b.sheet, b.sheet[c].content)
    <3>1. DOMAIN b.sheet = DOMAIN s
      BY <2>9
    <3>2. CASE c \in DOMAIN s
      <4>1. b.sheet[c].content = texts[c] /\ b.sheet[c].value = Computed(b.sheet, b.sheet[c].content)
        BY <2>9, <3>2
      <4>2. GetCellContents(b.sheet, c) = texts[c] /\ GetCellContents(s, c) = s[c].content
        BY <3>1, <3>2, <4>1 DEF GetCellContents
      <4>3. Emptied(s, c) <=> s[c].content = Empty
        BY <3>2 DEF Emptied
      <4> QED
        BY <2>6, <3>2, <4>1, <4>2, <4>3
    <3>3. CASE c \notin DOMAIN s
      BY <3>1, <3>3 DEF GetCellContents
    <3> QED
      BY <3>2, <3>3
  <2> QED
    BY <2>8, <2>10
<1> QED
  BY <1>1, SoundAlways, PTL

=============================================================================
