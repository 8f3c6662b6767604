-------------------------- MODULE CycleCheckProofs --------------------------
(***************************************************************************)
(* Proofs about CycleCheck, for any set of cells: visit returns, and what  *)
(* its three results say of the cells that a formula depends on.           *)
(*                                                                         *)
(* visit is a recursive function.  Each call adds a cell to `visited` that *)
(* was not there, and only stored cells have formulas, so the calls are    *)
(* counted down by a number.  That shows that the equation of visit has a  *)
(* solution, and is the induction for everything else.                     *)
(***************************************************************************)
EXTENDS CycleCheck, SheetProofs, FiniteSetTheorems

\* What visit returns, in any of its calls.
Results == {"throws", "circular", "acyclic"}

Calls == (SUBSET Cell) \X Cell

\* The names getDirectDependents finds for a cell.
Named(s, start, text, c) == ToSet(DirectDependents(s, start, text, c))

\* The calls that a call of visit can make.
Callees(s, start, text, call) ==
  {<<call[1] \cup {call[2]}, d>> :
     d \in Named(s, start, text, call[2]) \ (call[1] \cup {call[2]})}

-----------------------------------------------------------------------------
(* One call of visit.                                                      *)

LEMMA DependentsType ==
  ASSUME NEW s \in Sheet, NEW start \in Cell, NEW text \in Formula, NEW c \in Cell
  PROVE  /\ DirectDependents(s, start, text, c) \in Seq(Cell)
         /\ Named(s, start, text, c) \subseteq Cell
         /\ c # start /\ c \notin DOMAIN s => Named(s, start, text, c) = {}
<1>1. DirectDependents(s, start, text, c) \in Seq(Cell)
  <2>1. Vars[text] \in Seq(Cell)
    BY ContentAssumption
  <2>2. ASSUME c \in DOMAIN s, s[c].content \in Formula PROVE Vars[s[c].content] \in Seq(Cell)
    BY <2>2, ContentAssumption
  <2> QED
    BY <2>1, <2>2 DEF DirectDependents
<1>2. Named(s, start, text, c) \subseteq Cell
  BY <1>1 DEF Named, ToSet
<1>3. ASSUME c # start, c \notin DOMAIN s PROVE Named(s, start, text, c) = {}
  <2>1. DirectDependents(s, start, text, c) = << >>
    BY <1>3 DEF DirectDependents
  <2> QED
    BY <2>1 DEF Named, ToSet
<1> QED
  BY <1>1, <1>2, <1>3

\* The places of start among the names, and those of the calls of the loop.
Hits(s, start, text, c) ==
  {i \in DOMAIN DirectDependents(s, start, text, c) :
     DirectDependents(s, start, text, c)[i] = start}

Stop(s, start, text, c) ==
  IF Hits(s, start, text, c) = {}
  THEN Len(DirectDependents(s, start, text, c)) + 1
  ELSE Min(Hits(s, start, text, c))

Tried(s, start, text, visited, c) ==
  {i \in 1..(Stop(s, start, text, c) - 1) :
     DirectDependents(s, start, text, c)[i] \notin visited \cup {c}}

LEMMA LoopIs ==
  ASSUME NEW s \in Sheet, NEW start \in Cell, NEW text \in Formula,
         NEW visited \in SUBSET Cell, NEW c \in Cell
  PROVE  LET deps    == DirectDependents(s, start, text, c)
             hits    == Hits(s, start, text, c)
             tried   == Tried(s, start, text, visited, c)
             callees == Callees(s, start, text, <<visited, c>>)
         IN /\ \A i \in tried : <<visited \cup {c}, deps[i]>> \in callees
            /\ tried # {} => Max(tried) \in tried
            /\ start \in Named(s, start, text, c) <=> hits # {}
            /\ hits = {} /\ tried = {} => callees = {}
<1> DEFINE deps  == DirectDependents(s, start, text, c)
           n     == Len(deps)
           hits  == Hits(s, start, text, c)
           stop  == Stop(s, start, text, c)
           tried == Tried(s, start, text, visited, c)
           seen  == visited \cup {c}
<1>1. deps \in Seq(Cell) /\ n \in Nat
  BY DependentsType
<1>2. hits = {i \in 1..n : deps[i] = start}
  BY <1>1 DEF Hits
<1>3. stop = IF hits = {} THEN n + 1 ELSE Min(hits)
  BY DEF Stop
<1>4. tried = {i \in 1..(stop - 1) : deps[i] \notin seen}
  BY DEF Tried
<1>5. Named(s, start, text, c) = {deps[i] : i \in 1..n}
  BY <1>1 DEF Named, ToSet
<1>6. Callees(s, start, text, <<visited, c>>) = {<<seen, d>> : d \in Named(s, start, text, c) \ seen}
  BY DEF Callees
<1> HIDE DEF deps, n, hits, stop, tried, seen
<1>7. hits # {} => Min(hits) \in hits
  <2>1. hits \in SUBSET Nat
    BY <1>2
  <2> QED
    BY <2>1, MinIn
<1>8. stop \in Nat /\ stop - 1 <= n
  BY <1>1, <1>2, <1>3, <1>7
<1>9. tried \subseteq 1..n
  BY <1>1, <1>4, <1>8
<1>10. ASSUME tried # {} PROVE Max(tried) \in tried
  <2>1. tried \in SUBSET (0..n)
    BY <1>9
  <2> QED
    BY <1>1, <1>10, <2>1, MaxIn
<1>11. ASSUME NEW i \in tried
       PROVE  <<seen, deps[i]>> \in Callees(s, start, text, <<visited, c>>)
  BY <1>4, <1>5, <1>6, <1>9
<1>12. start \in Named(s, start, text, c) <=> hits # {}
  BY <1>2, <1>5
<1>13. ASSUME hits = {}, tried = {}
       PROVE  Callees(s, start, text, <<visited, c>>) = {}
  BY <1>1, <1>3, <1>4, <1>5, <1>6, <1>13
<1> QED
  BY <1>10, <1>11, <1>12, <1>13 DEF deps, hits, tried, seen

\* A call of visit, in these terms.
Returned(s, start, text, result, visited, c) ==
  CASE ReadThrows(s, start, c) -> "throws"
    [] ~ReadThrows(s, start, c)
       /\ \E i \in Tried(s, start, text, visited, c) :
            result[<<visited \cup {c}, DirectDependents(s, start, text, c)[i]>>] = "throws"
         -> "throws"
    [] OTHER ->
         IF Hits(s, start, text, c) # {} THEN "circular"
         ELSE IF Tried(s, start, text, visited, c) = {} THEN "acyclic"
         ELSE result[<<visited \cup {c},
                       DirectDependents(s, start, text, c)
                         [Max(Tried(s, start, text, visited, c))]>>]

LEMMA VisitReturned ==
  ASSUME NEW s, NEW start, NEW text, NEW result, NEW visited, NEW c
  PROVE  Visit(s, start, text, result, visited, c) = Returned(s, start, text, result, visited, c)
  BY Zenon DEF Visit, Returned, Hits, Stop, Tried

\* What a call returns, from what its calls return.
LEMMA VisitIs ==
  ASSUME NEW s \in Sheet, NEW start \in Cell, NEW text \in Formula,
         NEW result, NEW visited \in SUBSET Cell, NEW c \in Cell
  PROVE  LET returned == Visit(s, start, text, result, visited, c)
             names    == Named(s, start, text, c)
             callees  == Callees(s, start, text, <<visited, c>>)
         IN /\ \/ returned \in Results
               \/ \E b \in callees : returned = result[b]
            /\ returned = "throws" =>
                 ReadThrows(s, start, c) \/ \E b \in callees : result[b] = "throws"
            /\ returned = "circular" =>
                 start \in names \/ \E b \in callees : result[b] = "circular"
            /\ returned = "acyclic" =>
                 /\ start \notin names
                 /\ callees = {} \/ \E b \in callees : result[b] = "acyclic"
<1> DEFINE returned == Returned(s, start, text, result, visited, c)
           callees  == Callees(s, start, text, <<visited, c>>)
           tried    == Tried(s, start, text, visited, c)
           last     == <<visited \cup {c}, DirectDependents(s, start, text, c)[Max(tried)]>>
<1>1. Visit(s, start, text, result, visited, c) = returned
  BY VisitReturned
<1>2. /\ \A i \in tried : <<visited \cup {c}, DirectDependents(s, start, text, c)[i]>> \in callees
      /\ tried # {} => last \in callees
      /\ start \in Named(s, start, text, c) <=> Hits(s, start, text, c) # {}
      /\ Hits(s, start, text, c) = {} /\ tried = {} => callees = {}
  BY LoopIs
<1>3. \/ /\ returned = "throws"
         /\ ReadThrows(s, start, c) \/ \E b \in callees : result[b] = "throws"
      \/ returned = "circular" /\ Hits(s, start, text, c) # {}
      \/ returned = "acyclic" /\ Hits(s, start, text, c) = {} /\ tried = {}
      \/ returned = result[last] /\ Hits(s, start, text, c) = {} /\ tried # {}
  BY <1>2 DEF Returned
<1> HIDE DEF returned, callees, tried, last
<1>4. QED
  BY <1>1, <1>2, <1>3 DEF Results, callees

\* A call depends on nothing but the results of its calls.
LEMMA VisitSame ==
  ASSUME NEW s \in Sheet, NEW start \in Cell, NEW text \in Formula,
         NEW f, NEW g, NEW visited \in SUBSET Cell, NEW c \in Cell,
         \A b \in Callees(s, start, text, <<visited, c>>) : f[b] = g[b]
  PROVE  Visit(s, start, text, f, visited, c) = Visit(s, start, text, g, visited, c)
<1> DEFINE callees == Callees(s, start, text, <<visited, c>>)
           tried   == Tried(s, start, text, visited, c)
           last    == <<visited \cup {c}, DirectDependents(s, start, text, c)[Max(tried)]>>
<1>1. /\ \A i \in tried : <<visited \cup {c}, DirectDependents(s, start, text, c)[i]>> \in callees
      /\ tried # {} => last \in callees
  BY LoopIs
<1>2. \A i \in tried :
        f[<<visited \cup {c}, DirectDependents(s, start, text, c)[i]>>]
          = g[<<visited \cup {c}, DirectDependents(s, start, text, c)[i]>>]
  BY <1>1
<1>3. tried # {} => f[last] = g[last]
  BY <1>1
<1>4. Returned(s, start, text, f, visited, c) = Returned(s, start, text, g, visited, c)
  BY <1>2, <1>3 DEF Returned
<1> QED
  BY <1>4, VisitReturned

-----------------------------------------------------------------------------
(* visit returns.                                                          *)

\* The cells that may have names to visit.
Sources(s, start) == DOMAIN s \cup {start}

\* How far a call is from the end.
Weight(s, start, call) ==
  2 * Cardinality(Sources(s, start) \ (call[1] \cup {call[2]}))
  + IF call[2] \in Sources(s, start) THEN 1 ELSE 0

LEMMA WeightType ==
  ASSUME NEW s \in Sheet, IsFiniteSet(DOMAIN s), NEW start \in Cell, NEW call \in Calls
  PROVE  /\ Weight(s, start, call) \in Nat
         /\ Cardinality(Sources(s, start)) \in Nat
         /\ Weight(s, start, call) < 2 * Cardinality(Sources(s, start)) + 2
<1> DEFINE D == Sources(s, start)
           E == D \ (call[1] \cup {call[2]})
<1>1. IsFiniteSet(D)
  BY FS_AddElement DEF Sources
<1>2. E \in SUBSET D
  OBVIOUS
<1>3. /\ IsFiniteSet(E)
      /\ Cardinality(E) \in Nat /\ Cardinality(D) \in Nat
      /\ Cardinality(E) <= Cardinality(D)
  BY <1>1, <1>2, FS_Subset, FS_CardinalityType
<1>4. Weight(s, start, call) = 2 * Cardinality(E) + IF call[2] \in D THEN 1 ELSE 0
  BY DEF Weight
<1> HIDE DEF D, E
<1>5. QED
  BY <1>3, <1>4 DEF D

\* A cell that is visited was not there; one without a formula calls nothing.
LEMMA CallsShrink ==
  ASSUME NEW s \in Sheet, IsFiniteSet(DOMAIN s), NEW start \in Cell, NEW text \in Formula,
         NEW call \in Calls, NEW b \in Callees(s, start, text, call)
  PROVE  b \in Calls /\ Weight(s, start, b) < Weight(s, start, call)
<1> DEFINE D    == Sources(s, start)
           seen == call[1] \cup {call[2]}
<1>1. call[1] \in SUBSET Cell /\ call[2] \in Cell
  BY DEF Calls
<1>2. PICK d \in Named(s, start, text, call[2]) \ seen : b = <<seen, d>>
  BY DEF Callees
<1>3. d \in Cell /\ call[2] \in D
  BY <1>1, <1>2, DependentsType DEF Sources
<1>4. b \in Calls /\ b[1] = seen /\ b[2] = d
  BY <1>1, <1>2, <1>3 DEF Calls
<1>5. IsFiniteSet(D \ seen) /\ Cardinality(D \ seen) \in Nat
  <2>1. IsFiniteSet(D)
    BY FS_AddElement DEF Sources
  <2>2. D \ seen \in SUBSET D
    OBVIOUS
  <2> QED
    BY <2>1, <2>2, FS_Subset, FS_CardinalityType
<1>6. Weight(s, start, call) = 2 * Cardinality(D \ seen) + 1
  BY <1>3 DEF Weight
<1>7. Weight(s, start, b) = 2 * Cardinality(D \ (seen \cup {d})) + IF d \in D THEN 1 ELSE 0
  BY <1>4 DEF Weight
<1>8. CASE d \in D
  <2>1. D \ (seen \cup {d}) = (D \ seen) \ {d} /\ d \in D \ seen
    BY <1>2, <1>8
  <2>2. Cardinality((D \ seen) \ {d}) = Cardinality(D \ seen) - 1
    BY <1>5, <2>1, FS_RemoveElement
  <2>3. Weight(s, start, b) = 2 * (Cardinality(D \ seen) - 1) + 1
    BY <1>7, <1>8, <2>1, <2>2
  <2> HIDE DEF D, seen
  <2>4. PICK n \in Nat : n = Cardinality(D \ seen)
    BY <1>5
  <2>5. 2 * (n - 1) + 1 < 2 * n + 1
    OBVIOUS
  <2> QED
    BY <1>4, <1>6, <2>3, <2>4, <2>5
<1>9. CASE d \notin D
  <2>1. D \ (seen \cup {d}) = D \ seen
    BY <1>9
  <2>2. Weight(s, start, b) = 2 * Cardinality(D \ seen) + 0
    BY <1>7, <1>9, <2>1
  <2> HIDE DEF D, seen
  <2>3. PICK n \in Nat : n = Cardinality(D \ seen)
    BY <1>5
  <2>4. 2 * n + 0 < 2 * n + 1
    OBVIOUS
  <2> QED
    BY <1>4, <1>6, <2>2, <2>3, <2>4
<1> QED
  BY <1>8, <1>9

\* What holds of each call whose calls it holds of, holds of every call.
LEMMA VisitInduction ==
  ASSUME NEW s \in Sheet, IsFiniteSet(DOMAIN s), NEW start \in Cell, NEW text \in Formula,
         NEW S \in SUBSET Calls,
         \A call \in Calls : Callees(s, start, text, call) \subseteq S => call \in S
  PROVE  S = Calls
<1> SUFFICES ASSUME Calls \ S # {}
             PROVE  FALSE
  OBVIOUS
<1> DEFINE W == {Weight(s, start, call) : call \in Calls \ S}
<1>1. W \in SUBSET Nat /\ W # {}
  BY WeightType
<1>2. PICK m \in W : \A n \in W : m <= n
  BY <1>1, NatMin
<1>3. PICK call \in Calls \ S : m = Weight(s, start, call)
  BY <1>2
<1>4. PICK b \in Callees(s, start, text, call) : b \notin S
  BY <1>3
<1>5. b \in Calls \ S /\ Weight(s, start, b) < m
  BY <1>3, <1>4, CallsShrink
<1>6. m <= Weight(s, start, b)
  BY <1>2, <1>5
<1> QED
  BY <1>1, <1>2, <1>5, <1>6, WeightType

\* The results of the calls of less than some weight; one call more each time.
LEMMA VisitReturns ==
  ASSUME NEW s \in Sheet, IsFiniteSet(DOMAIN s), NEW start \in Cell, NEW text \in Formula
  PROVE  \E f : f = [call \in Calls |-> Visit(s, start, text, f, call[1], call[2])]
<1> DEFINE Solves(f, n) ==
             \A call \in Calls :
               Weight(s, start, call) < n => f[call] = Visit(s, start, text, f, call[1], call[2])
           S == {n \in Nat : \E f : Solves(f, n)}
<1>0. \A call \in Calls : call = <<call[1], call[2]>> /\ call[1] \in SUBSET Cell /\ call[2] \in Cell
  BY DEF Calls
<1>1. 0 \in S
  <2>1. \A call \in Calls : ~(Weight(s, start, call) < 0)
    BY WeightType
  <2> QED
    BY <2>1
<1>2. ASSUME NEW n \in S PROVE n + 1 \in S
  <2>1. PICK f : Solves(f, n)
    OBVIOUS
  <2> DEFINE g == [call \in Calls |-> Visit(s, start, text, f, call[1], call[2])]
  <2>2. ASSUME NEW call \in Calls, Weight(s, start, call) < n + 1
        PROVE  g[call] = Visit(s, start, text, g, call[1], call[2])
    <3>1. ASSUME NEW b \in Callees(s, start, text, call) PROVE f[b] = g[b]
      <4>1. b \in Calls /\ Weight(s, start, b) < Weight(s, start, call)
        BY CallsShrink
      <4>2. Weight(s, start, b) < n
        BY <2>2, <4>1, WeightType
      <4> QED
        BY <2>1, <4>1, <4>2
    <3>2. \A b \in Callees(s, start, text, <<call[1], call[2]>>) : f[b] = g[b]
      BY <1>0, <3>1
    <3> HIDE DEF g
    <3>3. Visit(s, start, text, f, call[1], call[2]) = Visit(s, start, text, g, call[1], call[2])
      BY <1>0, <3>2, VisitSame
    <3> QED
      BY <3>3 DEF g
  <2> HIDE DEF g
  <2>3. Solves(g, n + 1)
    BY <2>2
  <2>4. n + 1 \in Nat
    OBVIOUS
  <2> HIDE DEF Solves
  <2> QED
    BY <2>3, <2>4
<1> DEFINE N == 2 * Cardinality(Sources(s, start)) + 2
<1>3. N \in Nat /\ \A call \in Calls : Weight(s, start, call) < N
  <2>1. <<{}, start>> \in Calls
    BY DEF Calls
  <2>2. Cardinality(Sources(s, start)) \in Nat
    BY <2>1, WeightType
  <2> QED
    BY <2>2, WeightType
<1>4. N \in S
  <2> HIDE DEF S, N
  <2>1. S \in SUBSET Nat
    BY DEF S
  <2> QED
    BY <1>1, <1>2, <1>3, <2>1, NatSet
<1> HIDE DEF N
<1>5. PICK g : Solves(g, N)
  BY <1>4
<1> DEFINE f == [call \in Calls |-> g[call]]
<1>6. ASSUME NEW call \in Calls
      PROVE  f[call] = Visit(s, start, text, f, call[1], call[2])
  <2>1. f[call] = Visit(s, start, text, g, call[1], call[2])
    BY <1>3, <1>5
  <2>2. \A b \in Callees(s, start, text, <<call[1], call[2]>>) : f[b] = g[b]
    BY <1>0, CallsShrink
  <2> HIDE DEF f
  <2>3. Visit(s, start, text, f, call[1], call[2]) = Visit(s, start, text, g, call[1], call[2])
    BY <1>0, <2>2, VisitSame
  <2> QED
    BY <2>1, <2>3
<1>7. f = [call \in Calls |-> f[call]]
  OBVIOUS
<1> HIDE DEF f
<1>8. f = [call \in Calls |-> Visit(s, start, text, f, call[1], call[2])]
  BY <1>6, <1>7
<1> QED
  BY <1>8

\* So the check takes the result of a first call with nothing visited.
LEMMA VisitFromIs ==
  ASSUME NEW s \in Sheet, IsFiniteSet(DOMAIN s), NEW start \in Cell, NEW text \in Formula
  PROVE  \E f : /\ \A call \in Calls : f[call] = Visit(s, start, text, f, call[1], call[2])
               /\ VisitFrom(s, start, text) = f[<<{}, start>>]
<1> DEFINE Is(f) == f = [call \in (SUBSET Cell) \X Cell |-> Visit(s, start, text, f, call[1], call[2])]
           result == CHOOSE f : Is(f)
<1>1. \E f : Is(f)
  BY VisitReturns DEF Calls
<1>2. VisitFrom(s, start, text) = result[<<{}, start>>]
  BY DEF VisitFrom
<1> HIDE DEF Is
<1>3. Is(result)
  BY <1>1
<1> HIDE DEF result
<1>4. \A call \in Calls : result[call] = Visit(s, start, text, result, call[1], call[2])
  BY <1>3 DEF Is, Calls
<1> QED
  BY <1>2, <1>4

-----------------------------------------------------------------------------
(* What the edited sheet reads.                                            *)

\* The sheet with a text in one of its cells.
After(s, c, text) ==
  IF c \in DOMAIN s /\ text = Empty
  THEN Erase(s, c)
  ELSE Put(s, c, [content |-> text, prev |-> Empty])

LEMMA AfterType ==
  ASSUME NEW s \in Sheet, IsFiniteSet(DOMAIN s), NEW c \in Cell, NEW text \in Content
  PROVE  After(s, c, text) \in Sheet /\ IsFiniteSet(DOMAIN After(s, c, text))
<1>1. [content |-> text, prev |-> Empty] \in CellData
  BY ContentAssumption DEF CellData
<1>2. After(s, c, text) \in Sheet
  BY <1>1, PutType, EraseType DEF After
<1>3. DOMAIN After(s, c, text) \subseteq DOMAIN s \cup {c}
  BY DEF After, Erase, Put
<1>4. IsFiniteSet(DOMAIN s \cup {c})
  BY FS_AddElement
<1> QED
  BY <1>2, <1>3, <1>4, FS_Subset

LEMMA ReadsType ==
  ASSUME NEW s \in Sheet, NEW c
  PROVE  Reads(s, c) \subseteq Cell
<1>1. ASSUME c \in DOMAIN s, s[c].content \in Formula PROVE ToSet(Vars[s[c].content]) \subseteq Cell
  <2>1. Vars[s[c].content] \in Seq(Cell)
    BY <1>1, ContentAssumption
  <2> QED
    BY <2>1 DEF ToSet
<1> QED
  BY <1>1 DEF Reads

\* visit reads the sheet as it would be after the edit.
LEMMA NamedIsRead ==
  ASSUME NEW s \in Sheet, NEW start \in Cell, NEW text \in Formula, NEW c \in Cell
  PROVE  Named(s, start, text, c) = Reads(After(s, start, text), c)
<1> DEFINE t == After(s, start, text)
<1>1. t = Put(s, start, [content |-> text, prev |-> Empty])
  BY ContentAssumption DEF After
<1>2. DOMAIN t = DOMAIN s \cup {start} /\ t[start].content = text
  BY <1>1 DEF Put
<1>3. \A x \in DOMAIN s \ {start} : t[x] = s[x]
  BY <1>1 DEF Put
<1> HIDE DEF t
<1>4. CASE c = start
  BY <1>2, <1>4 DEF Named, DirectDependents, Reads, t
<1>5. CASE c # start /\ c \in DOMAIN s /\ s[c].content \in Formula
  <2>1. DirectDependents(s, start, text, c) = Vars[s[c].content]
    BY <1>5 DEF DirectDependents
  <2> QED
    BY <1>2, <1>3, <1>5, <2>1 DEF Named, Reads, t
<1>6. CASE c # start /\ ~(c \in DOMAIN s /\ s[c].content \in Formula)
  <2>1. DirectDependents(s, start, text, c) = << >>
    BY <1>6 DEF DirectDependents
  <2>2. Named(s, start, text, c) = {}
    BY <2>1 DEF Named, ToSet
  <2> QED
    BY <1>2, <1>3, <1>6, <2>2 DEF Reads, t
<1> QED
  BY <1>4, <1>5, <1>6

\* The cells a value depends on are the least closed set with what it reads.
LEMMA PrecedentsAre ==
  ASSUME NEW s \in Sheet, NEW c \in Cell
  PROVE  /\ Precedents(s, c) \in SUBSET Cell
         /\ Reads(s, c) \subseteq Precedents(s, c)
         /\ Closed(s, Precedents(s, c))
         /\ \A cells \in SUBSET Cell :
              Reads(s, c) \subseteq cells /\ Closed(s, cells) => Precedents(s, c) \subseteq cells
<1>1. Reads(s, c) \subseteq Precedents(s, c)
  BY ReadsType DEF Precedents
<1>2. ASSUME NEW x \in Precedents(s, c), NEW d \in Reads(s, x) PROVE d \in Precedents(s, c)
  BY <1>2, ReadsType DEF Precedents, Closed
<1>3. Closed(s, Precedents(s, c))
  BY <1>2 DEF Closed
<1> QED
  BY <1>1, <1>3 DEF Precedents

-----------------------------------------------------------------------------
(* What the results of visit say.                                          *)

\* Every call returns one of the three results.
LEMMA VisitResult ==
  ASSUME NEW s \in Sheet, IsFiniteSet(DOMAIN s), NEW start \in Cell, NEW text \in Formula
  PROVE  VisitFrom(s, start, text) \in Results
<1>1. PICK f : /\ \A call \in Calls : f[call] = Visit(s, start, text, f, call[1], call[2])
               /\ VisitFrom(s, start, text) = f[<<{}, start>>]
  BY VisitFromIs
<1> DEFINE S == {call \in Calls : f[call] \in Results}
<1>2. ASSUME NEW call \in Calls, Callees(s, start, text, call) \subseteq S
      PROVE  call \in S
  <2>1. /\ call = <<call[1], call[2]>> /\ call[1] \in SUBSET Cell /\ call[2] \in Cell
        /\ f[call] = Visit(s, start, text, f, call[1], call[2])
    BY <1>1 DEF Calls
  <2>2. f[call] \in Results \/ \E b \in Callees(s, start, text, call) : f[call] = f[b]
    BY <2>1, VisitIs
  <2> QED
    BY <1>2, <2>2
<1>3. S = Calls
  <2> HIDE DEF S
  <2>1. S \in SUBSET Calls
    BY DEF S
  <2> QED
    BY <1>2, <2>1, VisitInduction
<1>4. <<{}, start>> \in Calls
  BY DEF Calls
<1> QED
  BY <1>1, <1>3, <1>4

\* visit says "circular" only if the edited cell would depend on itself.
LEMMA CircularIsReal ==
  ASSUME NEW s \in Sheet, IsFiniteSet(DOMAIN s), NEW start \in Cell, NEW text \in Formula,
         VisitFrom(s, start, text) = "circular"
  PROVE  OnCycle(After(s, start, text), start)
<1> DEFINE t == After(s, start, text)
           P == Precedents(t, start)
<1>1. PICK f : /\ \A call \in Calls : f[call] = Visit(s, start, text, f, call[1], call[2])
               /\ VisitFrom(s, start, text) = f[<<{}, start>>]
  BY VisitFromIs
<1>2. t \in Sheet
  BY AfterType, ContentAssumption
<1>3. ASSUME NEW c \in P \cup {start} PROVE Named(s, start, text, c) \subseteq P /\ c \in Cell
  <2>1. /\ P \subseteq Cell /\ Reads(t, start) \subseteq P
        /\ \A x \in P : Reads(t, x) \subseteq P
    BY <1>2, PrecedentsAre DEF Closed
  <2> QED
    BY <2>1, NamedIsRead
<1> HIDE DEF P
<1> DEFINE S == {call \in Calls : call[2] \in P \cup {start} /\ f[call] = "circular" => start \in P}
<1>4. ASSUME NEW call \in Calls, Callees(s, start, text, call) \subseteq S
      PROVE  call \in S
  <2> SUFFICES ASSUME call[2] \in P \cup {start}, f[call] = "circular"
               PROVE  start \in P
    OBVIOUS
  <2>1. /\ call = <<call[1], call[2]>> /\ call[1] \in SUBSET Cell /\ call[2] \in Cell
        /\ f[call] = Visit(s, start, text, f, call[1], call[2])
    BY <1>1 DEF Calls
  <2>2. \/ start \in Named(s, start, text, call[2])
        \/ \E b \in Callees(s, start, text, call) : f[b] = "circular"
    BY <2>1, VisitIs
  <2>3. \A b \in Callees(s, start, text, call) : b[2] \in P
    BY <1>3 DEF Callees
  <2> QED
    BY <1>3, <1>4, <2>2, <2>3
<1>5. S = Calls
  <2> HIDE DEF S
  <2>1. S \in SUBSET Calls
    BY DEF S
  <2> QED
    BY <1>4, <2>1, VisitInduction
<1>6. <<{}, start>> \in Calls
  BY DEF Calls
<1> QED
  BY <1>1, <1>5, <1>6 DEF OnCycle, P

\* visit throws only at a stored cell without text that the edited cell would
\* depend on.
LEMMA ThrowsAtBlank ==
  ASSUME NEW s \in Sheet, IsFiniteSet(DOMAIN s), NEW start \in Cell, NEW text \in Formula,
         VisitFrom(s, start, text) = "throws"
  PROVE  \E d \in Precedents(After(s, start, text), start) \ {start} :
           ReadThrows(s, start, d)
<1> DEFINE t == After(s, start, text)
           P == Precedents(t, start)
           Blanks == \E d \in P \ {start} : ReadThrows(s, start, d)
<1>1. PICK f : /\ \A call \in Calls : f[call] = Visit(s, start, text, f, call[1], call[2])
               /\ VisitFrom(s, start, text) = f[<<{}, start>>]
  BY VisitFromIs
<1>2. t \in Sheet
  BY AfterType, ContentAssumption
<1>3. ASSUME NEW c \in P \cup {start} PROVE Named(s, start, text, c) \subseteq P /\ c \in Cell
  <2>1. /\ P \subseteq Cell /\ Reads(t, start) \subseteq P
        /\ \A x \in P : Reads(t, x) \subseteq P
    BY <1>2, PrecedentsAre DEF Closed
  <2> QED
    BY <2>1, NamedIsRead
<1> HIDE DEF P
<1> DEFINE S == {call \in Calls : call[2] \in P \cup {start} /\ f[call] = "throws" => Blanks}
<1>4. ASSUME NEW call \in Calls, Callees(s, start, text, call) \subseteq S
      PROVE  call \in S
  <2> SUFFICES ASSUME call[2] \in P \cup {start}, f[call] = "throws"
               PROVE  Blanks
    OBVIOUS
  <2>1. /\ call = <<call[1], call[2]>> /\ call[1] \in SUBSET Cell /\ call[2] \in Cell
        /\ f[call] = Visit(s, start, text, f, call[1], call[2])
    BY <1>1 DEF Calls
  <2>2. \/ ReadThrows(s, start, call[2])
        \/ \E b \in Callees(s, start, text, call) : f[b] = "throws"
    BY <2>1, VisitIs
  <2>3. \A b \in Callees(s, start, text, call) : b[2] \in P
    BY <1>3 DEF Callees
  <2>4. ReadThrows(s, start, call[2]) => call[2] # start
    BY DEF ReadThrows
  <2> HIDE DEF Blanks
  <2>5. CASE ReadThrows(s, start, call[2])
    BY <2>4, <2>5 DEF Blanks
  <2>6. CASE \E b \in Callees(s, start, text, call) : f[b] = "throws"
    BY <1>4, <2>3, <2>6
  <2> QED
    BY <2>2, <2>5, <2>6
<1>5. S = Calls
  <2> HIDE DEF S
  <2>1. S \in SUBSET Calls
    BY DEF S
  <2> QED
    BY <1>4, <2>1, VisitInduction
<1>6. <<{}, start>> \in Calls
  BY DEF Calls
<1> QED
  BY <1>1, <1>5, <1>6 DEF P

\* On a chain, visit says "acyclic" only if the cells behind the edited one
\* do not lead back to it.
LEMMA ChainIsOpen ==
  ASSUME NEW s \in Sheet, IsFiniteSet(DOMAIN s), NEW start \in Cell, NEW text \in Formula,
         IsChain(After(s, start, text)), VisitFrom(s, start, text) = "acyclic"
  PROVE  ~OnCycle(After(s, start, text), start)
<1> DEFINE t == After(s, start, text)
           Opens(call, cells) ==
             /\ call[2] \in cells
             /\ \A x \in cells : /\ start \notin Reads(t, x)
                                 /\ Reads(t, x) \subseteq cells \cup call[1]
<1>1. PICK f : /\ \A call \in Calls : f[call] = Visit(s, start, text, f, call[1], call[2])
               /\ VisitFrom(s, start, text) = f[<<{}, start>>]
  BY VisitFromIs
<1>2. t \in Sheet
  BY AfterType, ContentAssumption
<1>3. ASSUME NEW c \in Cell, NEW d \in Reads(t, c) PROVE Reads(t, c) = {d}
  BY <1>3 DEF IsChain, Reads, ToSet
<1> DEFINE S == {call \in Calls : f[call] = "acyclic" => \E cells \in SUBSET Cell : Opens(call, cells)}
<1>4. ASSUME NEW call \in Calls, Callees(s, start, text, call) \subseteq S
      PROVE  call \in S
  <2> SUFFICES ASSUME f[call] = "acyclic"
               PROVE  \E cells \in SUBSET Cell : Opens(call, cells)
    OBVIOUS
  <2> DEFINE V == call[1]
             c == call[2]
  <2>1. /\ call = <<V, c>> /\ V \in SUBSET Cell /\ c \in Cell
        /\ f[call] = Visit(s, start, text, f, V, c)
    BY <1>1 DEF Calls
  <2>2. /\ start \notin Reads(t, c)
        /\ \/ Callees(s, start, text, call) = {}
           \/ \E b \in Callees(s, start, text, call) : f[b] = "acyclic"
    BY <2>1, VisitIs, NamedIsRead
  <2>3. CASE Callees(s, start, text, call) = {}
    <3>1. Reads(t, c) \subseteq V \cup {c}
      <4>1. ASSUME NEW d \in Reads(t, c), d \notin V \cup {c} PROVE FALSE
        <5>1. d \in Named(s, start, text, c)
          BY <2>1, NamedIsRead
        <5>2. <<V \cup {c}, d>> \in Callees(s, start, text, call)
          BY <4>1, <5>1 DEF Callees
        <5> QED
          BY <2>3, <5>2
      <4> QED
        BY <4>1
    <3>2. Opens(call, {c})
      BY <2>2, <3>1
    <3> QED
      BY <2>1, <3>2
  <2>4. ASSUME NEW b \in Callees(s, start, text, call), f[b] = "acyclic"
        PROVE  \E cells \in SUBSET Cell : Opens(call, cells)
    <3>1. PICK d \in Reads(t, c) : b = <<V \cup {c}, d>>
      BY <2>1, NamedIsRead DEF Callees
    <3>2. b[1] = V \cup {c} /\ b[2] = d
      BY <3>1
    <3>3. PICK cells \in SUBSET Cell : Opens(b, cells)
      BY <1>4, <2>4
    <3>4. Reads(t, c) = {d} /\ d \in cells
      BY <1>3, <2>1, <3>1, <3>2, <3>3
    <3>5. ASSUME NEW x \in cells \cup {c}
          PROVE  start \notin Reads(t, x) /\ Reads(t, x) \subseteq (cells \cup {c}) \cup V
      <4>1. CASE x \in cells
        <5>1. start \notin Reads(t, x) /\ Reads(t, x) \subseteq cells \cup b[1]
          BY <3>3, <4>1
        <5> HIDE DEF t, V, c
        <5> QED
          BY <3>2, <5>1
      <4>2. CASE x = c
        <5> HIDE DEF t, V, c
        <5> QED
          BY <2>2, <3>4, <4>2
      <4> QED
        BY <3>5, <4>1, <4>2
    <3> HIDE DEF t, V, c
    <3>6. Opens(call, cells \cup {c})
      BY <3>5 DEF V, c
    <3>7. cells \cup {c} \in SUBSET Cell
      BY <2>1
    <3> QED
      BY <3>6, <3>7
  <2> QED
    BY <2>2, <2>3, <2>4
<1>5. S = Calls
  <2> HIDE DEF S
  <2>1. S \in SUBSET Calls
    BY DEF S
  <2> QED
    BY <1>4, <2>1, VisitInduction
<1>6. <<{}, start>> \in Calls
  BY DEF Calls
<1>7. PICK cells \in SUBSET Cell : Opens(<<{}, start>>, cells)
  BY <1>1, <1>5, <1>6
<1>8. /\ Reads(t, start) \subseteq cells \ {start}
      /\ Closed(t, cells \ {start})
  BY <1>7 DEF Closed
<1> HIDE DEF t
<1>9. Precedents(t, start) \subseteq cells \ {start}
  BY <1>2, <1>8, PrecedentsAre
<1> QED
  BY <1>9 DEF OnCycle, t

-----------------------------------------------------------------------------
(* The check, on a sheet.                                                  *)

LEMMA CheckIsReal ==
  ASSUME NEW s \in Sheet, IsFiniteSet(DOMAIN s), NEW c \in Cell, NEW text \in Formula \ Malformed,
         EditVerdict(s, c, text) = "refuse"
  PROVE  OnCycle(After(s, c, text), c)
<1>1. DependencyCheck(s, c, text) = "refuse"
  BY DEF EditVerdict, EvaluateFormula
<1>2. CASE Contains(Vars[text], c)
  <2>1. c \in Named(s, c, text, c)
    BY <1>2 DEF Named, DirectDependents, ToSet, Contains
  <2>2. After(s, c, text) \in Sheet
    BY AfterType, ContentAssumption
  <2> QED
    BY <2>1, <2>2, NamedIsRead, PrecedentsAre DEF OnCycle
<1>3. CASE ~Contains(Vars[text], c)
  <2>1. VisitFrom(s, c, text) \in Results
    BY VisitResult
  <2>2. VisitFrom(s, c, text) = "circular"
    BY <1>1, <1>3, <2>1 DEF DependencyCheck, Results
  <2> QED
    BY <2>2, CircularIsReal
<1> QED
  BY <1>2, <1>3

LEMMA CheckFindsChains ==
  ASSUME NEW s \in Sheet, IsFiniteSet(DOMAIN s), NEW c \in Cell, NEW text \in Content,
         EditVerdict(s, c, text) = "accept", IsChain(After(s, c, text))
  PROVE  ~OnCycle(After(s, c, text), c)
<1> DEFINE t == After(s, c, text)
<1>1. t \in Sheet
  BY AfterType
<1>2. ASSUME Reads(t, c) = {} PROVE ~OnCycle(t, c)
  <2>1. Closed(t, {})
    BY DEF Closed
  <2> HIDE DEF t
  <2>2. Precedents(t, c) \subseteq {}
    BY <1>1, <1>2, <2>1, PrecedentsAre
  <2> QED
    BY <2>2 DEF OnCycle
<1>3. CASE text \notin Formula
  <2>1. c \in DOMAIN t => t[c].content = text
    BY DEF After, Erase, Put
  <2>2. Reads(t, c) = {}
    BY <1>3, <2>1 DEF Reads
  <2> QED
    BY <1>2, <2>2
<1>4. CASE text \in Formula /\ Vars[text] = << >>
  <2>1. Named(s, c, text, c) = {}
    BY <1>4 DEF Named, DirectDependents, ToSet
  <2>2. Reads(t, c) = {}
    BY <1>4, <2>1, NamedIsRead
  <2> QED
    BY <1>2, <2>2
<1>5. CASE text \in Formula /\ Vars[text] # << >>
  <2>1. DependencyCheck(s, c, text) = "accept"
    BY DEF EditVerdict
  <2>2. VisitFrom(s, c, text) \in Results
    BY <1>5, VisitResult
  <2>3. ~Contains(Vars[text], c)
    BY <1>5, <2>1 DEF DependencyCheck
  <2>4. VisitFrom(s, c, text) = "acyclic"
    BY <1>5, <2>1, <2>2, <2>3 DEF DependencyCheck, Results
  <2> QED
    BY <1>5, <2>4, ChainIsOpen
<1> QED
  BY <1>3, <1>4, <1>5

LEMMA CheckThrows ==
  ASSUME NEW s \in Sheet, IsFiniteSet(DOMAIN s), NEW c \in Cell, NEW text \in Content,
         EditVerdict(s, c, text) = "throws"
  PROVE  \/ text \in Bare
         \/ \E d \in Precedents(After(s, c, text), c) \ {c} :
              d \in DOMAIN After(s, c, text) /\ After(s, c, text)[d].content = Empty
<1> SUFFICES ASSUME text \notin Bare
             PROVE  \E d \in Precedents(After(s, c, text), c) \ {c} :
                      d \in DOMAIN After(s, c, text) /\ After(s, c, text)[d].content = Empty
  OBVIOUS
<1>1. DependencyCheck(s, c, text) = "throws"
  BY DEF EditVerdict, EvaluateFormula
<1>2. text \in Formula /\ ~Contains(Vars[text], c)
  BY <1>1 DEF DependencyCheck
<1>3. VisitFrom(s, c, text) \in Results
  BY <1>2, VisitResult
<1>4. VisitFrom(s, c, text) = "throws"
  BY <1>1, <1>2, <1>3 DEF DependencyCheck, Results
<1>5. PICK d \in Precedents(After(s, c, text), c) \ {c} : ReadThrows(s, c, d)
  BY <1>2, <1>4, ThrowsAtBlank
<1>6. d \in DOMAIN After(s, c, text) /\ After(s, c, text)[d] = s[d]
  BY <1>5 DEF ReadThrows, After, Put, Erase
<1> QED
  BY <1>5, <1>6 DEF ReadThrows

-----------------------------------------------------------------------------
(* The sheets that edits and reverts make.                                 *)

\* The inductive invariant: a sheet holds texts, and finitely many cells.
SheetInv == sheet \in Sheet /\ IsFiniteSet(DOMAIN sheet)

LEMMA AlwaysSheet == Spec => []SheetInv
<1>1. Init => SheetInv
  <2>1. [c \in {} |-> Blank] \in [{} -> CellData]
    OBVIOUS
  <2>2. [c \in {} |-> Blank] \in Sheet /\ DOMAIN [c \in {} |-> Blank] = {}
    BY <2>1, SheetIntro
  <2> QED
    BY <2>2, FS_EmptySet DEF Init, SheetInv
<1>2. SheetInv /\ [Next]_sheet => SheetInv'
  <2> SUFFICES ASSUME SheetInv, [Next]_sheet
               PROVE  SheetInv'
    OBVIOUS
  <2>1. ASSUME NEW c \in Cell, NEW text \in Content, Edit(c, text) PROVE SheetInv'
    <3>1. sheet' = After(sheet, c, text)
      BY <2>1 DEF Edit, With, After
    <3> QED
      BY <3>1, AfterType DEF SheetInv
  <2>2. ASSUME NEW c \in Cell, NEW text \in Content, Restore(c, text) PROVE SheetInv'
    <3>1. [content |-> text, prev |-> Empty] \in CellData
      BY ContentAssumption DEF CellData
    <3>2. sheet' \in Sheet
      BY <2>2, <3>1, PutType DEF Restore, SheetInv
    <3>3. DOMAIN sheet' = DOMAIN sheet
      BY <2>2 DEF Restore, Put
    <3> QED
      BY <3>2, <3>3 DEF SheetInv
  <2>3. CASE UNCHANGED sheet
    BY <2>3 DEF SheetInv
  <2> QED
    BY <2>1, <2>2, <2>3 DEF Next
<1> QED
  BY <1>1, <1>2, PTL DEF Spec

LEMMA WithIsAfter ==
  ASSUME NEW c, NEW text
  PROVE  With(c, text) = After(sheet, c, text)
  BY DEF With, After

\* For any cells and texts, dependencyCheck and visit refuse no formula that
\* would not close a cycle through the edited cell, also where unchecked
\* reverts and undos have left older cycles in the sheet.
THEOREM RefusalsReal == Spec => []RefusalsAreReal
<1>1. SheetInv => RefusalsAreReal
  BY CheckIsReal, WithIsAfter DEF SheetInv, RefusalsAreReal
<1> QED
  BY <1>1, AlwaysSheet, PTL

\* For any cells and texts: if no formula has two names, visit finds every
\* cycle that an edit would close, whatever its length, although it keeps the
\* result of its last call only.
THEOREM ChainsOpen == Spec => []ChainsStayOpen
<1>1. SheetInv => ChainsStayOpen
  BY CheckFindsChains, WithIsAfter DEF SheetInv, ChainsStayOpen
<1> QED
  BY <1>1, AlwaysSheet, PTL

\* For any cells and texts, an edit ends in an exception only on a formula that
\* is nothing but its '=' or at a stored cell without text that the edited
\* cell would depend on (getDirectDependents).
THEOREM ThrowsNeedBlanks == Spec => []ExceptionsNeedBlanks
<1>1. SheetInv => ExceptionsNeedBlanks
  <2> SUFFICES ASSUME SheetInv, NEW c \in Cell, NEW text \in Content,
                      EditVerdict(sheet, c, text) = "throws", text \notin Bare
               PROVE  \E d \in Precedents(With(c, text), c) \ {c} :
                        d \in DOMAIN sheet /\ sheet[d].content = Empty
    BY DEF ExceptionsNeedBlanks
  <2>1. PICK d \in Precedents(With(c, text), c) \ {c} :
          d \in DOMAIN After(sheet, c, text) /\ After(sheet, c, text)[d].content = Empty
    BY CheckThrows, WithIsAfter DEF SheetInv
  <2>2. d \in DOMAIN sheet /\ After(sheet, c, text)[d] = sheet[d]
    BY <2>1 DEF After, Put, Erase
  <2> QED
    BY <2>1, <2>2
<1> QED
  BY <1>1, AlwaysSheet, PTL

=============================================================================
