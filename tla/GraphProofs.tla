---------------------------- MODULE GraphProofs ----------------------------
(***************************************************************************)
(* Proofs about DependencyGraphs, for any finite set of names.  Of the     *)
(* client's class: what exceptions leave of the two dictionaries, that     *)
(* without exceptions they are two readings of one set of pairs, that      *)
(* every call does to it what DependencyRelation says, and that the        *)
(* counter counts it.  Of the server's: that the counter, which no removal *)
(* counts down, is never behind the pairs of dependentGraph.  Of both:     *)
(* that their replacements are the loops of calls they are written as, in  *)
(* every order a HashSet or an unordered_set has.                          *)
(*                                                                         *)
(* The operations of the client are made of five parts, which keep the two *)
(* dictionaries known to each other, or equal, one by one.                 *)
(***************************************************************************)
EXTENDS DependencyGraphs, FiniteSetTheorems, NaturalsInduction, SequenceTheorems, TLAPS

Maps(g) == g.dependents \in [Node -> SUBSET Node] /\ g.dependees \in [Node -> SUBSET Node]

Known(g) == \A s, t \in Node : t \in g.dependents[s] => s \in g.dependees[t]

Equal(g) == \A s, t \in Node : t \in g.dependents[s] <=> s \in g.dependees[t]

-----------------------------------------------------------------------------

\* AddDependency keeps the dictionaries maps, known and equal, and adds the
\* one pair.
LEMMA AddKeeps ==
  ASSUME NEW g, Maps(g), NEW s \in Node, NEW t \in Node
  PROVE  LET h == AddDependency(g, s, t)
         IN /\ Maps(h) /\ (Known(g) => Known(h)) /\ (Equal(g) => Equal(h))
            /\ h.dependents = [g.dependents EXCEPT ![s] = @ \cup {t}]
  BY DEF AddDependency, Maps, Known, Equal

\* RemoveDependency keeps the dictionaries maps and known, also if it throws.
LEMMA RemoveKeeps ==
  ASSUME NEW g, Maps(g), NEW s \in Node, NEW t \in Node
  PROVE  LET h == RemoveDependency(g, s, t)
         IN Maps(h) /\ (Known(g) => Known(h))
  BY DEF RemoveDependency, LosesKey, Maps, Known

\* If it returns, it keeps them equal, and takes the pair from both.
LEMMA RemoveReturns ==
  ASSUME NEW g, Maps(g), NEW s \in Node, NEW t \in Node, ~RemoveThrows(g, s, t)
  PROVE  LET h == RemoveDependency(g, s, t)
         IN /\ Equal(g) => Equal(h)
            /\ h.dependents = [g.dependents EXCEPT ![s] = @ \ {t}]
            /\ h.dependees = [g.dependees EXCEPT ![t] = @ \ {s}]
  BY DEF RemoveDependency, RemoveThrows, LosesKey, Maps, Equal

\* The first loop of ReplaceDependents, as far as it has gone.
LEMMA WithoutDependentsKeeps ==
  ASSUME NEW g, Maps(g), NEW s \in Node, NEW gone \in SUBSET Node
  PROVE  LET h == WithoutDependents(g, s, gone)
         IN /\ Maps(h) /\ (Known(g) => Known(h)) /\ (Equal(g) => Equal(h))
            /\ h.dependents = [g.dependents EXCEPT ![s] = @ \ gone]
  BY DEF WithoutDependents, Maps, Known, Equal

\* The first loop of ReplaceDependees, as far as it has gone.
LEMMA WithoutDependeesKeeps ==
  ASSUME NEW g, Maps(g), NEW s \in Node, NEW gone \in SUBSET Node
  PROVE  LET h == WithoutDependees(g, s, gone)
         IN /\ Maps(h) /\ (Known(g) => Known(h)) /\ (Equal(g) => Equal(h))
            /\ h.dependees = [g.dependees EXCEPT ![s] = @ \ gone]
  BY DEF WithoutDependees, Maps, Known, Equal

\* The second loop of ReplaceDependents.
LEMMA WithDependentsKeeps ==
  ASSUME NEW g, Maps(g), NEW s \in Node, NEW new \in SUBSET Node
  PROVE  LET h == WithDependents(g, s, new)
         IN /\ Maps(h) /\ (Known(g) => Known(h)) /\ (Equal(g) => Equal(h))
            /\ h.dependents = [g.dependents EXCEPT ![s] = @ \cup new]
  BY DEF WithDependents, Maps, Known, Equal

\* The second loop of ReplaceDependees.
LEMMA WithDependeesKeeps ==
  ASSUME NEW g, Maps(g), NEW s \in Node, NEW new \in SUBSET Node
  PROVE  LET h == WithDependees(g, s, new)
         IN /\ Maps(h) /\ (Known(g) => Known(h)) /\ (Equal(g) => Equal(h))
            /\ h.dependees = [g.dependees EXCEPT ![s] = @ \cup new]
  BY DEF WithDependees, Maps, Known, Equal

-----------------------------------------------------------------------------

\* A replacement that returns: if the dictionaries were equal, they still are,
\* and the dependents of s are the new ones, whatever the order of the loop.
LEMMA ReplaceDependentsKeeps ==
  ASSUME NEW g, Maps(g), NEW s \in Node, NEW new \in SUBSET Node,
         NEW h \in ReplaceDependents(g, s, new)
  PROVE  /\ Maps(h) /\ (Known(g) => Known(h)) /\ (Equal(g) => Equal(h))
         /\ h.dependents = [g.dependents EXCEPT ![s] = new]
<1> DEFINE old == g.dependents[s]
<1>0. old \in SUBSET Node
  BY DEF Maps
<1>1. CASE s \notin old
  <2> DEFINE h1 == WithoutDependents(g, s, old)
  <2>1. h = WithDependents(h1, s, new)
    BY <1>1 DEF ReplaceDependents
  <2>2. /\ Maps(h1) /\ (Known(g) => Known(h1)) /\ (Equal(g) => Equal(h1))
        /\ h1.dependents = [g.dependents EXCEPT ![s] = @ \ old]
    BY <1>0, WithoutDependentsKeeps
  <2> HIDE DEF h1
  <2>3. /\ Maps(h) /\ (Known(h1) => Known(h)) /\ (Equal(h1) => Equal(h))
        /\ h.dependents = [h1.dependents EXCEPT ![s] = @ \cup new]
    BY <2>1, <2>2, WithDependentsKeeps
  <2>4. h.dependents = [g.dependents EXCEPT ![s] = new]
    BY <2>2, <2>3 DEF Maps
  <2> QED
    BY <2>2, <2>3, <2>4
<1>2. CASE s \in old
  <2>1. PICK before \in SUBSET (old \ {s}) :
          LET h1 == WithoutDependents(g, s, before)
          IN /\ ~RemoveThrows(h1, s, s)
             /\ h = WithDependents(WithoutDependents(RemoveDependency(h1, s, s),
                                                     s, old \ (before \cup {s})), s, new)
    BY <1>2 DEF ReplaceDependents
  <2> DEFINE h1 == WithoutDependents(g, s, before)
             h2 == RemoveDependency(h1, s, s)
             h3 == WithoutDependents(h2, s, old \ (before \cup {s}))
  <2>2. ~RemoveThrows(h1, s, s) /\ h = WithDependents(h3, s, new)
    BY <2>1
  <2>3. /\ Maps(h1) /\ (Known(g) => Known(h1)) /\ (Equal(g) => Equal(h1))
        /\ h1.dependents = [g.dependents EXCEPT ![s] = @ \ before]
    BY <1>0, WithoutDependentsKeeps
  <2> HIDE DEF h1
  <2>4. /\ Maps(h2) /\ (Known(h1) => Known(h2)) /\ (Equal(h1) => Equal(h2))
        /\ h2.dependents = [h1.dependents EXCEPT ![s] = @ \ {s}]
    <3>1. Maps(h1) /\ ~RemoveThrows(h1, s, s)
      BY <2>2, <2>3
    <3>2. Maps(h2) /\ (Known(h1) => Known(h2))
      BY <3>1, RemoveKeeps
    <3>3. /\ Equal(h1) => Equal(h2)
          /\ h2.dependents = [h1.dependents EXCEPT ![s] = @ \ {s}]
      BY <3>1 DEF RemoveDependency, RemoveThrows, LosesKey, Maps, Equal
    <3> QED
      BY <3>2, <3>3
  <2> HIDE DEF h2
  <2>5. /\ Maps(h3) /\ (Known(h2) => Known(h3)) /\ (Equal(h2) => Equal(h3))
        /\ h3.dependents = [h2.dependents EXCEPT ![s] = @ \ (old \ (before \cup {s}))]
    BY <1>0, <2>4, WithoutDependentsKeeps
  <2> HIDE DEF h3
  <2>6. /\ Maps(h) /\ (Known(h3) => Known(h)) /\ (Equal(h3) => Equal(h))
        /\ h.dependents = [h3.dependents EXCEPT ![s] = @ \cup new]
    BY <2>2, <2>5, WithDependentsKeeps
  <2>7. h.dependents = [g.dependents EXCEPT ![s] = new]
    <3>1. h3.dependents = [g.dependents EXCEPT ![s] = {}]
      BY <2>3, <2>4, <2>5 DEF Maps
    <3> QED
      BY <2>6, <3>1 DEF Maps
  <2> QED
    BY <2>3, <2>4, <2>5, <2>6, <2>7
<1> QED
  BY <1>1, <1>2

\* The same for the dependees.
LEMMA ReplaceDependeesKeeps ==
  ASSUME NEW g, Maps(g), NEW s \in Node, NEW new \in SUBSET Node,
         NEW h \in ReplaceDependees(g, s, new)
  PROVE  /\ Maps(h) /\ (Known(g) => Known(h)) /\ (Equal(g) => Equal(h))
         /\ h.dependees = [g.dependees EXCEPT ![s] = new]
<1> DEFINE old == g.dependees[s]
<1>0. old \in SUBSET Node
  BY DEF Maps
<1>1. CASE s \notin old
  <2> DEFINE h1 == WithoutDependees(g, s, old)
  <2>1. h = WithDependees(h1, s, new)
    BY <1>1 DEF ReplaceDependees
  <2>2. /\ Maps(h1) /\ (Known(g) => Known(h1)) /\ (Equal(g) => Equal(h1))
        /\ h1.dependees = [g.dependees EXCEPT ![s] = @ \ old]
    BY <1>0, WithoutDependeesKeeps
  <2> HIDE DEF h1
  <2>3. /\ Maps(h) /\ (Known(h1) => Known(h)) /\ (Equal(h1) => Equal(h))
        /\ h.dependees = [h1.dependees EXCEPT ![s] = @ \cup new]
    BY <2>1, <2>2, WithDependeesKeeps
  <2>4. h.dependees = [g.dependees EXCEPT ![s] = new]
    BY <2>2, <2>3 DEF Maps
  <2> QED
    BY <2>2, <2>3, <2>4
<1>2. CASE s \in old
  <2>1. PICK before \in SUBSET (old \ {s}) :
          LET h1 == WithoutDependees(g, s, before)
          IN /\ ~RemoveThrows(h1, s, s)
             /\ h = WithDependees(WithoutDependees(RemoveDependency(h1, s, s),
                                                   s, old \ (before \cup {s})), s, new)
    BY <1>2 DEF ReplaceDependees
  <2> DEFINE h1 == WithoutDependees(g, s, before)
             h2 == RemoveDependency(h1, s, s)
             h3 == WithoutDependees(h2, s, old \ (before \cup {s}))
  <2>2. ~RemoveThrows(h1, s, s) /\ h = WithDependees(h3, s, new)
    BY <2>1
  <2>3. /\ Maps(h1) /\ (Known(g) => Known(h1)) /\ (Equal(g) => Equal(h1))
        /\ h1.dependees = [g.dependees EXCEPT ![s] = @ \ before]
    BY <1>0, WithoutDependeesKeeps
  <2> HIDE DEF h1
  <2>4. /\ Maps(h2) /\ (Known(h1) => Known(h2)) /\ (Equal(h1) => Equal(h2))
        /\ h2.dependees = [h1.dependees EXCEPT ![s] = @ \ {s}]
    <3>1. Maps(h1) /\ ~RemoveThrows(h1, s, s)
      BY <2>2, <2>3
    <3>2. Maps(h2) /\ (Known(h1) => Known(h2))
      BY <3>1, RemoveKeeps
    <3>3. /\ Equal(h1) => Equal(h2)
          /\ h2.dependees = [h1.dependees EXCEPT ![s] = @ \ {s}]
      BY <3>1 DEF RemoveDependency, RemoveThrows, LosesKey, Maps, Equal
    <3> QED
      BY <3>2, <3>3
  <2> HIDE DEF h2
  <2>5. /\ Maps(h3) /\ (Known(h2) => Known(h3)) /\ (Equal(h2) => Equal(h3))
        /\ h3.dependees = [h2.dependees EXCEPT ![s] = @ \ (old \ (before \cup {s}))]
    BY <1>0, <2>4, WithoutDependeesKeeps
  <2> HIDE DEF h3
  <2>6. /\ Maps(h) /\ (Known(h3) => Known(h)) /\ (Equal(h3) => Equal(h))
        /\ h.dependees = [h3.dependees EXCEPT ![s] = @ \cup new]
    BY <2>2, <2>5, WithDependeesKeeps
  <2>7. h.dependees = [g.dependees EXCEPT ![s] = new]
    <3>1. h3.dependees = [g.dependees EXCEPT ![s] = {}]
      BY <2>3, <2>4, <2>5 DEF Maps
    <3> QED
      BY <2>6, <3>1 DEF Maps
  <2> QED
    BY <2>3, <2>4, <2>5, <2>6, <2>7
<1> QED
  BY <1>1, <1>2

\* A replacement that throws leaves the dictionaries maps and known.
LEMMA AbortKeeps ==
  ASSUME NEW g, Maps(g), NEW s \in Node,
         NEW h \in AbortReplaceDependents(g, s) \cup AbortReplaceDependees(g, s)
  PROVE  Maps(h) /\ (Known(g) => Known(h))
<1>1. CASE h \in AbortReplaceDependents(g, s)
  <2>1. PICK before \in SUBSET (g.dependents[s] \ {s}) :
          h = RemoveDependency(WithoutDependents(g, s, before), s, s)
    BY <1>1 DEF AbortReplaceDependents
  <2> DEFINE h1 == WithoutDependents(g, s, before)
  <2>2. Maps(h1) /\ (Known(g) => Known(h1))
    <3>1. before \in SUBSET Node
      BY DEF Maps
    <3> QED
      BY <3>1, WithoutDependentsKeeps
  <2> HIDE DEF h1
  <2>3. Maps(h) /\ (Known(h1) => Known(h))
    BY <2>1, <2>2, RemoveKeeps DEF h1
  <2> QED
    BY <2>2, <2>3
<1>2. CASE h \in AbortReplaceDependees(g, s)
  <2>1. PICK before \in SUBSET (g.dependees[s] \ {s}) :
          h = RemoveDependency(WithoutDependees(g, s, before), s, s)
    BY <1>2 DEF AbortReplaceDependees
  <2> DEFINE h1 == WithoutDependees(g, s, before)
  <2>2. Maps(h1) /\ (Known(g) => Known(h1))
    <3>1. before \in SUBSET Node
      BY DEF Maps
    <3> QED
      BY <3>1, WithoutDependeesKeeps
  <2> HIDE DEF h1
  <2>3. Maps(h) /\ (Known(h1) => Known(h))
    BY <2>1, <2>2, RemoveKeeps DEF h1
  <2> QED
    BY <2>2, <2>3
<1> QED
  BY <1>1, <1>2

-----------------------------------------------------------------------------

\* What every call keeps, whatever it throws.
Inv ==
  /\ Maps(graph)
  /\ thrown \in BOOLEAN
  /\ Known(graph)
  /\ ~thrown => Equal(graph)

\* The constructor starts with two empty dictionaries.
LEMMA InitKeeps == Init => Inv
<1> SUFFICES ASSUME Init
             PROVE  Inv
  OBVIOUS
<1>1. /\ graph.dependents = [n \in Node |-> {}]
      /\ graph.dependees = [n \in Node |-> {}]
      /\ thrown = FALSE
  BY DEF Init, EmptyGraph
<1>2. Maps(graph) /\ Known(graph) /\ Equal(graph)
  BY <1>1 DEF Maps, Known, Equal
<1> QED
  BY <1>1, <1>2 DEF Inv

\* Every call keeps the invariant.
LEMMA StepKeeps == Inv /\ [Next]_vars => Inv'
<1> SUFFICES ASSUME Inv, [Next]_vars
             PROVE  Inv'
  OBVIOUS
<1>0. /\ Maps(graph)
      /\ thrown \in BOOLEAN
      /\ Known(graph)
      /\ ~thrown => Equal(graph)
  BY DEF Inv
<1>1. ASSUME NEW s \in Node, NEW t \in Node, AddPair(s, t)
      PROVE  Inv'
  <2>1. graph' = AddDependency(graph, s, t) /\ thrown' = thrown
    BY <1>1 DEF AddPair
  <2>2. Maps(graph') /\ (Known(graph) => Known(graph')) /\ (Equal(graph) => Equal(graph'))
    BY <1>0, <2>1, AddKeeps
  <2> QED
    BY <1>0, <2>1, <2>2 DEF Inv, Maps, Known, Equal
<1>2. ASSUME NEW s \in Node, NEW t \in Node, RemovePair(s, t)
      PROVE  Inv'
  <2>1. /\ graph' = RemoveDependency(graph, s, t)
        /\ thrown' = (thrown \/ RemoveThrows(graph, s, t))
    BY <1>2 DEF RemovePair
  <2>2. Maps(graph') /\ (Known(graph) => Known(graph'))
    BY <1>0, <2>1, RemoveKeeps
  <2>3. thrown' \in BOOLEAN
    BY <1>0, <2>1 DEF RemoveThrows, LosesKey
  <2>4. ~thrown' => Equal(graph')
    <3> SUFFICES ASSUME ~thrown'
                 PROVE  Equal(graph')
      OBVIOUS
    <3>1. ~RemoveThrows(graph, s, t) /\ Equal(graph)
      BY <1>0, <2>1
    <3> QED
      BY <1>0, <2>1, <3>1, RemoveReturns
  <2> QED
    BY <1>0, <2>2, <2>3, <2>4 DEF Inv, Maps, Known, Equal
<1>3. ASSUME NEW s \in Node, NEW new \in SUBSET Node, SetDependents(s, new)
      PROVE  Inv'
  <2>1. graph' \in ReplaceDependents(graph, s, new) /\ thrown' = thrown
    BY <1>3 DEF SetDependents
  <2>2. Maps(graph') /\ (Known(graph) => Known(graph')) /\ (Equal(graph) => Equal(graph'))
    BY <1>0, <2>1, ReplaceDependentsKeeps
  <2> QED
    BY <1>0, <2>1, <2>2 DEF Inv, Maps, Known, Equal
<1>4. ASSUME NEW s \in Node, NEW new \in SUBSET Node, SetDependees(s, new)
      PROVE  Inv'
  <2>1. graph' \in ReplaceDependees(graph, s, new) /\ thrown' = thrown
    BY <1>4 DEF SetDependees
  <2>2. Maps(graph') /\ (Known(graph) => Known(graph')) /\ (Equal(graph) => Equal(graph'))
    BY <1>0, <2>1, ReplaceDependeesKeeps
  <2> QED
    BY <1>0, <2>1, <2>2 DEF Inv, Maps, Known, Equal
<1>5. ASSUME NEW s \in Node, Abort(s)
      PROVE  Inv'
  <2>1. /\ graph' \in AbortReplaceDependents(graph, s) \cup AbortReplaceDependees(graph, s)
        /\ thrown' = TRUE
    BY <1>5 DEF Abort
  <2>2. Maps(graph') /\ (Known(graph) => Known(graph'))
    BY <1>0, <2>1, AbortKeeps
  <2> QED
    BY <1>0, <2>1, <2>2 DEF Inv, Maps, Known, Equal
<1>6. CASE UNCHANGED vars
  BY <1>0, <1>6 DEF vars, Inv, Maps, Known, Equal
<1> QED
  BY <1>1, <1>2, <1>3, <1>4, <1>5, <1>6 DEF Next

\* The invariant holds of every object, at every time.
LEMMA Invariant == Spec => []Inv
  BY InitKeeps, StepKeeps, PTL DEF Spec

\* Whatever exceptions cut the calls short, no pair is in dependentGraph alone
\* (DependencyGraph.cs:117-177, 183-257).
THEOREM NoPairForgotten == Spec => []DependeesKnowAll
<1>1. Inv => DependeesKnowAll
  BY DEF Inv, Known, DependeesKnowAll
<1> QED
  BY <1>1, Invariant, PTL

\* Until a call throws, the dictionaries are two readings of one set of pairs.
THEOREM ReadingsAgree == Spec => []TwoReadings
<1>1. Inv => TwoReadings
  BY DEF Inv, Equal, TwoReadings
<1> QED
  BY <1>1, Invariant, PTL

-----------------------------------------------------------------------------
(* The calls as operations on the set of pairs.                            *)

\* The pairs of an object that has thrown nothing, read from the dependees.
LEMMA PairsOfDependees ==
  ASSUME Maps(graph), Equal(graph)
  PROVE  Pairs = {p \in Node \X Node : p[1] \in graph.dependees[p[2]]}
  BY DEF Pairs, Equal

\* A call that leaves an object without an exception did to the pairs what
\* DependencyRelation says of it.
LEMMA StepIsRelation == Inv /\ Inv' /\ [Next]_vars => [~thrown' => DR!Next]_<<Pairs, call>>
<1> SUFFICES ASSUME Inv, Inv', [Next]_vars, ~thrown'
             PROVE  DR!Next \/ (Pairs' = Pairs /\ call' = call)
  OBVIOUS
<1>0. Maps(graph) /\ (~thrown => Equal(graph)) /\ thrown \in BOOLEAN
  BY DEF Inv
<1>1. Maps(graph)' /\ Equal(graph)'
  BY DEF Inv
<1>2. ASSUME NEW s \in Node, NEW t \in Node, AddPair(s, t)
      PROVE  DR!Add(s, t)
  <2>1. graph' = AddDependency(graph, s, t) /\ call' = <<"AddDependency", s, {t}>>
    BY <1>2 DEF AddPair
  <2>2. graph'.dependents = [graph.dependents EXCEPT ![s] = @ \cup {t}]
    BY <1>0, <2>1, AddKeeps
  <2>3. Pairs' = Pairs \cup {<<s, t>>}
    BY <1>0, <2>2 DEF Pairs, Maps
  <2> QED
    BY <2>1, <2>3 DEF DR!Add
<1>3. ASSUME NEW s \in Node, NEW t \in Node, RemovePair(s, t)
      PROVE  DR!Remove(s, t)
  <2>1. graph' = RemoveDependency(graph, s, t) /\ call' = <<"RemoveDependency", s, {t}>>
    BY <1>3 DEF RemovePair
  <2>2. graph'.dependents = [graph.dependents EXCEPT ![s] = @ \ {t}]
    BY <2>1 DEF RemoveDependency
  <2>3. Pairs' = Pairs \ {<<s, t>>}
    BY <1>0, <2>2 DEF Pairs, Maps
  <2> QED
    BY <2>1, <2>3 DEF DR!Remove
<1>4. ASSUME NEW s \in Node, NEW new \in SUBSET Node, SetDependents(s, new)
      PROVE  DR!ReplaceFrom(s, new)
  <2>1. graph' \in ReplaceDependents(graph, s, new) /\ call' = <<"ReplaceDependents", s, new>>
    BY <1>4 DEF SetDependents
  <2>2. graph'.dependents = [graph.dependents EXCEPT ![s] = new]
    BY <1>0, <2>1, ReplaceDependentsKeeps
  <2>3. Pairs' = (Pairs \ DR!From(s)) \cup {<<s, t>> : t \in new}
    BY <1>0, <2>2 DEF Pairs, Maps, DR!From
  <2> QED
    BY <2>1, <2>3 DEF DR!ReplaceFrom
<1>5. ASSUME NEW s \in Node, NEW new \in SUBSET Node, SetDependees(s, new)
      PROVE  DR!ReplaceOnto(s, new)
  <2>1. /\ graph' \in ReplaceDependees(graph, s, new)
        /\ call' = <<"ReplaceDependees", s, new>>
        /\ thrown' = thrown
    BY <1>5 DEF SetDependees
  <2>2. graph'.dependees = [graph.dependees EXCEPT ![s] = new]
    BY <1>0, <2>1, ReplaceDependeesKeeps
  <2>3. Equal(graph)
    BY <1>0, <2>1
  <2>4. Pairs = {p \in Node \X Node : p[1] \in graph.dependees[p[2]]}
    BY <1>0, <2>3, PairsOfDependees
  <2>5. Pairs' = {p \in Node \X Node : p[1] \in graph'.dependees[p[2]]}
    BY <1>1 DEF Pairs, Equal
  <2>6. Pairs' = (Pairs \ DR!Onto(s)) \cup {<<t, s>> : t \in new}
    BY <1>0, <2>2, <2>4, <2>5 DEF Maps, DR!Onto
  <2> QED
    BY <2>1, <2>6 DEF DR!ReplaceOnto
<1>6. ASSUME NEW s \in Node, Abort(s)
      PROVE  FALSE
  BY <1>6 DEF Abort
<1>7. CASE UNCHANGED vars
  BY <1>7 DEF vars, Pairs
<1> QED
  BY <1>2, <1>3, <1>4, <1>5, <1>6, <1>7 DEF Next, DR!Next

\* The class is the relation it says it models: until a call throws, every
\* call does to the set of pairs what its name promises (DependencyGraph.cs:14-32).
THEOREM RelationKept == Spec => IsRelation
<1>1. Init => DR!Init
  BY DEF Init, EmptyGraph, Pairs, DR!Init
<1> QED
  BY <1>1, Invariant, StepIsRelation, PTL DEF Spec, IsRelation

-----------------------------------------------------------------------------
(* The counter.  It is changed by the helpers of the dependents' side only, *)
(* so it counts that side's pairs, whatever an exception leaves out of the  *)
(* other one.                                                               *)

PairsIn(g) == {p \in Node \X Node : p[2] \in g.dependents[p[1]]}

Sized(g) == g \in Graph /\ g.size = Cardinality(PairsIn(g))

\* The pairs of finitely many names can be counted.
LEMMA PairsFinite ==
  ASSUME IsFiniteSet(Node), NEW g
  PROVE  IsFiniteSet(PairsIn(g)) /\ Cardinality(PairsIn(g)) \in Nat
<1>1. IsFiniteSet(Node \X Node)
  BY FS_Product
<1>2. PairsIn(g) \in SUBSET (Node \X Node)
  BY DEF PairsIn
<1> QED
  BY <1>1, <1>2, FS_Subset, FS_CardinalityType

\* There are as many pairs of one name with others as there are others, on
\* either side.
LEMMA Fan ==
  ASSUME IsFiniteSet(Node), NEW s \in Node, NEW S \in SUBSET Node
  PROVE  /\ IsFiniteSet({s} \X S) /\ Cardinality({s} \X S) = Cardinality(S)
         /\ IsFiniteSet(S \X {s}) /\ Cardinality(S \X {s}) = Cardinality(S)
         /\ IsFiniteSet(S) /\ Cardinality(S) \in Nat
<1>1. IsFiniteSet(S) /\ Cardinality(S) \in Nat
  BY FS_Subset, FS_CardinalityType
<1>2. IsFiniteSet({s}) /\ Cardinality({s}) = 1
  BY FS_Singleton
<1>3. /\ IsFiniteSet({s} \X S) /\ Cardinality({s} \X S) = Cardinality({s}) * Cardinality(S)
      /\ IsFiniteSet(S \X {s}) /\ Cardinality(S \X {s}) = Cardinality(S) * Cardinality({s})
  BY <1>1, <1>2, FS_Product
<1> QED
  BY <1>1, <1>2, <1>3

\* Pairs taken out are subtracted, pairs put in are added.
LEMMA Balance ==
  ASSUME NEW A, NEW B, IsFiniteSet(A), IsFiniteSet(B), A \cap B = {}
  PROVE  Cardinality(A \cup B) = Cardinality(A) + Cardinality(B)
<1>1. Cardinality(A \cap B) = 0
  BY FS_EmptySet, Zenon
<1>2. Cardinality(A \cup B) = Cardinality(A) + Cardinality(B) - Cardinality(A \cap B)
  BY FS_Union
<1>3. Cardinality(A) \in Nat /\ Cardinality(B) \in Nat
  BY FS_CardinalityType
<1> QED
  BY <1>1, <1>2, <1>3

\* A graph with some pairs fewer is of the right size if they are subtracted.
LEMMA Fewer ==
  ASSUME IsFiniteSet(Node), NEW g, Sized(g), NEW h, NEW gone, IsFiniteSet(gone),
         h.dependents \in [Node -> SUBSET Node], h.dependees \in [Node -> SUBSET Node],
         h = [dependents |-> h.dependents, dependees |-> h.dependees, size |-> h.size],
         PairsIn(g) = PairsIn(h) \cup gone, PairsIn(h) \cap gone = {},
         h.size = g.size - Cardinality(gone)
  PROVE  Sized(h)
<1>1. IsFiniteSet(PairsIn(h)) /\ Cardinality(PairsIn(h)) \in Nat
  BY PairsFinite
<1>2. Cardinality(PairsIn(g)) = Cardinality(PairsIn(h)) + Cardinality(gone)
  BY <1>1, Balance
<1>3. Cardinality(gone) \in Nat
  BY FS_CardinalityType
<1>4. h.size = Cardinality(PairsIn(h))
  BY <1>1, <1>2, <1>3 DEF Sized
<1> QED
  BY <1>1, <1>4 DEF Sized, Graph

\* One with some pairs more, if they are added.
LEMMA More ==
  ASSUME IsFiniteSet(Node), NEW g, Sized(g), NEW h, NEW come, IsFiniteSet(come),
         h.dependents \in [Node -> SUBSET Node], h.dependees \in [Node -> SUBSET Node],
         h = [dependents |-> h.dependents, dependees |-> h.dependees, size |-> h.size],
         PairsIn(h) = PairsIn(g) \cup come, PairsIn(g) \cap come = {},
         h.size = g.size + Cardinality(come)
  PROVE  Sized(h)
<1>1. IsFiniteSet(PairsIn(g)) /\ Cardinality(PairsIn(h)) \in Nat
  BY PairsFinite
<1>2. Cardinality(PairsIn(h)) = Cardinality(PairsIn(g)) + Cardinality(come)
  BY <1>1, Balance
<1> QED
  BY <1>1, <1>2 DEF Sized, Graph

\* AddDependency counts the pair if it is new.
LEMMA AddSized ==
  ASSUME IsFiniteSet(Node), NEW g, Sized(g), NEW s \in Node, NEW t \in Node
  PROVE  Sized(AddDependency(g, s, t))
<1> DEFINE h    == AddDependency(g, s, t)
           come == IF t \in g.dependents[s] THEN {} ELSE {<<s, t>>}
<1>1. g \in Graph
  BY DEF Sized
<1>2. /\ h.dependents \in [Node -> SUBSET Node] /\ h.dependees \in [Node -> SUBSET Node]
      /\ h = [dependents |-> h.dependents, dependees |-> h.dependees, size |-> h.size]
      /\ h.dependents = [g.dependents EXCEPT ![s] = @ \cup {t}]
  BY <1>1 DEF AddDependency, Graph
<1>3. IsFiniteSet(come) /\ Cardinality(come) = IF t \in g.dependents[s] THEN 0 ELSE 1
  BY FS_EmptySet, FS_Singleton
<1>4. h.size = g.size + Cardinality(come)
  BY <1>1, <1>3 DEF AddDependency, Graph
<1>5. PairsIn(h) = PairsIn(g) \cup come /\ PairsIn(g) \cap come = {}
  BY <1>1, <1>2 DEF PairsIn, Graph
<1> HIDE DEF h, come
<1>6. Sized(h)
  BY <1>2, <1>3, <1>4, <1>5, More
<1> QED
  BY <1>6 DEF h

\* RemoveDependency counts the pair down if it was there, also if it throws.
LEMMA RemoveSized ==
  ASSUME IsFiniteSet(Node), NEW g, Sized(g), NEW s \in Node, NEW t \in Node
  PROVE  Sized(RemoveDependency(g, s, t))
<1> DEFINE h    == RemoveDependency(g, s, t)
           gone == IF t \in g.dependents[s] THEN {<<s, t>>} ELSE {}
<1>1. g \in Graph
  BY DEF Sized
<1>2. /\ h.dependents \in [Node -> SUBSET Node] /\ h.dependees \in [Node -> SUBSET Node]
      /\ h = [dependents |-> h.dependents, dependees |-> h.dependees, size |-> h.size]
      /\ h.dependents = [g.dependents EXCEPT ![s] = @ \ {t}]
  BY <1>1 DEF RemoveDependency, Graph
<1>3. IsFiniteSet(gone) /\ Cardinality(gone) = IF t \in g.dependents[s] THEN 1 ELSE 0
  BY FS_EmptySet, FS_Singleton
<1>4. h.size = g.size - Cardinality(gone)
  BY <1>1, <1>3 DEF RemoveDependency, Graph
<1>5. PairsIn(g) = PairsIn(h) \cup gone /\ PairsIn(h) \cap gone = {}
  BY <1>1, <1>2 DEF PairsIn, Graph
<1> HIDE DEF h, gone
<1>6. Sized(h)
  BY <1>2, <1>3, <1>4, <1>5, Fewer
<1> QED
  BY <1>6 DEF h

\* So do the first loops, as far as they have gone.
LEMMA WithoutDependentsSized ==
  ASSUME IsFiniteSet(Node), NEW g, Sized(g), NEW s \in Node, NEW names \in SUBSET Node
  PROVE  Sized(WithoutDependents(g, s, names))
<1> DEFINE h    == WithoutDependents(g, s, names)
           gone == {s} \X (g.dependents[s] \cap names)
<1>1. g \in Graph
  BY DEF Sized
<1>2. /\ h.dependents \in [Node -> SUBSET Node] /\ h.dependees \in [Node -> SUBSET Node]
      /\ h = [dependents |-> h.dependents, dependees |-> h.dependees, size |-> h.size]
      /\ h.dependents = [g.dependents EXCEPT ![s] = @ \ names]
      /\ h.size = g.size - Cardinality(g.dependents[s] \cap names)
  BY <1>1 DEF WithoutDependents, Graph
<1>3. IsFiniteSet(gone) /\ Cardinality(gone) = Cardinality(g.dependents[s] \cap names)
  <2>1. g.dependents[s] \cap names \in SUBSET Node
    BY <1>1 DEF Graph
  <2> QED
    BY <2>1, Fan
<1>4. PairsIn(g) = PairsIn(h) \cup gone /\ PairsIn(h) \cap gone = {}
  BY <1>1, <1>2 DEF PairsIn, Graph
<1> HIDE DEF h, gone
<1>5. Sized(h)
  BY <1>2, <1>3, <1>4, Fewer
<1> QED
  BY <1>5 DEF h

LEMMA WithoutDependeesSized ==
  ASSUME IsFiniteSet(Node), NEW g, Sized(g), NEW s \in Node, NEW names \in SUBSET Node
  PROVE  Sized(WithoutDependees(g, s, names))
<1> DEFINE h    == WithoutDependees(g, s, names)
           gone == {n \in names : s \in g.dependents[n]} \X {s}
<1>1. g \in Graph
  BY DEF Sized
<1>2. /\ h.dependents \in [Node -> SUBSET Node] /\ h.dependees \in [Node -> SUBSET Node]
      /\ h = [dependents |-> h.dependents, dependees |-> h.dependees, size |-> h.size]
      /\ h.dependents = [n \in Node |-> IF n \in names THEN g.dependents[n] \ {s} ELSE g.dependents[n]]
      /\ h.size = g.size - Cardinality({n \in names : s \in g.dependents[n]})
  BY <1>1 DEF WithoutDependees, Graph
<1>3. IsFiniteSet(gone) /\ Cardinality(gone) = Cardinality({n \in names : s \in g.dependents[n]})
  <2>1. {n \in names : s \in g.dependents[n]} \in SUBSET Node
    OBVIOUS
  <2> QED
    BY <2>1, Fan
<1>4. PairsIn(g) = PairsIn(h) \cup gone /\ PairsIn(h) \cap gone = {}
  BY <1>1, <1>2 DEF PairsIn, Graph
<1> HIDE DEF h, gone
<1>5. Sized(h)
  BY <1>2, <1>3, <1>4, Fewer
<1> QED
  BY <1>5 DEF h

\* And the second loops.
LEMMA WithDependentsSized ==
  ASSUME IsFiniteSet(Node), NEW g, Sized(g), NEW s \in Node, NEW new \in SUBSET Node
  PROVE  Sized(WithDependents(g, s, new))
<1> DEFINE h    == WithDependents(g, s, new)
           come == {s} \X (new \ g.dependents[s])
<1>1. g \in Graph
  BY DEF Sized
<1>2. /\ h.dependents \in [Node -> SUBSET Node] /\ h.dependees \in [Node -> SUBSET Node]
      /\ h = [dependents |-> h.dependents, dependees |-> h.dependees, size |-> h.size]
      /\ h.dependents = [g.dependents EXCEPT ![s] = @ \cup new]
      /\ h.size = g.size + Cardinality(new \ g.dependents[s])
  BY <1>1 DEF WithDependents, Graph
<1>3. IsFiniteSet(come) /\ Cardinality(come) = Cardinality(new \ g.dependents[s])
  BY Fan
<1>4. PairsIn(h) = PairsIn(g) \cup come /\ PairsIn(g) \cap come = {}
  BY <1>1, <1>2 DEF PairsIn, Graph
<1> HIDE DEF h, come
<1>5. Sized(h)
  BY <1>2, <1>3, <1>4, More
<1> QED
  BY <1>5 DEF h

LEMMA WithDependeesSized ==
  ASSUME IsFiniteSet(Node), NEW g, Sized(g), NEW s \in Node, NEW new \in SUBSET Node
  PROVE  Sized(WithDependees(g, s, new))
<1> DEFINE h    == WithDependees(g, s, new)
           come == {n \in new : s \notin g.dependents[n]} \X {s}
<1>1. g \in Graph
  BY DEF Sized
<1>2. /\ h.dependents \in [Node -> SUBSET Node] /\ h.dependees \in [Node -> SUBSET Node]
      /\ h = [dependents |-> h.dependents, dependees |-> h.dependees, size |-> h.size]
      /\ h.dependents = [n \in Node |-> IF n \in new THEN g.dependents[n] \cup {s} ELSE g.dependents[n]]
      /\ h.size = g.size + Cardinality({n \in new : s \notin g.dependents[n]})
  BY <1>1 DEF WithDependees, Graph
<1>3. IsFiniteSet(come) /\ Cardinality(come) = Cardinality({n \in new : s \notin g.dependents[n]})
  <2>1. {n \in new : s \notin g.dependents[n]} \in SUBSET Node
    OBVIOUS
  <2> QED
    BY <2>1, Fan
<1>4. PairsIn(h) = PairsIn(g) \cup come /\ PairsIn(g) \cap come = {}
  BY <1>1, <1>2 DEF PairsIn, Graph
<1> HIDE DEF h, come
<1>5. Sized(h)
  BY <1>2, <1>3, <1>4, More
<1> QED
  BY <1>5 DEF h

\* A replacement counts right, wherever s is in the order of the set and
\* whether or not it returns.
LEMMA ReplaceDependentsSized ==
  ASSUME IsFiniteSet(Node), NEW g, Sized(g), NEW s \in Node, NEW new \in SUBSET Node,
         NEW h \in ReplaceDependents(g, s, new) \cup AbortReplaceDependents(g, s)
  PROVE  Sized(h)
<1> DEFINE old == g.dependents[s]
<1>1. old \in SUBSET Node
  BY DEF Sized, Graph
<1>2. CASE s \notin old
  <2>1. h = WithDependents(WithoutDependents(g, s, old), s, new)
    BY <1>2 DEF ReplaceDependents, AbortReplaceDependents
  <2> QED
    BY <1>1, <2>1, WithoutDependentsSized, WithDependentsSized
<1>3. CASE s \in old
  <2>1. PICK before \in SUBSET (old \ {s}) :
          LET h1 == RemoveDependency(WithoutDependents(g, s, before), s, s)
          IN \/ h = WithDependents(WithoutDependents(h1, s, old \ (before \cup {s})), s, new)
             \/ h = h1
    BY <1>3 DEF ReplaceDependents, AbortReplaceDependents
  <2> DEFINE h1 == RemoveDependency(WithoutDependents(g, s, before), s, s)
             h2 == WithoutDependents(h1, s, old \ (before \cup {s}))
  <2>2. Sized(h1)
    BY <1>1, WithoutDependentsSized, RemoveSized
  <2>3. h = WithDependents(h2, s, new) \/ h = h1
    BY <2>1
  <2> HIDE DEF h1
  <2>4. Sized(h2)
    BY <1>1, <2>2, WithoutDependentsSized
  <2> HIDE DEF h2
  <2> QED
    BY <2>2, <2>3, <2>4, WithDependentsSized
<1> QED
  BY <1>2, <1>3

LEMMA ReplaceDependeesSized ==
  ASSUME IsFiniteSet(Node), NEW g, Sized(g), NEW s \in Node, NEW new \in SUBSET Node,
         NEW h \in ReplaceDependees(g, s, new) \cup AbortReplaceDependees(g, s)
  PROVE  Sized(h)
<1> DEFINE old == g.dependees[s]
<1>1. old \in SUBSET Node
  BY DEF Sized, Graph
<1>2. CASE s \notin old
  <2>1. h = WithDependees(WithoutDependees(g, s, old), s, new)
    BY <1>2 DEF ReplaceDependees, AbortReplaceDependees
  <2> QED
    BY <1>1, <2>1, WithoutDependeesSized, WithDependeesSized
<1>3. CASE s \in old
  <2>1. PICK before \in SUBSET (old \ {s}) :
          LET h1 == RemoveDependency(WithoutDependees(g, s, before), s, s)
          IN \/ h = WithDependees(WithoutDependees(h1, s, old \ (before \cup {s})), s, new)
             \/ h = h1
    BY <1>3 DEF ReplaceDependees, AbortReplaceDependees
  <2> DEFINE h1 == RemoveDependency(WithoutDependees(g, s, before), s, s)
             h2 == WithoutDependees(h1, s, old \ (before \cup {s}))
  <2>2. Sized(h1)
    BY <1>1, WithoutDependeesSized, RemoveSized
  <2>3. h = WithDependees(h2, s, new) \/ h = h1
    BY <2>1
  <2> HIDE DEF h1
  <2>4. Sized(h2)
    BY <1>1, <2>2, WithoutDependeesSized
  <2> HIDE DEF h2
  <2> QED
    BY <2>2, <2>3, <2>4, WithDependeesSized
<1> QED
  BY <1>2, <1>3

\* Every call keeps the count.
LEMMA StepSized ==
  ASSUME IsFiniteSet(Node), Sized(graph), [Next]_vars
  PROVE  Sized(graph')
<1>1. ASSUME NEW s \in Node, NEW t \in Node, AddPair(s, t) \/ RemovePair(s, t)
      PROVE  Sized(graph')
  BY <1>1, AddSized, RemoveSized DEF AddPair, RemovePair
<1>2. ASSUME NEW s \in Node, NEW new \in SUBSET Node, SetDependents(s, new) \/ SetDependees(s, new)
      PROVE  Sized(graph')
  BY <1>2, ReplaceDependentsSized, ReplaceDependeesSized DEF SetDependents, SetDependees
<1>3. ASSUME NEW s \in Node, Abort(s)
      PROVE  Sized(graph')
  <2>1. {} \in SUBSET Node
    OBVIOUS
  <2> QED
    BY <1>3, <2>1, ReplaceDependentsSized, ReplaceDependeesSized DEF Abort
<1>4. CASE UNCHANGED vars
  BY <1>4 DEF vars
<1> QED
  BY <1>1, <1>2, <1>3, <1>4 DEF Next

\* Of every object, at every time.
LEMMA AlwaysSized ==
  ASSUME IsFiniteSet(Node)
  PROVE  Spec => []Sized(graph)
<1>1. Init => Sized(graph)
  <2> SUFFICES ASSUME Init
               PROVE  Sized(graph)
    OBVIOUS
  <2>1. PairsIn(graph) = {} /\ graph \in Graph /\ graph.size = 0
    BY DEF Init, EmptyGraph, PairsIn, Graph
  <2> QED
    BY <2>1, FS_EmptySet DEF Sized
<1>2. Sized(graph) /\ [Next]_vars => Sized(graph)'
  BY StepSized
<1> QED
  BY <1>1, <1>2, PTL DEF Spec

\* The size of an object is the number of its pairs, whatever calls threw, for
\* any finite set of names (DependencyGraph.cs:66).
THEOREM SizeKept == Spec => []SizeCounts
<1>1. Sized(graph) => SizeCounts
  BY DEF Sized, SizeCounts, Pairs, PairsIn
<1> QED
  BY <1>1, AlwaysSized, NodeAssumption, PTL

\* The dictionaries are dictionaries of sets, and the counter is never
\* negative, though a call may count down and then throw.
THEOREM ClientGraphTypes == Spec => []TypeOK
<1>1. Sized(graph) /\ Inv => TypeOK
  BY DEF Sized, Inv, TypeOK
<1> QED
  BY <1>1, AlwaysSized, NodeAssumption, Invariant, PTL

-----------------------------------------------------------------------------
(* The server's class.                                                     *)

Bounds ==
  /\ serverGraph \in Server!Graph
  /\ serverSize \in 0..MaxSize
  /\ Cardinality(Server!PairsOf(serverGraph)) <= serverSize

-----------------------------------------------------------------------------

LEMMA SameCardinality == \A S : Server!Cardinality(S) = Cardinality(S)
  BY Zenon DEF Server!Cardinality, Cardinality

\* The pairs of finitely many names can be counted.
LEMMA ServerPairsFinite ==
  ASSUME IsFiniteSet(Node), NEW g
  PROVE  IsFiniteSet(Server!PairsOf(g)) /\ Cardinality(Server!PairsOf(g)) \in Nat
<1>1. IsFiniteSet(Node \X Node)
  BY FS_Product
<1>2. Server!PairsOf(g) \in SUBSET (Node \X Node)
  BY DEF Server!PairsOf
<1> QED
  BY <1>1, <1>2, FS_Subset, FS_CardinalityType

\* What is left of the pairs, with those that are new, is within the old size
\* and the number of the new.
LEMMA NewPairs ==
  ASSUME IsFiniteSet(Node), NEW before, NEW between, NEW after,
         Server!PairsOf(between) \subseteq Server!PairsOf(before)
  PROVE  /\ Cardinality(Server!PairsOf(after) \ Server!PairsOf(between)) \in Nat
         /\ Cardinality(Server!PairsOf(after))
              <= Cardinality(Server!PairsOf(before)) + Cardinality(Server!PairsOf(after) \ Server!PairsOf(between))
<1> DEFINE A == Server!PairsOf(after)
           B == Server!PairsOf(between)
           C == Server!PairsOf(before)
<1>1. /\ IsFiniteSet(A) /\ Cardinality(A) \in Nat
      /\ IsFiniteSet(B) /\ Cardinality(B) \in Nat
      /\ IsFiniteSet(C) /\ Cardinality(C) \in Nat
  BY ServerPairsFinite
<1>2. B \in SUBSET C
  OBVIOUS
<1> HIDE DEF A, B, C
<1>3. Cardinality(A \ B) = Cardinality(A) - Cardinality(A \cap B)
  BY <1>1, FS_Difference
<1>4. A \cap B \in SUBSET C
  BY <1>2
<1>5. IsFiniteSet(A \cap B) /\ Cardinality(A \cap B) <= Cardinality(C)
  BY <1>1, <1>4, FS_Subset
<1>6. Cardinality(A \cap B) \in Nat
  BY <1>5, FS_CardinalityType
<1>7. Cardinality(A \ B) \in Nat
  <2>1. IsFiniteSet(A \ B)
    BY <1>1, FS_Difference
  <2> QED
    BY <2>1, FS_CardinalityType
<1>8. Cardinality(A) <= Cardinality(C) + Cardinality(A \ B)
  BY <1>1, <1>3, <1>5, <1>6, <1>7
<1> QED
  BY <1>7, <1>8 DEF A, B, C

\* So a step that takes some pairs out, puts some in and counts the latter
\* keeps the bound.
LEMMA CountedKeeps ==
  ASSUME IsFiniteSet(Node), Bounds, serverGraph' \in Server!Graph,
         NEW between, Server!PairsOf(between) \subseteq Server!PairsOf(serverGraph),
         Server!Counted(between, serverGraph')
  PROVE  Bounds'
<1> DEFINE new == Cardinality(Server!PairsOf(serverGraph') \ Server!PairsOf(between))
<1>1. new \in Nat /\ Cardinality(Server!PairsOf(serverGraph')) <= Cardinality(Server!PairsOf(serverGraph)) + new
  BY NewPairs
<1>2. Cardinality(Server!PairsOf(serverGraph)) \in Nat /\ Cardinality(Server!PairsOf(serverGraph')) \in Nat
  BY ServerPairsFinite
<1>3. /\ serverSize \in 0..MaxSize /\ Cardinality(Server!PairsOf(serverGraph)) <= serverSize
      /\ serverSize' = serverSize + new /\ serverSize' <= MaxSize
  BY SameCardinality DEF Bounds, Server!Counted
<1> HIDE DEF new
<1>4. serverSize' \in 0..MaxSize /\ Cardinality(Server!PairsOf(serverGraph')) <= serverSize'
  BY <1>1, <1>2, <1>3, NodeAssumption
<1> QED
  BY <1>4 DEF Bounds

-----------------------------------------------------------------------------
(* The operations keep the maps maps, and their first loops add no pair.    *)

\* addDependency.
LEMMA AddIsGraph ==
  ASSUME NEW g \in Server!Graph, NEW s \in Node, NEW t \in Node
  PROVE  Server!AddDependency(g, s, t) \in Server!Graph
  BY DEF Server!AddDependency, Server!Graph

\* removeDependency.
LEMMA RemoveIsGraph ==
  ASSUME NEW g \in Server!Graph, NEW s \in Node, NEW t \in Node
  PROVE  /\ Server!RemoveDependency(g, s, t) \in Server!Graph
         /\ Server!PairsOf(Server!RemoveDependency(g, s, t)) \subseteq Server!PairsOf(g)
  BY DEF Server!RemoveDependency, Server!Graph, Server!PairsOf

\* The first loop of replaceDependents.
LEMMA DropDependentsIsGraph ==
  ASSUME NEW g \in Server!Graph, NEW s \in Node
  PROVE  /\ Server!DropDependents(g, s) \in Server!Graph
         /\ Server!PairsOf(Server!DropDependents(g, s)) \subseteq Server!PairsOf(g)
  BY DEF Server!DropDependents, Server!Graph, Server!PairsOf

\* The first loop of replaceDependees.
LEMMA DropDependeesIsGraph ==
  ASSUME NEW g \in Server!Graph, NEW s \in Node, NEW gone
  PROVE  /\ Server!DropDependees(g, s, gone) \in Server!Graph
         /\ Server!PairsOf(Server!DropDependees(g, s, gone)) \subseteq Server!PairsOf(g)
  BY DEF Server!DropDependees, Server!Graph, Server!PairsOf

\* The names of a vector.
LEMMA VectorNames ==
  ASSUME NEW new \in Server!Vector
  PROVE  \A i \in DOMAIN new : new[i] \in Node
<1>1. CASE new = << >>
  BY <1>1
<1>2. CASE \E m \in Node : new = <<m>>
  BY <1>2
<1>3. CASE \E m, n \in Node : new = <<m, n>>
  BY <1>3
<1> QED
  BY <1>1, <1>2, <1>3 DEF Server!Vector

\* The second loops.
LEMMA AddDependentsIsGraph ==
  ASSUME NEW g \in Server!Graph, NEW s \in Node, NEW new \in Server!Vector
  PROVE  Server!AddDependents(g, s, new) \in Server!Graph
  BY VectorNames DEF Server!AddDependents, Server!Graph

LEMMA AddDependeesIsGraph ==
  ASSUME NEW g \in Server!Graph, NEW s \in Node, NEW new \in Server!Vector
  PROVE  Server!AddDependees(g, s, new) \in Server!Graph
  BY VectorNames DEF Server!AddDependees, Server!Graph

-----------------------------------------------------------------------------

\* Every operation keeps the bound.
LEMMA StepKeepsBounds ==
  ASSUME IsFiniteSet(Node), Bounds, [Server!Next]_Server!vars
  PROVE  Bounds'
<1>0. serverGraph \in Server!Graph /\ serverSize \in Nat /\ Cardinality(Server!PairsOf(serverGraph)) <= serverSize
  BY DEF Bounds
<1>1. ASSUME NEW s \in Node, NEW t \in Node, Server!AddPair(s, t)
      PROVE  Bounds'
  <2>1. serverGraph' \in Server!Graph /\ Server!Counted(serverGraph, serverGraph')
    BY <1>0, <1>1, AddIsGraph DEF Server!AddPair
  <2> QED
    BY <2>1, CountedKeeps
<1>2. ASSUME NEW s \in Node, NEW t \in Node, Server!RemovePair(s, t)
      PROVE  Bounds'
  <2>1. serverGraph' \in Server!Graph /\ Server!PairsOf(serverGraph') \subseteq Server!PairsOf(serverGraph) /\ serverSize' = serverSize
    BY <1>0, <1>2, RemoveIsGraph DEF Server!RemovePair
  <2>2. IsFiniteSet(Server!PairsOf(serverGraph)) /\ Cardinality(Server!PairsOf(serverGraph)) \in Nat
        /\ Cardinality(Server!PairsOf(serverGraph')) \in Nat
    BY ServerPairsFinite
  <2>3. Cardinality(Server!PairsOf(serverGraph')) <= Cardinality(Server!PairsOf(serverGraph))
    BY <2>1, <2>2, FS_Subset
  <2> QED
    BY <1>0, <2>1, <2>2, <2>3 DEF Bounds
<1>3. ASSUME NEW s \in Node, NEW new \in Server!Vector, Server!SetDependents(s, new)
      PROVE  Bounds'
  <2>1. /\ Server!DropDependents(serverGraph, s) \in Server!Graph
        /\ Server!PairsOf(Server!DropDependents(serverGraph, s)) \subseteq Server!PairsOf(serverGraph)
    BY <1>0, DropDependentsIsGraph
  <2>2. serverGraph' \in Server!Graph /\ Server!Counted(Server!DropDependents(serverGraph, s), serverGraph')
    BY <1>3, <2>1, AddDependentsIsGraph DEF Server!SetDependents
  <2> QED
    BY <2>1, <2>2, CountedKeeps
<1>4. ASSUME NEW s \in Node, NEW new \in Server!Vector, Server!SetDependees(s, new)
      PROVE  Bounds'
  <2>1. PICK gone \in Server!Erasable(serverGraph, s) :
          /\ serverGraph' = Server!ReplaceDependees(serverGraph, s, new, gone)
          /\ Server!Counted(Server!DropDependees(serverGraph, s, gone), serverGraph')
    BY <1>4 DEF Server!SetDependees
  <2>2. /\ Server!DropDependees(serverGraph, s, gone) \in Server!Graph
        /\ Server!PairsOf(Server!DropDependees(serverGraph, s, gone)) \subseteq Server!PairsOf(serverGraph)
    BY <1>0, DropDependeesIsGraph
  <2>3. serverGraph' \in Server!Graph
    BY <2>1, <2>2, AddDependeesIsGraph DEF Server!ReplaceDependees
  <2> QED
    BY <2>1, <2>2, <2>3, CountedKeeps
<1>5. CASE UNCHANGED Server!vars
  BY <1>0, <1>5 DEF Server!vars, Bounds
<1> QED
  BY <1>1, <1>2, <1>3, <1>4, <1>5 DEF Server!Next

\* A new object has no pair and counts none.
LEMMA InitBounds == Server!Init => Bounds
<1> SUFFICES ASSUME Server!Init
             PROVE  Bounds
  OBVIOUS
<1>1. Server!PairsOf(serverGraph) = {} /\ serverGraph \in Server!Graph /\ serverSize = 0
  BY DEF Server!Init, Server!EmptyGraph, Server!PairsOf, Server!Graph
<1>2. 0 \in 0..MaxSize
  BY NodeAssumption
<1> QED
  BY <1>1, <1>2, FS_EmptySet DEF Bounds

\* Always.
LEMMA AlwaysBounds == Server!Spec => []Bounds
<1>1. Bounds /\ [Server!Next]_Server!vars => Bounds'
  BY StepKeepsBounds, NodeAssumption
<1> QED
  BY <1>1, InitBounds, PTL DEF Server!Spec

-----------------------------------------------------------------------------
(* An object of either class.                                              *)

\* Neither class does anything that an object of it would not do alone.
THEOREM EachAlone == GraphsSpec => Spec /\ Server!Spec
<1>1. GraphsInit => Init /\ Server!Init
  BY DEF GraphsInit
<1>2. [GraphsNext]_<<vars, serverGraph, serverSize>> => [Next]_vars /\ [Server!Next]_Server!vars
  BY DEF GraphsNext, Server!vars
<1> QED
  BY <1>1, <1>2, PTL DEF GraphsSpec, Spec, Server!Spec

\* Both classes keep the types of their maps and counters.
THEOREM GraphTypes == GraphsSpec => []TypesOK
<1>1. Bounds => Server!TypeOK
  BY DEF Bounds, Server!TypeOK
<1> QED
  BY <1>1, EachAlone, ClientGraphTypes, AlwaysBounds, PTL DEF TypesOK

\* The count is never behind the pairs that are left, for any finite set of
\* names and any order of the sets (addDependentHelper counts each insertion,
\* and helpRemoveDependent none of the removals).
THEOREM SizeKeepsUp == GraphsSpec => []SizeBounds
<1>1. Bounds => SizeBounds
  BY SameCardinality DEF Bounds, SizeBounds, Server!SizeBounds
<1> QED
  BY <1>1, EachAlone, AlwaysBounds, PTL


-----------------------------------------------------------------------------
(* Induction over the calls of a loop.                                     *)

\* Sets of natural numbers have a least member.
LEMMA NatMin ==
  ASSUME NEW T \in SUBSET Nat, T # {}
  PROVE  \E x \in T : \A y \in T : x <= y
<1> DEFINE R == OpToRel(<, Nat)
<1>1. \A x, y \in Nat : <<x, y>> \in R <=> x < y
  BY DEF OpToRel
<1>2. \E x \in T : \A y \in T : ~ (<<y, x>> \in R)
  <2>1. IsWellFoundedOn(R, Nat)
    BY NatLessThanWellFounded
  <2> HIDE DEF R
  <2>2. QED
    BY <2>1, WFMin, Zenon
<1> HIDE DEF R
<1>3. PICK x \in T : \A y \in T : ~ (<<y, x>> \in R)
  BY <1>2
<1>4. \A y \in T : ~(y < x)
  BY <1>1, <1>3
<1>5. \A y \in T : y \in Nat /\ x \in Nat
  OBVIOUS
<1>6. QED
  BY <1>4, <1>5

\* A set of numbers that begins with 0 and never ends has them all.
LEMMA NatSet ==
  ASSUME NEW S \in SUBSET Nat, 0 \in S, \A n \in S : n + 1 \in S
  PROVE  S = Nat
<1> SUFFICES ASSUME Nat \ S # {}
             PROVE  FALSE
  OBVIOUS
<1>1. PICK m \in Nat \ S : \A n \in Nat \ S : m <= n
  BY NatMin
<1>2. m # 0 /\ m - 1 \in Nat /\ ~(m <= m - 1)
  BY <1>1
<1>3. m - 1 \in S
  BY <1>1, <1>2
<1>4. (m - 1) + 1 = m
  BY <1>2
<1> QED
  BY <1>1, <1>3, <1>4

\* What a loop of n rounds computes is known from its stages, one for each
\* round.
LEMMA Stages ==
  ASSUME NEW n \in Nat, NEW run, NEW stage, run[0] = stage[0],
         \A i \in 1..n : run[i - 1] = stage[i - 1] => run[i] = stage[i]
  PROVE  run[n] = stage[n]
<1> DEFINE S == {i \in Nat : i <= n => run[i] = stage[i]}
<1>1. S \in SUBSET Nat /\ 0 \in S
  OBVIOUS
<1>2. ASSUME NEW i \in S PROVE i + 1 \in S
  <2> SUFFICES ASSUME i + 1 <= n PROVE run[i + 1] = stage[i + 1]
    OBVIOUS
  <2>1. i + 1 \in 1..n /\ (i + 1) - 1 = i /\ run[i] = stage[i]
    OBVIOUS
  <2> QED
    BY <2>1
<1>3. n \in S
  <2> HIDE DEF S
  <2> QED
    BY <1>1, <1>2, NatSet
<1> QED
  BY <1>3

\* The client's loop of removals.
LEMMA RemovalStages ==
  ASSUME NEW g, NEW calls, Len(calls) \in Nat, NEW stage,
         stage[0] = [graph |-> g, thrown |-> FALSE],
         \A i \in 1..Len(calls) : stage[i] = Removal(stage[i - 1], calls[i])
  PROVE  RemovalLoop(g, calls) = stage[Len(calls)]
<1> DEFINE n == Len(calls)
           Step(run, i) == IF i = 0 THEN [graph |-> g, thrown |-> FALSE]
                           ELSE Removal(run[i - 1], calls[i])
           Is(run) == run = [i \in 0..n |-> Step(run, i)]
           run == CHOOSE run : Is(run)
           known == [i \in 0..n |-> stage[i]]
<1>1. Is(known)
  <2>1. ASSUME NEW i \in 0..n PROVE stage[i] = Step(known, i)
    <3>1. CASE i = 0
      BY <3>1
    <3>2. CASE i # 0
      <4>1. i - 1 \in 0..n /\ i \in 1..n
        BY <3>2
      <4>2. known[i - 1] = stage[i - 1]
        BY <4>1
      <4> HIDE DEF known
      <4> QED
        BY <3>2, <4>1, <4>2
    <3> QED
      BY <3>1, <3>2
  <2> QED
    BY <2>1, Zenon
<1>2. Is(run)
  <2> HIDE DEF Is
  <2> QED
    BY <1>1
<1>3. RemovalLoop(g, calls) = run[n]
  BY DEF RemovalLoop
<1> HIDE DEF run
<1>4. \A i \in 0..n : run[i] = Step(run, i)
  <2> HIDE DEF Step
  <2> QED
    BY <1>2
<1>5. run[0] = stage[0]
  <2>1. 0 \in 0..n /\ Step(run, 0) = stage[0]
    OBVIOUS
  <2> HIDE DEF Step
  <2> QED
    BY <1>4, <2>1
<1>6. ASSUME NEW i \in 1..n, run[i - 1] = stage[i - 1] PROVE run[i] = stage[i]
  <2>1. i \in 0..n /\ i # 0
    OBVIOUS
  <2>2. run[i] = Removal(run[i - 1], calls[i])
    BY <1>4, <2>1
  <2> QED
    BY <1>6, <2>2
<1> QED
  BY <1>3, <1>5, <1>6, Stages

\* The client's loop of additions.
LEMMA AdditionStages ==
  ASSUME NEW g, NEW calls, Len(calls) \in Nat, NEW stage,
         stage[0] = g,
         \A i \in 1..Len(calls) : stage[i] = AddDependency(stage[i - 1], calls[i][1], calls[i][2])
  PROVE  AdditionLoop(g, calls) = stage[Len(calls)]
<1> DEFINE n == Len(calls)
           Step(run, i) == IF i = 0 THEN g
                           ELSE AddDependency(run[i - 1], calls[i][1], calls[i][2])
           Is(run) == run = [i \in 0..n |-> Step(run, i)]
           run == CHOOSE run : Is(run)
           known == [i \in 0..n |-> stage[i]]
<1>1. Is(known)
  <2>1. ASSUME NEW i \in 0..n PROVE stage[i] = Step(known, i)
    <3>1. CASE i = 0
      BY <3>1
    <3>2. CASE i # 0
      <4>1. i - 1 \in 0..n /\ i \in 1..n
        BY <3>2
      <4>2. known[i - 1] = stage[i - 1]
        BY <4>1
      <4> HIDE DEF known
      <4> QED
        BY <3>2, <4>1, <4>2
    <3> QED
      BY <3>1, <3>2
  <2> QED
    BY <2>1, Zenon
<1>2. Is(run)
  <2> HIDE DEF Is
  <2> QED
    BY <1>1
<1>3. AdditionLoop(g, calls) = run[n]
  BY DEF AdditionLoop
<1> HIDE DEF run
<1>4. \A i \in 0..n : run[i] = Step(run, i)
  <2> HIDE DEF Step
  <2> QED
    BY <1>2
<1>5. run[0] = stage[0]
  <2>1. 0 \in 0..n /\ Step(run, 0) = stage[0]
    OBVIOUS
  <2> HIDE DEF Step
  <2> QED
    BY <1>4, <2>1
<1>6. ASSUME NEW i \in 1..n, run[i - 1] = stage[i - 1] PROVE run[i] = stage[i]
  <2>1. i \in 0..n /\ i # 0
    OBVIOUS
  <2>2. run[i] = AddDependency(run[i - 1], calls[i][1], calls[i][2])
    BY <1>4, <2>1
  <2> QED
    BY <1>6, <2>2
<1> QED
  BY <1>3, <1>5, <1>6, Stages

\* The server's loop of removals.
LEMMA ServerRemovalStages ==
  ASSUME NEW g, NEW calls, Len(calls) \in Nat, NEW stage,
         stage[0] = g,
         \A i \in 1..Len(calls) : stage[i] = Server!RemoveDependency(stage[i - 1], calls[i][1], calls[i][2])
  PROVE  Server!RemovalLoop(g, calls) = stage[Len(calls)]
<1> DEFINE n == Len(calls)
           Step(run, i) == IF i = 0 THEN g
                           ELSE Server!RemoveDependency(run[i - 1], calls[i][1], calls[i][2])
           Is(run) == run = [i \in 0..n |-> Step(run, i)]
           run == CHOOSE run : Is(run)
           known == [i \in 0..n |-> stage[i]]
<1>1. Is(known)
  <2>1. ASSUME NEW i \in 0..n PROVE stage[i] = Step(known, i)
    <3>1. CASE i = 0
      BY <3>1
    <3>2. CASE i # 0
      <4>1. i - 1 \in 0..n /\ i \in 1..n
        BY <3>2
      <4>2. known[i - 1] = stage[i - 1]
        BY <4>1
      <4> HIDE DEF known
      <4> QED
        BY <3>2, <4>1, <4>2
    <3> QED
      BY <3>1, <3>2
  <2> QED
    BY <2>1, Zenon
<1>2. Is(run)
  <2> HIDE DEF Is
  <2> QED
    BY <1>1
<1>3. Server!RemovalLoop(g, calls) = run[n]
  BY DEF Server!RemovalLoop
<1> HIDE DEF run
<1>4. \A i \in 0..n : run[i] = Step(run, i)
  <2> HIDE DEF Step
  <2> QED
    BY <1>2
<1>5. run[0] = stage[0]
  <2>1. 0 \in 0..n /\ Step(run, 0) = stage[0]
    OBVIOUS
  <2> HIDE DEF Step
  <2> QED
    BY <1>4, <2>1
<1>6. ASSUME NEW i \in 1..n, run[i - 1] = stage[i - 1] PROVE run[i] = stage[i]
  <2>1. i \in 0..n /\ i # 0
    OBVIOUS
  <2>2. run[i] = Server!RemoveDependency(run[i - 1], calls[i][1], calls[i][2])
    BY <1>4, <2>1
  <2> QED
    BY <1>6, <2>2
<1> QED
  BY <1>3, <1>5, <1>6, Stages

\* The server's loop of additions.
LEMMA ServerAdditionStages ==
  ASSUME NEW g, NEW calls, Len(calls) \in Nat, NEW stage,
         stage[0] = g,
         \A i \in 1..Len(calls) : stage[i] = Server!AddDependency(stage[i - 1], calls[i][1], calls[i][2])
  PROVE  Server!AdditionLoop(g, calls) = stage[Len(calls)]
<1> DEFINE n == Len(calls)
           Step(run, i) == IF i = 0 THEN g
                           ELSE Server!AddDependency(run[i - 1], calls[i][1], calls[i][2])
           Is(run) == run = [i \in 0..n |-> Step(run, i)]
           run == CHOOSE run : Is(run)
           known == [i \in 0..n |-> stage[i]]
<1>1. Is(known)
  <2>1. ASSUME NEW i \in 0..n PROVE stage[i] = Step(known, i)
    <3>1. CASE i = 0
      BY <3>1
    <3>2. CASE i # 0
      <4>1. i - 1 \in 0..n /\ i \in 1..n
        BY <3>2
      <4>2. known[i - 1] = stage[i - 1]
        BY <4>1
      <4> HIDE DEF known
      <4> QED
        BY <3>2, <4>1, <4>2
    <3> QED
      BY <3>1, <3>2
  <2> QED
    BY <2>1, Zenon
<1>2. Is(run)
  <2> HIDE DEF Is
  <2> QED
    BY <1>1
<1>3. Server!AdditionLoop(g, calls) = run[n]
  BY DEF Server!AdditionLoop
<1> HIDE DEF run
<1>4. \A i \in 0..n : run[i] = Step(run, i)
  <2> HIDE DEF Step
  <2> QED
    BY <1>2
<1>5. run[0] = stage[0]
  <2>1. 0 \in 0..n /\ Step(run, 0) = stage[0]
    OBVIOUS
  <2> HIDE DEF Step
  <2> QED
    BY <1>4, <2>1
<1>6. ASSUME NEW i \in 1..n, run[i - 1] = stage[i - 1] PROVE run[i] = stage[i]
  <2>1. i \in 0..n /\ i # 0
    OBVIOUS
  <2>2. run[i] = Server!AddDependency(run[i - 1], calls[i][1], calls[i][2])
    BY <1>4, <2>1
  <2> QED
    BY <1>6, <2>2
<1> QED
  BY <1>3, <1>5, <1>6, Stages

-----------------------------------------------------------------------------
(* The orders in which a set can be enumerated.                            *)

\* An order names each member once.
LEMMA OrderFacts ==
  ASSUME NEW S, IsFiniteSet(S), NEW o \in SetToSeqs(S)
  PROVE  /\ Len(o) \in Nat /\ DOMAIN o = 1..Len(o) /\ o \in [1..Len(o) -> S]
         /\ \A i, j \in 1..Len(o) : o[i] = o[j] => i = j
         /\ \A x \in S : \E i \in 1..Len(o) : o[i] = x
<1> DEFINE n == Cardinality(S)
<1>1. n \in Nat
  BY FS_CardinalityType
<1>2. o \in [1..n -> S] /\ \A i, j \in 1..n : i # j => o[i] # o[j]
  BY DEF SetToSeqs
<1>3. o \in Injection(1..n, S)
  BY <1>2 DEF Injection, IsInjective
<1>4. Cardinality(1..n) = n
  BY <1>1, FS_Interval
<1>5. o \in Surjection(1..n, S)
  BY <1>3, <1>4, FS_Injection
<1> HIDE DEF n
<1>6. Len(o) = n /\ DOMAIN o = 1..n
  <2>1. o \in Seq(S)
    BY <1>1, <1>2
  <2>2. DOMAIN o = 1..Len(o) /\ Len(o) \in Nat
    BY <2>1, LenProperties
  <2>3. 1..Len(o) = 1..n
    BY <1>2, <2>2
  <2> QED
    BY <1>1, <1>2, <2>2, <2>3
<1> QED
  BY <1>1, <1>2, <1>5, <1>6 DEF Surjection

\* What does is an order.
LEMMA OrderFrom ==
  ASSUME NEW S, IsFiniteSet(S), NEW n \in Nat, NEW o \in [1..n -> S],
         \A i, j \in 1..n : o[i] = o[j] => i = j,
         \A x \in S : \E i \in 1..n : o[i] = x
  PROVE  o \in SetToSeqs(S)
<1>1. o \in Bijection(1..n, S)
  BY DEF Bijection, Injection, Surjection, IsInjective
<1>2. ExistsBijection(1..n, S)
  BY <1>1 DEF ExistsBijection
<1>3. Cardinality(S) = n
  BY <1>2, FS_CountingElements
<1> QED
  BY <1>3 DEF SetToSeqs

\* Every finite set has one.
LEMMA SomeOrder ==
  ASSUME NEW S, IsFiniteSet(S)
  PROVE  SetToSeq(S) \in SetToSeqs(S)
<1>1. ExistsBijection(1..Cardinality(S), S)
  BY FS_CardinalityType
<1>2. \E f \in [1..Cardinality(S) -> S] : IsInjective(f)
  BY <1>1 DEF ExistsBijection, Bijection, Injection
<1> DEFINE o == SetToSeq(S)
<1>3. o \in [1..Cardinality(S) -> S] /\ IsInjective(o)
  BY <1>2 DEF SetToSeq
<1> HIDE DEF o
<1>4. o \in SetToSeqs(S)
  BY <1>3 DEF SetToSeqs, IsInjective
<1> QED
  BY <1>4 DEF o

Ahead(o, k) == {o[j] : j \in 1..(k - 1)}

\* What comes before a member can be any set of others.
LEMMA OrderAround ==
  ASSUME NEW S, IsFiniteSet(S), NEW x \in S, NEW B \in SUBSET (S \ {x})
  PROVE  \E o \in SetToSeqs(S) : \E k \in 1..Len(o) :
           o[k] = x /\ Ahead(o, k) = B
<1> DEFINE C == S \ (B \cup {x})
           f == SetToSeq(B)
           h == SetToSeq(C)
           a == Len(f)
           c == Len(h)
           n == a + 1 + c
           o == [i \in 1..n |-> IF i <= a THEN f[i] ELSE IF i = a + 1 THEN x ELSE h[i - (a + 1)]]
<1>1. IsFiniteSet(B) /\ IsFiniteSet(C)
  <2>1. B \in SUBSET S /\ C \in SUBSET S
    OBVIOUS
  <2> QED
    BY <2>1, FS_Subset
<1>2. f \in SetToSeqs(B) /\ h \in SetToSeqs(C)
  BY <1>1, SomeOrder
<1> HIDE DEF f, h
<1>3. /\ a \in Nat /\ f \in [1..a -> B]
      /\ \A i, j \in 1..a : f[i] = f[j] => i = j
      /\ \A y \in B : \E i \in 1..a : f[i] = y
  BY <1>1, <1>2, OrderFacts
<1>4. /\ c \in Nat /\ h \in [1..c -> C]
      /\ \A i, j \in 1..c : h[i] = h[j] => i = j
      /\ \A y \in C : \E i \in 1..c : h[i] = y
  <2> HIDE DEF C
  <2> QED
    BY <1>1, <1>2, OrderFacts
<1> HIDE DEF a, c
<1>5. n \in Nat /\ a + 1 \in 1..n
  BY <1>3, <1>4
<1>6. /\ \A i \in 1..n : i <= a => o[i] = f[i] /\ o[i] \in B /\ i \in 1..a
      /\ o[a + 1] = x
      /\ \A i \in 1..n : i > a + 1 => /\ o[i] = h[i - (a + 1)] /\ o[i] \in C
                                      /\ i - (a + 1) \in 1..c
      /\ \A i \in 1..n : i <= a \/ i = a + 1 \/ i > a + 1
  <2>1. \A i \in 1..n : i <= a => i \in 1..a
    BY <1>3, <1>4
  <2>2. \A i \in 1..n : i > a + 1 => i - (a + 1) \in 1..c /\ ~(i <= a) /\ i # a + 1
    BY <1>3, <1>4
  <2>3. ~(a + 1 <= a)
    BY <1>3
  <2>4. \A i \in 1..n : i <= a \/ i = a + 1 \/ i > a + 1
    BY <1>3
  <2> HIDE DEF n, C
  <2> QED
    BY <1>3, <1>4, <1>5, <2>1, <2>2, <2>3, <2>4
<1>7. o \in [1..n -> S]
  <2>1. \A i \in 1..n : o[i] \in S
    <3> HIDE DEF o
    <3> QED
      BY <1>6
  <2> QED
    BY <2>1
<1>8. o[a + 1] = x
  BY <1>6
<1>9. {o[j] : j \in 1..((a + 1) - 1)} = B
  <2>1. \A j \in 1..((a + 1) - 1) : j \in 1..n /\ j \in 1..a /\ j <= a
    BY <1>3, <1>4
  <2>2. \A j \in 1..a : j \in 1..((a + 1) - 1)
    BY <1>3
  <2> HIDE DEF o, n
  <2>3. \A j \in 1..((a + 1) - 1) : o[j] = f[j] /\ o[j] \in B
    BY <1>6, <2>1
  <2> QED
    BY <1>3, <2>2, <2>3
<1>10. ASSUME NEW i \in 1..n, NEW j \in 1..n, o[i] = o[j] PROVE i = j
  <2>1. x \notin B /\ x \notin C /\ B \cap C = {}
    OBVIOUS
  <2>2. CASE i <= a /\ j <= a
    <3> HIDE DEF o, n, C
    <3> QED
      BY <1>3, <1>6, <1>10, <2>2
  <2>3. CASE i > a + 1 /\ j > a + 1
    <3>1. i - (a + 1) \in 1..c /\ j - (a + 1) \in 1..c /\ h[i - (a + 1)] = h[j - (a + 1)]
      <4> HIDE DEF o, n, C
      <4> QED
        BY <1>6, <1>10, <2>3
    <3>2. i - (a + 1) = j - (a + 1)
      BY <1>4, <3>1
    <3> QED
      BY <1>3, <3>2
  <2>4. CASE i = a + 1 /\ j = a + 1
    BY <2>4
  <2>5. CASE ~(i <= a /\ j <= a) /\ ~(i > a + 1 /\ j > a + 1) /\ ~(i = a + 1 /\ j = a + 1)
    <3> HIDE DEF o, n, C
    <3> QED
      BY <1>6, <1>10, <2>1, <2>5
  <2> QED
    BY <2>2, <2>3, <2>4, <2>5
<1>11. ASSUME NEW y \in S PROVE \E i \in 1..n : o[i] = y
  <2>1. CASE y = x
    BY <1>5, <1>8, <2>1
  <2>2. CASE y \in B
    <3>1. PICK i \in 1..a : f[i] = y
      BY <1>3, <2>2
    <3>2. i \in 1..n /\ i <= a
      BY <1>3, <1>4
    <3> HIDE DEF o
    <3> QED
      BY <1>6, <3>1, <3>2
  <2>3. CASE y \in C
    <3>1. PICK i \in 1..c : h[i] = y
      BY <1>4, <2>3
    <3>2. i + (a + 1) \in 1..n /\ i + (a + 1) > a + 1 /\ (i + (a + 1)) - (a + 1) = i
      BY <1>3, <1>4
    <3> HIDE DEF o
    <3> QED
      BY <1>6, <3>1, <3>2
  <2> QED
    BY <2>1, <2>2, <2>3
<1>12. o \in SetToSeqs(S)
  <2> HIDE DEF o, n
  <2> QED
    BY <1>5, <1>7, <1>10, <1>11, OrderFrom
<1>13. Len(o) = n
  BY <1>5
<1> HIDE DEF o
<1> QED
  BY <1>5, <1>8, <1>9, <1>12, <1>13 DEF Ahead

-----------------------------------------------------------------------------
(* The loops of the client's replacements.  A direction d says which: the  *)
(* names replaced are the dependents of s, or its dependees.               *)

Direction == {"dependents", "dependees"}

CallOf(d, s, t) == IF d = "dependents" THEN <<s, t>> ELSE <<t, s>>

Without(d, g, s, gone) ==
  IF d = "dependents" THEN WithoutDependents(g, s, gone) ELSE WithoutDependees(g, s, gone)

With(d, g, s, new) ==
  IF d = "dependents" THEN WithDependents(g, s, new) ELSE WithDependees(g, s, new)

\* What is left behind by exceptions may count below zero.
Shape == [dependents : [Node -> SUBSET Node],
          dependees  : [Node -> SUBSET Node],
          size       : Int]

LEMMA ShapeRecord ==
  ASSUME NEW g \in Shape
  PROVE  /\ g.dependents \in [Node -> SUBSET Node]
         /\ g.dependees \in [Node -> SUBSET Node]
         /\ g.size \in Int
         /\ g = [dependents |-> g.dependents, dependees |-> g.dependees, size |-> g.size]
  BY DEF Shape

\* One name more in a set that is counted.
LEMMA OneMore ==
  ASSUME NEW A, IsFiniteSet(A), NEW t, t \notin A
  PROVE  /\ Cardinality(A) \in Nat
         /\ Cardinality(A \cup {t}) = Cardinality(A) + 1
  BY FS_AddElement, FS_CardinalityType

LEMMA NamesFinite ==
  ASSUME IsFiniteSet(Node), NEW A \in SUBSET Node
  PROVE  IsFiniteSet(A) /\ Cardinality(A) \in Nat
  BY FS_Subset, FS_CardinalityType

\* A loop that has not begun has changed nothing.
LEMMA NoneGone ==
  ASSUME NEW g \in Shape, NEW s \in Node, NEW d \in Direction
  PROVE  Without(d, g, s, {}) = g
<1>1. Cardinality({}) = 0
  BY FS_EmptySet
<1>2. g.dependents[s] \cap {} = {} /\ {n \in {} : s \in g.dependents[n]} = {}
  OBVIOUS
<1>3. /\ [g.dependents EXCEPT ![s] = @ \ {}] = g.dependents
      /\ [g.dependees EXCEPT ![s] = @ \ {}] = g.dependees
      /\ [n \in Node |-> IF n \in {} THEN g.dependents[n] \ {s} ELSE g.dependents[n]] = g.dependents
      /\ [n \in Node |-> IF n \in {} THEN g.dependees[n] \ {s} ELSE g.dependees[n]] = g.dependees
  BY ShapeRecord
<1>4. g.size - 0 = g.size
  BY ShapeRecord
<1>5. CASE d = "dependents"
  BY <1>1, <1>2, <1>3, <1>4, <1>5, ShapeRecord DEF Without, WithoutDependents
<1>6. CASE d = "dependees"
  BY <1>1, <1>2, <1>3, <1>4, <1>6, ShapeRecord DEF Without, WithoutDependees
<1> QED
  BY <1>5, <1>6 DEF Direction

LEMMA NoneNew ==
  ASSUME NEW g \in Shape, NEW s \in Node, NEW d \in Direction
  PROVE  With(d, g, s, {}) = g
<1>1. Cardinality({}) = 0
  BY FS_EmptySet
<1>2. {} \ g.dependents[s] = {} /\ {n \in {} : s \notin g.dependents[n]} = {}
  OBVIOUS
<1>3. /\ [g.dependents EXCEPT ![s] = @ \cup {}] = g.dependents
      /\ [g.dependees EXCEPT ![s] = @ \cup {}] = g.dependees
      /\ [n \in Node |-> IF n \in {} THEN g.dependents[n] \cup {s} ELSE g.dependents[n]] = g.dependents
      /\ [n \in Node |-> IF n \in {} THEN g.dependees[n] \cup {s} ELSE g.dependees[n]] = g.dependees
  BY ShapeRecord
<1>4. g.size + 0 = g.size
  BY ShapeRecord
<1>5. CASE d = "dependents"
  BY <1>1, <1>2, <1>3, <1>4, <1>5, ShapeRecord DEF With, WithDependents
<1>6. CASE d = "dependees"
  BY <1>1, <1>2, <1>3, <1>4, <1>6, ShapeRecord DEF With, WithDependees
<1> QED
  BY <1>5, <1>6 DEF Direction

\* Shapes stay shapes.
LEMMA WithoutShape ==
  ASSUME IsFiniteSet(Node), NEW g \in Shape, NEW s \in Node, NEW d \in Direction,
         NEW gone \in SUBSET Node
  PROVE  Without(d, g, s, gone) \in Shape
<1>1. g.dependents[s] \cap gone \in SUBSET Node /\ {n \in gone : s \in g.dependents[n]} \in SUBSET Node
  OBVIOUS
<1>2. /\ Cardinality(g.dependents[s] \cap gone) \in Nat
      /\ Cardinality({n \in gone : s \in g.dependents[n]}) \in Nat
  BY <1>1, NamesFinite
<1>3. CASE d = "dependents"
  BY <1>2, <1>3, ShapeRecord DEF Without, WithoutDependents, Shape
<1>4. CASE d = "dependees"
  BY <1>2, <1>4, ShapeRecord DEF Without, WithoutDependees, Shape
<1> QED
  BY <1>3, <1>4 DEF Direction

LEMMA RemoveShape ==
  ASSUME NEW g \in Shape, NEW s \in Node, NEW t \in Node
  PROVE  RemoveDependency(g, s, t) \in Shape
  BY ShapeRecord DEF RemoveDependency, Shape

\* One round of a loop of removals, for any name but s itself.
LEMMA GoneOneMore ==
  ASSUME IsFiniteSet(Node), NEW g \in Shape, NEW s \in Node, NEW d \in Direction,
         NEW gone \in SUBSET Node, NEW t \in Node, t \notin gone, t # s
  PROVE  /\ RemoveDependency(Without(d, g, s, gone), CallOf(d, s, t)[1], CallOf(d, s, t)[2])
              = Without(d, g, s, gone \cup {t})
         /\ RemoveThrows(Without(d, g, s, gone), CallOf(d, s, t)[1], CallOf(d, s, t)[2]) = FALSE
<1> /\ g.dependents \in [Node -> SUBSET Node]
    /\ g.dependees \in [Node -> SUBSET Node]
    /\ g.size \in Int
  BY ShapeRecord
<1>1. CASE d = "dependents"
  <2> DEFINE h == WithoutDependents(g, s, gone)
             A == g.dependents[s] \cap gone
             B == g.dependents[s] \cap (gone \cup {t})
  <2>1. /\ h.dependents = [g.dependents EXCEPT ![s] = @ \ gone]
        /\ h.dependees = [n \in Node |-> IF n \in gone THEN g.dependees[n] \ {s} ELSE g.dependees[n]]
        /\ h.size = g.size - Cardinality(A)
    BY DEF WithoutDependents
  <2>2. IsFiniteSet(A) /\ Cardinality(A) \in Nat /\ t \notin A
    <3>1. A \in SUBSET Node
      OBVIOUS
    <3> QED
      BY <3>1, NamesFinite
  <2>3. B = IF t \in g.dependents[s] THEN A \cup {t} ELSE A
    OBVIOUS
  <2>4. Cardinality(A \cup {t}) = Cardinality(A) + 1
    <3> HIDE DEF A
    <3> QED
      BY <2>2, OneMore
  <2> HIDE DEF h, A
  <2>5. t \in h.dependents[s] <=> t \in g.dependents[s]
    BY <2>1
  <2>6. (IF t \in h.dependents[s] THEN h.size - 1 ELSE h.size) = g.size - Cardinality(B)
    <3> HIDE DEF B
    <3>1. CASE t \in g.dependents[s]
      BY <2>1, <2>2, <2>3, <2>4, <2>5, <3>1
    <3>2. CASE t \notin g.dependents[s]
      BY <2>1, <2>2, <2>3, <2>5, <3>2
    <3> QED
      BY <3>1, <3>2
  <2>7. [h.dependents EXCEPT ![s] = @ \ {t}] = [g.dependents EXCEPT ![s] = @ \ (gone \cup {t})]
    BY <2>1
  <2>8. [h.dependees EXCEPT ![t] = @ \ {s}]
          = [n \in Node |-> IF n \in gone \cup {t} THEN g.dependees[n] \ {s} ELSE g.dependees[n]]
    BY <2>1
  <2>9. ~LosesKey(h.dependents, s, t) /\ ~LosesKey(h.dependees, s, t)
    BY DEF LosesKey
  <2>10. RemoveDependency(h, s, t) = WithoutDependents(g, s, gone \cup {t})
    BY <2>6, <2>7, <2>8, <2>9 DEF RemoveDependency, WithoutDependents
  <2>11. CallOf(d, s, t)[1] = s /\ CallOf(d, s, t)[2] = t
    BY <1>1 DEF CallOf
  <2>12. Without(d, g, s, gone) = h
    BY <1>1 DEF Without, h
  <2> QED
    BY <1>1, <2>9, <2>10, <2>11, <2>12 DEF Without, RemoveThrows
<1>2. CASE d = "dependees"
  <2> DEFINE h == WithoutDependees(g, s, gone)
             A == {n \in gone : s \in g.dependents[n]}
             B == {n \in gone \cup {t} : s \in g.dependents[n]}
  <2>1. /\ h.dependents = [n \in Node |-> IF n \in gone THEN g.dependents[n] \ {s} ELSE g.dependents[n]]
        /\ h.dependees = [g.dependees EXCEPT ![s] = @ \ gone]
        /\ h.size = g.size - Cardinality(A)
    BY DEF WithoutDependees
  <2>2. IsFiniteSet(A) /\ Cardinality(A) \in Nat /\ t \notin A
    <3>1. A \in SUBSET Node
      OBVIOUS
    <3> QED
      BY <3>1, NamesFinite
  <2>3. B = IF s \in g.dependents[t] THEN A \cup {t} ELSE A
    OBVIOUS
  <2>4. Cardinality(A \cup {t}) = Cardinality(A) + 1
    <3> HIDE DEF A
    <3> QED
      BY <2>2, OneMore
  <2> HIDE DEF h, A
  <2>5. s \in h.dependents[t] <=> s \in g.dependents[t]
    BY <2>1
  <2>6. (IF s \in h.dependents[t] THEN h.size - 1 ELSE h.size) = g.size - Cardinality(B)
    <3> HIDE DEF B
    <3>1. CASE s \in g.dependents[t]
      BY <2>1, <2>2, <2>3, <2>4, <2>5, <3>1
    <3>2. CASE s \notin g.dependents[t]
      BY <2>1, <2>2, <2>3, <2>5, <3>2
    <3> QED
      BY <3>1, <3>2
  <2>7. [h.dependees EXCEPT ![s] = @ \ {t}] = [g.dependees EXCEPT ![s] = @ \ (gone \cup {t})]
    BY <2>1
  <2>8. [h.dependents EXCEPT ![t] = @ \ {s}]
          = [n \in Node |-> IF n \in gone \cup {t} THEN g.dependents[n] \ {s} ELSE g.dependents[n]]
    <3> DEFINE f == h.dependents
               e == g.dependents
    <3>1. e \in [Node -> SUBSET Node] /\ f = [n \in Node |-> IF n \in gone THEN e[n] \ {s} ELSE e[n]]
      BY <2>1
    <3> HIDE DEF f, e, B
    <3>2. [f EXCEPT ![t] = @ \ {s}]
            = [n \in Node |-> IF n \in gone \cup {t} THEN e[n] \ {s} ELSE e[n]]
      BY <3>1
    <3> QED
      BY <3>2 DEF f, e
  <2>9. ~LosesKey(h.dependents, t, s) /\ ~LosesKey(h.dependees, t, s)
    BY DEF LosesKey
  <2>10. RemoveDependency(h, t, s) = WithoutDependees(g, s, gone \cup {t})
    BY <2>6, <2>7, <2>8, <2>9 DEF RemoveDependency, WithoutDependees
  <2>11. CallOf(d, s, t)[1] = t /\ CallOf(d, s, t)[2] = s
    BY <1>2 DEF CallOf
  <2>12. Without(d, g, s, gone) = h
    BY <1>2 DEF Without, h
  <2> QED
    BY <1>2, <2>9, <2>10, <2>11, <2>12 DEF Without, RemoveThrows
<1> QED
  BY <1>1, <1>2 DEF Direction

\* One round of a loop of additions.
LEMMA NewOneMore ==
  ASSUME IsFiniteSet(Node), NEW g \in Shape, NEW s \in Node, NEW d \in Direction,
         NEW new \in SUBSET Node, NEW t \in Node, t \notin new
  PROVE  AddDependency(With(d, g, s, new), CallOf(d, s, t)[1], CallOf(d, s, t)[2])
           = With(d, g, s, new \cup {t})
<1> /\ g.dependents \in [Node -> SUBSET Node]
    /\ g.dependees \in [Node -> SUBSET Node]
    /\ g.size \in Int
  BY ShapeRecord
<1>1. CASE d = "dependents"
  <2> DEFINE h == WithDependents(g, s, new)
             A == new \ g.dependents[s]
             B == (new \cup {t}) \ g.dependents[s]
  <2>1. /\ h.dependents = [g.dependents EXCEPT ![s] = @ \cup new]
        /\ h.dependees = [n \in Node |-> IF n \in new THEN g.dependees[n] \cup {s} ELSE g.dependees[n]]
        /\ h.size = g.size + Cardinality(A)
    BY DEF WithDependents
  <2>2. IsFiniteSet(A) /\ Cardinality(A) \in Nat /\ t \notin A
    <3>1. A \in SUBSET Node
      OBVIOUS
    <3> QED
      BY <3>1, NamesFinite
  <2>3. B = IF t \in g.dependents[s] THEN A ELSE A \cup {t}
    OBVIOUS
  <2>4. Cardinality(A \cup {t}) = Cardinality(A) + 1
    <3> HIDE DEF A
    <3> QED
      BY <2>2, OneMore
  <2> HIDE DEF h, A
  <2>5. t \in h.dependents[s] <=> t \in g.dependents[s]
    BY <2>1
  <2>6. (IF t \in h.dependents[s] THEN h.size ELSE h.size + 1) = g.size + Cardinality(B)
    <3> HIDE DEF B
    <3>1. CASE t \in g.dependents[s]
      BY <2>1, <2>2, <2>3, <2>5, <3>1
    <3>2. CASE t \notin g.dependents[s]
      BY <2>1, <2>2, <2>3, <2>4, <2>5, <3>2
    <3> QED
      BY <3>1, <3>2
  <2>7. [h.dependents EXCEPT ![s] = @ \cup {t}] = [g.dependents EXCEPT ![s] = @ \cup (new \cup {t})]
    BY <2>1
  <2>8. [h.dependees EXCEPT ![t] = @ \cup {s}]
          = [n \in Node |-> IF n \in new \cup {t} THEN g.dependees[n] \cup {s} ELSE g.dependees[n]]
    BY <2>1
  <2>9. AddDependency(h, s, t) = WithDependents(g, s, new \cup {t})
    BY <2>6, <2>7, <2>8 DEF AddDependency, WithDependents
  <2>10. CallOf(d, s, t)[1] = s /\ CallOf(d, s, t)[2] = t
    BY <1>1 DEF CallOf
  <2>11. With(d, g, s, new) = h
    BY <1>1 DEF With, h
  <2> QED
    BY <1>1, <2>9, <2>10, <2>11 DEF With
<1>2. CASE d = "dependees"
  <2> DEFINE h == WithDependees(g, s, new)
             A == {n \in new : s \notin g.dependents[n]}
             B == {n \in new \cup {t} : s \notin g.dependents[n]}
  <2>1. /\ h.dependents = [n \in Node |-> IF n \in new THEN g.dependents[n] \cup {s} ELSE g.dependents[n]]
        /\ h.dependees = [g.dependees EXCEPT ![s] = @ \cup new]
        /\ h.size = g.size + Cardinality(A)
    BY DEF WithDependees
  <2>2. IsFiniteSet(A) /\ Cardinality(A) \in Nat /\ t \notin A
    <3>1. A \in SUBSET Node
      OBVIOUS
    <3> QED
      BY <3>1, NamesFinite
  <2>3. B = IF s \in g.dependents[t] THEN A ELSE A \cup {t}
    OBVIOUS
  <2>4. Cardinality(A \cup {t}) = Cardinality(A) + 1
    <3> HIDE DEF A
    <3> QED
      BY <2>2, OneMore
  <2> HIDE DEF h, A
  <2>5. s \in h.dependents[t] <=> s \in g.dependents[t]
    BY <2>1
  <2>6. (IF s \in h.dependents[t] THEN h.size ELSE h.size + 1) = g.size + Cardinality(B)
    <3> HIDE DEF B
    <3>1. CASE s \in g.dependents[t]
      BY <2>1, <2>2, <2>3, <2>5, <3>1
    <3>2. CASE s \notin g.dependents[t]
      BY <2>1, <2>2, <2>3, <2>4, <2>5, <3>2
    <3> QED
      BY <3>1, <3>2
  <2>7. [h.dependees EXCEPT ![s] = @ \cup {t}] = [g.dependees EXCEPT ![s] = @ \cup (new \cup {t})]
    BY <2>1
  <2>8. [h.dependents EXCEPT ![t] = @ \cup {s}]
          = [n \in Node |-> IF n \in new \cup {t} THEN g.dependents[n] \cup {s} ELSE g.dependents[n]]
    <3> DEFINE f == h.dependents
               e == g.dependents
    <3>1. e \in [Node -> SUBSET Node] /\ f = [n \in Node |-> IF n \in new THEN e[n] \cup {s} ELSE e[n]]
      BY <2>1
    <3> HIDE DEF f, e, B
    <3>2. [f EXCEPT ![t] = @ \cup {s}]
            = [n \in Node |-> IF n \in new \cup {t} THEN e[n] \cup {s} ELSE e[n]]
      BY <3>1
    <3> QED
      BY <3>2 DEF f, e
  <2>9. AddDependency(h, t, s) = WithDependees(g, s, new \cup {t})
    BY <2>6, <2>7, <2>8 DEF AddDependency, WithDependees
  <2>10. CallOf(d, s, t)[1] = t /\ CallOf(d, s, t)[2] = s
    BY <1>2 DEF CallOf
  <2>11. With(d, g, s, new) = h
    BY <1>2 DEF With, h
  <2> QED
    BY <1>2, <2>9, <2>10, <2>11 DEF With
<1> QED
  BY <1>1, <1>2 DEF Direction

Calls(d, s, old) == {CallOf(d, s, t) : t \in old}

Names(name, d, s, old, o, n) ==
  /\ name \in [1..n -> old]
  /\ \A i \in 1..n : o[i] = CallOf(d, s, name[i])
  /\ \A i, j \in 1..n : name[i] = name[j] => i = j
  /\ \A t \in old : \E i \in 1..n : name[i] = t

\* The names in the order of the calls.
LEMMA NamesInOrder ==
  ASSUME IsFiniteSet(Node), NEW s \in Node, NEW d \in Direction, NEW old \in SUBSET Node,
         NEW o \in SetToSeqs(Calls(d, s, old))
  PROVE  Len(o) \in Nat /\ \E name : Names(name, d, s, old, o, Len(o))
<1> DEFINE P == Calls(d, s, old)
           To(p) == IF d = "dependents" THEN p[2] ELSE p[1]
           name == [i \in 1..Len(o) |-> To(o[i])]
<1>1. \A t : To(CallOf(d, s, t)) = t
  BY DEF CallOf, Direction
<1>2. IsFiniteSet(P)
  <2>1. IsFiniteSet(Node \X Node)
    BY FS_Product
  <2>2. P \in SUBSET (Node \X Node)
    BY DEF CallOf, Calls
  <2> HIDE DEF P
  <2> QED
    BY <2>1, <2>2, FS_Subset
<1>3. /\ Len(o) \in Nat /\ o \in [1..Len(o) -> P]
      /\ \A i, j \in 1..Len(o) : o[i] = o[j] => i = j
      /\ \A p \in P : \E i \in 1..Len(o) : o[i] = p
  <2>1. o \in SetToSeqs(P)
    OBVIOUS
  <2> HIDE DEF P
  <2> QED
    BY <1>2, <2>1, OrderFacts
<1>4. \A i \in 1..Len(o) : \E t \in old : o[i] = CallOf(d, s, t)
  BY <1>3 DEF Calls
<1> HIDE DEF To
<1>5. \A i \in 1..Len(o) : name[i] \in old /\ o[i] = CallOf(d, s, name[i])
  BY <1>1, <1>4
<1>6. name \in [1..Len(o) -> old]
  BY <1>5
<1>7. \A t \in old : \E i \in 1..Len(o) : o[i] = CallOf(d, s, t)
  BY <1>3 DEF Calls
<1> HIDE DEF name
<1>8. \A t \in old : \E i \in 1..Len(o) : name[i] = t
  BY <1>1, <1>5, <1>7
<1>9. \A i, j \in 1..Len(o) : name[i] = name[j] => i = j
  BY <1>3, <1>5
<1> QED
  BY <1>3, <1>5, <1>6, <1>8, <1>9 DEF Names

Some(name, i, j) == {name[m] : m \in i..j}

\* A round reaches one name more.
LEMMA SomeMore ==
  ASSUME NEW n \in Nat, NEW S, NEW name \in [1..n -> S],
         \A i, j \in 1..n : name[i] = name[j] => i = j,
         NEW i \in 1..n, NEW j \in 1..(n + 1), j <= i
  PROVE  /\ Some(name, j, i) = Some(name, j, i - 1) \cup {name[i]}
         /\ name[i] \notin Some(name, j, i - 1)
         /\ Some(name, j, i - 1) \in SUBSET S
<1>1. j..i = (j..(i - 1)) \cup {i}
  OBVIOUS
<1>2. \A m \in j..(i - 1) : m \in 1..n /\ m # i
  OBVIOUS
<1> QED
  BY <1>1, <1>2 DEF Some

Clean(g) == [graph |-> g, thrown |-> FALSE]

\* A round of the loop of removals.
LEMMA CleanRound ==
  ASSUME IsFiniteSet(Node), NEW g \in Shape, NEW s \in Node, NEW d \in Direction,
         NEW gone \in SUBSET Node, NEW t \in Node, t \notin gone, t # s
  PROVE  Removal(Clean(Without(d, g, s, gone)), CallOf(d, s, t))
           = Clean(Without(d, g, s, gone \cup {t}))
<1> DEFINE h == Without(d, g, s, gone)
           k == Without(d, g, s, gone \cup {t})
           p == CallOf(d, s, t)
<1>1. RemoveDependency(h, p[1], p[2]) = k /\ RemoveThrows(h, p[1], p[2]) = FALSE
  BY GoneOneMore
<1> HIDE DEF h, k, p
<1>2. Removal(Clean(h), p) = Clean(k)
  BY <1>1 DEF Removal, Clean
<1> QED
  BY <1>2 DEF h, k, p

\* If s is not to be removed, the loop of removals takes all names.
LEMMA RemovesAll ==
  ASSUME IsFiniteSet(Node), NEW g \in Shape, NEW s \in Node, NEW d \in Direction,
         NEW old \in SUBSET Node, s \notin old,
         NEW o \in SetToSeqs(Calls(d, s, old))
  PROVE  RemovalLoop(g, o) = Clean(Without(d, g, s, old))
<1> DEFINE n == Len(o)
<1>1. n \in Nat
  BY NamesInOrder
<1>a. PICK name : Names(name, d, s, old, o, n)
  BY NamesInOrder
<1>2. /\ name \in [1..n -> old]
      /\ \A i \in 1..n : o[i] = CallOf(d, s, name[i])
      /\ \A i, j \in 1..n : name[i] = name[j] => i = j
      /\ \A t \in old : \E i \in 1..n : name[i] = t
  BY <1>a DEF Names
<1> DEFINE stage == [i \in 0..n |-> Clean(Without(d, g, s, Some(name, 1, i)))]
<1>3. stage[0] = [graph |-> g, thrown |-> FALSE]
  <2>1. Some(name, 1, 0) = {} /\ 0 \in 0..n
    BY <1>1 DEF Some
  <2>2. stage[0] = Clean(Without(d, g, s, {}))
    BY <1>1, <2>1
  <2> QED
    BY <2>2, NoneGone DEF Clean
<1>4. ASSUME NEW i \in 1..n PROVE stage[i] = Removal(stage[i - 1], o[i])
  <2>1. i \in 0..n /\ i - 1 \in 0..n /\ 1 \in 1..(n + 1) /\ 1 <= i
    OBVIOUS
  <2> DEFINE gone == Some(name, 1, i - 1)
             t == name[i]
  <2>2. stage[i] = Clean(Without(d, g, s, Some(name, 1, i))) /\ stage[i - 1] = Clean(Without(d, g, s, gone))
    BY <2>1
  <2>3. Some(name, 1, i) = gone \cup {t} /\ t \notin gone /\ gone \in SUBSET old
    <3> HIDE DEF stage, n
    <3> QED
      BY <1>1, <1>2, <2>1, SomeMore
  <2>4. t \in Node /\ t # s /\ gone \in SUBSET Node /\ o[i] = CallOf(d, s, t)
    BY <1>2, <2>3
  <2> HIDE DEF stage, gone, t, n
  <2>5. Removal(Clean(Without(d, g, s, gone)), CallOf(d, s, t)) = Clean(Without(d, g, s, gone \cup {t}))
    BY <2>3, <2>4, CleanRound
  <2> QED
    BY <2>2, <2>3, <2>4, <2>5
<1>5. stage[n] = Clean(Without(d, g, s, old))
  <2>1. Some(name, 1, n) = old
    BY <1>2 DEF Some
  <2> QED
    BY <1>1, <2>1
<1> HIDE DEF stage
<1> QED
  BY <1>1, <1>3, <1>4, <1>5, RemovalStages

\* If s is, an exception may end the loop when its turn comes.
LEMMA RemovesAround ==
  ASSUME IsFiniteSet(Node), NEW g \in Shape, NEW s \in Node, NEW d \in Direction,
         NEW old \in SUBSET Node,
         NEW o \in SetToSeqs(Calls(d, s, old)), NEW k \in 1..Len(o),
         o[k] = CallOf(d, s, s),
         NEW before, Ahead(o, k) = Calls(d, s, before)
  PROVE  /\ before \in SUBSET (old \ {s})
         /\ LET h == Without(d, g, s, before)
                r == RemoveDependency(h, s, s)
            IN RemovalLoop(g, o) = IF RemoveThrows(h, s, s)
                                   THEN [graph |-> r, thrown |-> TRUE]
                                   ELSE Clean(Without(d, r, s, old \ (before \cup {s})))
<1> DEFINE n == Len(o)
           To(p) == IF d = "dependents" THEN p[2] ELSE p[1]
<1>0. \A t : To(CallOf(d, s, t)) = t
  BY DEF CallOf, Direction
<1> HIDE DEF To
<1>1. n \in Nat
  BY NamesInOrder
<1>a. PICK name : Names(name, d, s, old, o, n)
  BY NamesInOrder
<1>2. /\ name \in [1..n -> old]
      /\ \A i \in 1..n : o[i] = CallOf(d, s, name[i])
      /\ \A i, j \in 1..n : name[i] = name[j] => i = j
      /\ \A t \in old : \E i \in 1..n : name[i] = t
  BY <1>a DEF Names
<1> HIDE DEF n
<1>3. k \in 1..n
  BY DEF n
<1>4. name[k] = s
  BY <1>0, <1>2, <1>3
<1>5. before = Some(name, 1, k - 1)
  <2>1. \A j \in 1..(k - 1) : j \in 1..n
    BY <1>1, <1>3
  <2>2. \A j \in 1..(k - 1) : name[j] \in before
    <3>1. \A j \in 1..(k - 1) : \E t \in before : o[j] = CallOf(d, s, t)
      BY DEF Calls, Ahead
    <3> QED
      BY <1>0, <1>2, <2>1, <3>1
  <2>3. ASSUME NEW t \in before PROVE \E j \in 1..(k - 1) : name[j] = t
    <3>1. PICK j \in 1..(k - 1) : o[j] = CallOf(d, s, t)
      BY DEF Calls, Ahead
    <3>2. name[j] = t
      BY <1>0, <1>2, <2>1, <3>1
    <3> QED
      BY <3>2
  <2> QED
    BY <2>2, <2>3 DEF Some
<1>6. before \in SUBSET (old \ {s})
  <2>1. \A m \in 1..(k - 1) : m \in 1..n /\ m # k
    BY <1>1, <1>3
  <2> QED
    BY <1>2, <1>3, <1>4, <1>5, <2>1 DEF Some
<1> DEFINE h == Without(d, g, s, before)
           r == RemoveDependency(h, s, s)
           End(i) == IF RemoveThrows(h, s, s) THEN [graph |-> r, thrown |-> TRUE]
                     ELSE Clean(Without(d, r, s, Some(name, k + 1, i)))
           stage == [i \in 0..n |-> IF i < k THEN Clean(Without(d, g, s, Some(name, 1, i))) ELSE End(i)]
<1>7. h \in Shape /\ r \in Shape
  <2>1. h \in Shape
    BY <1>6, WithoutShape
  <2> HIDE DEF h
  <2> QED
    BY <2>1, RemoveShape
<1>8. stage[0] = [graph |-> g, thrown |-> FALSE]
  <2>1. Some(name, 1, 0) = {} /\ 0 \in 0..n /\ 0 < k
    BY <1>1, <1>3 DEF Some
  <2> HIDE DEF End
  <2>2. stage[0] = Clean(Without(d, g, s, {}))
    BY <2>1
  <2> QED
    BY <2>2, NoneGone DEF Clean
<1>9. ASSUME NEW i \in 1..n PROVE stage[i] = Removal(stage[i - 1], o[i])
  <2>1. i \in 0..n /\ i - 1 \in 0..n
    BY <1>1
  <2>2. name[i] \in Node /\ o[i] = CallOf(d, s, name[i])
    BY <1>2
  <2>3. CASE i < k
    <3> DEFINE gone == Some(name, 1, i - 1)
               t == name[i]
    <3>1. 1 \in 1..(n + 1) /\ 1 <= i /\ i - 1 < k
      BY <1>1, <1>3, <2>3
    <3>2. stage[i] = Clean(Without(d, g, s, Some(name, 1, i))) /\ stage[i - 1] = Clean(Without(d, g, s, gone))
      <4> HIDE DEF End
      <4> QED
        BY <2>1, <2>3, <3>1
    <3>3. Some(name, 1, i) = gone \cup {t} /\ t \notin gone /\ gone \in SUBSET old
      <4> HIDE DEF stage
      <4> QED
        BY <1>1, <1>2, <3>1, SomeMore
    <3>4. t # s /\ gone \in SUBSET Node
      BY <1>2, <1>3, <1>4, <2>3, <3>3
    <3> HIDE DEF stage, gone
    <3>5. Removal(Clean(Without(d, g, s, gone)), CallOf(d, s, t)) = Clean(Without(d, g, s, gone \cup {t}))
      BY <2>2, <3>3, <3>4, CleanRound
    <3> QED
      BY <2>2, <3>2, <3>3, <3>5
  <2>4. CASE i = k
    <3>1. Some(name, k + 1, k) = {} /\ k - 1 < k /\ ~(k < k)
      BY <1>3 DEF Some
    <3>2. stage[i - 1] = Clean(h)
      <4> HIDE DEF End
      <4> QED
        BY <1>5, <2>1, <2>4, <3>1
    <3>3. stage[i] = End(k)
      <4> HIDE DEF End
      <4> QED
        BY <2>1, <2>4, <3>1
    <3>4. o[i] = <<s, s>>
      BY <1>4, <2>2, <2>4 DEF CallOf
    <3>5. Removal(Clean(h), <<s, s>>) = [graph |-> r, thrown |-> RemoveThrows(h, s, s)]
      <4> HIDE DEF h
      <4> QED
        BY DEF Removal, Clean
    <3>6. End(k) = [graph |-> r, thrown |-> RemoveThrows(h, s, s)]
      <4>1. Without(d, r, s, {}) = r
        <5> HIDE DEF r
        <5> QED
          BY <1>7, NoneGone
      <4>2. RemoveThrows(h, s, s) \in BOOLEAN
        BY DEF RemoveThrows, LosesKey
      <4> HIDE DEF h, r
      <4> QED
        BY <3>1, <4>1, <4>2 DEF Clean
    <3> HIDE DEF stage, End
    <3> QED
      BY <3>2, <3>3, <3>4, <3>5, <3>6
  <2>5. CASE i > k
    <3>1. k + 1 \in 1..(n + 1) /\ k + 1 <= i /\ ~(i < k) /\ ~(i - 1 < k)
      BY <1>1, <1>3, <2>5
    <3>2. stage[i] = End(i) /\ stage[i - 1] = End(i - 1)
      <4> HIDE DEF End
      <4> QED
        BY <2>1, <3>1
    <3> HIDE DEF stage
    <3>3. CASE RemoveThrows(h, s, s)
      <4> HIDE DEF h
      <4>1. End(i) = [graph |-> r, thrown |-> TRUE] /\ End(i - 1) = End(i)
        BY <3>3
      <4>2. End(i).thrown
        BY <4>1
      <4> HIDE DEF End
      <4> QED
        BY <3>2, <4>1, <4>2 DEF Removal
    <3>4. CASE ~RemoveThrows(h, s, s)
      <4> DEFINE gone == Some(name, k + 1, i - 1)
                 t == name[i]
      <4>1. End(i) = Clean(Without(d, r, s, Some(name, k + 1, i))) /\ End(i - 1) = Clean(Without(d, r, s, gone))
        <5> HIDE DEF h, r, gone
        <5> QED
          BY <3>4 DEF gone
      <4> HIDE DEF End
      <4>2. Some(name, k + 1, i) = gone \cup {t} /\ t \notin gone /\ gone \in SUBSET old
        <5> DEFINE from == k + 1
        <5>1. from \in 1..(n + 1) /\ from <= i
          BY <3>1
        <5> HIDE DEF from
        <5>2. /\ Some(name, from, i) = Some(name, from, i - 1) \cup {t}
              /\ t \notin Some(name, from, i - 1)
              /\ Some(name, from, i - 1) \in SUBSET old
          BY <1>1, <1>2, <5>1, SomeMore
        <5> QED
          BY <5>2 DEF from
      <4>3. t # s /\ gone \in SUBSET Node
        BY <1>2, <1>3, <1>4, <2>5, <4>2
      <4> HIDE DEF gone, h, r
      <4>4. Removal(Clean(Without(d, r, s, gone)), CallOf(d, s, t)) = Clean(Without(d, r, s, gone \cup {t}))
        BY <1>7, <2>2, <4>2, <4>3, CleanRound
      <4> QED
        BY <2>2, <3>2, <4>1, <4>2, <4>4
    <3> QED
      BY <3>3, <3>4
  <2> QED
    BY <1>3, <2>3, <2>4, <2>5
<1>10. stage[n] = End(n)
  <2>1. n \in 0..n /\ ~(n < k)
    BY <1>1, <1>3
  <2> HIDE DEF End
  <2> QED
    BY <2>1
<1>11. Some(name, k + 1, n) = old \ (before \cup {s})
  <2>1. \A m \in (k + 1)..n : m \in 1..n /\ m # k /\ m \notin 1..(k - 1)
    BY <1>1, <1>3
  <2>2. \A m \in 1..n : m \in 1..(k - 1) \/ m = k \/ m \in (k + 1)..n
    BY <1>1, <1>3
  <2>3. \A m \in 1..(k - 1) : m \in 1..n
    BY <1>1, <1>3
  <2>4. \A m \in (k + 1)..n : name[m] \in old /\ name[m] # s /\ name[m] \notin before
    BY <1>2, <1>3, <1>4, <1>5, <2>1, <2>3 DEF Some
  <2>5. \A t \in old : t # s /\ t \notin before => \E m \in (k + 1)..n : name[m] = t
    BY <1>2, <1>4, <1>5, <2>2 DEF Some
  <2> QED
    BY <2>4, <2>5 DEF Some
<1>12. RemovalLoop(g, o) = stage[n]
  <2> HIDE DEF stage
  <2> QED
    BY <1>1, <1>8, <1>9, RemovalStages DEF n
<1> HIDE DEF stage, h, r
<1>13. RemovalLoop(g, o) = IF RemoveThrows(h, s, s)
                           THEN [graph |-> r, thrown |-> TRUE]
                           ELSE Clean(Without(d, r, s, old \ (before \cup {s})))
  BY <1>10, <1>11, <1>12
<1> QED
  BY <1>6, <1>13 DEF h, r

\* The loop of additions adds all names.
LEMMA AddsAll ==
  ASSUME IsFiniteSet(Node), NEW g \in Shape, NEW s \in Node, NEW d \in Direction,
         NEW new \in SUBSET Node,
         NEW o \in SetToSeqs(Calls(d, s, new))
  PROVE  AdditionLoop(g, o) = With(d, g, s, new)
<1> DEFINE n == Len(o)
<1>1. n \in Nat
  BY NamesInOrder
<1>a. PICK name : Names(name, d, s, new, o, n)
  BY NamesInOrder
<1>2. /\ name \in [1..n -> new]
      /\ \A i \in 1..n : o[i] = CallOf(d, s, name[i])
      /\ \A i, j \in 1..n : name[i] = name[j] => i = j
      /\ \A t \in new : \E i \in 1..n : name[i] = t
  BY <1>a DEF Names
<1> DEFINE stage == [i \in 0..n |-> With(d, g, s, Some(name, 1, i))]
<1>3. stage[0] = g
  <2>1. Some(name, 1, 0) = {} /\ 0 \in 0..n
    BY <1>1 DEF Some
  <2>2. stage[0] = With(d, g, s, {})
    BY <1>1, <2>1
  <2> QED
    BY <2>2, NoneNew
<1>4. ASSUME NEW i \in 1..n PROVE stage[i] = AddDependency(stage[i - 1], o[i][1], o[i][2])
  <2>1. i \in 0..n /\ i - 1 \in 0..n /\ 1 \in 1..(n + 1) /\ 1 <= i
    OBVIOUS
  <2> DEFINE come == Some(name, 1, i - 1)
             t == name[i]
  <2>2. stage[i] = With(d, g, s, Some(name, 1, i)) /\ stage[i - 1] = With(d, g, s, come)
    BY <2>1
  <2>3. Some(name, 1, i) = come \cup {t} /\ t \notin come /\ come \in SUBSET new
    <3> HIDE DEF stage, n
    <3> QED
      BY <1>1, <1>2, <2>1, SomeMore
  <2>4. t \in Node /\ come \in SUBSET Node /\ o[i] = CallOf(d, s, t)
    BY <1>2, <2>3
  <2> HIDE DEF stage, come, t, n
  <2>5. AddDependency(With(d, g, s, come), CallOf(d, s, t)[1], CallOf(d, s, t)[2]) = With(d, g, s, come \cup {t})
    BY <2>3, <2>4, NewOneMore
  <2> QED
    BY <2>2, <2>3, <2>4, <2>5
<1>5. stage[n] = With(d, g, s, new)
  <2>1. Some(name, 1, n) = new
    BY <1>2 DEF Some
  <2> QED
    BY <1>1, <2>1
<1> HIDE DEF stage
<1> QED
  BY <1>1, <1>3, <1>4, <1>5, AdditionStages

-----------------------------------------------------------------------------
(* The outcomes of the client's replacements.                              *)

Old(d, g, s) == IF d = "dependents" THEN g.dependents[s] ELSE g.dependees[s]

\* What a replacement leaves that meets s after the names `before`.
Cut(d, g, s, before) == RemoveDependency(Without(d, g, s, before), s, s)

Cuts(d, g, s, before) == RemoveThrows(Without(d, g, s, before), s, s)

Through(d, g, s, new, before) ==
  With(d, Without(d, Cut(d, g, s, before), s, Old(d, g, s) \ (before \cup {s})), s, new)

\* One run of the loops.
LEMMA RunWithout ==
  ASSUME IsFiniteSet(Node), NEW g \in Shape, NEW s \in Node, NEW d \in Direction,
         NEW new \in SUBSET Node, s \notin Old(d, g, s),
         NEW o \in SetToSeqs(Calls(d, s, Old(d, g, s))), NEW q \in SetToSeqs(Calls(d, s, new))
  PROVE  ReplaceLoop(g, o, q) = Clean(With(d, Without(d, g, s, Old(d, g, s)), s, new))
<1> DEFINE old == Old(d, g, s)
           h == Without(d, g, s, old)
<1>1. old \in SUBSET Node
  BY ShapeRecord DEF Old
<1>2. RemovalLoop(g, o) = Clean(h)
  <2> HIDE DEF old
  <2> QED
    BY <1>1, RemovesAll DEF old
<1>3. h \in Shape
  <2> HIDE DEF old
  <2> QED
    BY <1>1, WithoutShape
<1> HIDE DEF h, old
<1>4. AdditionLoop(h, q) = With(d, h, s, new)
  BY <1>3, AddsAll
<1>5. ReplaceLoop(g, o, q) = Clean(With(d, h, s, new))
  BY <1>2, <1>4 DEF ReplaceLoop, Clean
<1> QED
  BY <1>5 DEF h, old

LEMMA RunAround ==
  ASSUME IsFiniteSet(Node), NEW g \in Shape, NEW s \in Node, NEW d \in Direction,
         NEW new \in SUBSET Node,
         NEW o \in SetToSeqs(Calls(d, s, Old(d, g, s))), NEW q \in SetToSeqs(Calls(d, s, new)),
         NEW k \in 1..Len(o), o[k] = CallOf(d, s, s),
         NEW before, Ahead(o, k) = Calls(d, s, before)
  PROVE  /\ before \in SUBSET (Old(d, g, s) \ {s})
         /\ ReplaceLoop(g, o, q) = IF Cuts(d, g, s, before)
                                   THEN [graph |-> Cut(d, g, s, before), thrown |-> TRUE]
                                   ELSE Clean(Through(d, g, s, new, before))
<1> DEFINE old == Old(d, g, s)
           r == Cut(d, g, s, before)
           h == Without(d, r, s, old \ (before \cup {s}))
<1>1. old \in SUBSET Node
  BY ShapeRecord DEF Old
<1>2. /\ before \in SUBSET (old \ {s})
      /\ RemovalLoop(g, o) = IF Cuts(d, g, s, before) THEN [graph |-> r, thrown |-> TRUE] ELSE Clean(h)
  <2> HIDE DEF old
  <2> QED
    BY <1>1, RemovesAround DEF old, Cut, Cuts
<1>3. h \in Shape
  <2> HIDE DEF old
  <2>1. Without(d, g, s, before) \in Shape
    BY <1>1, <1>2, WithoutShape
  <2>2. r \in Shape
    BY <2>1, RemoveShape DEF Cut
  <2>3. old \ (before \cup {s}) \in SUBSET Node
    BY <1>1
  <2> HIDE DEF r
  <2> QED
    BY <2>2, <2>3, WithoutShape
<1>4. Through(d, g, s, new, before) = With(d, h, s, new)
  BY DEF Through
<1> HIDE DEF h, r
<1>5. AdditionLoop(h, q) = With(d, h, s, new)
  BY <1>3, AddsAll
<1>6. ReplaceLoop(g, o, q) = IF Cuts(d, g, s, before) THEN [graph |-> r, thrown |-> TRUE]
                             ELSE Clean(With(d, h, s, new))
  <2>1. CASE Cuts(d, g, s, before)
    BY <1>2, <2>1 DEF ReplaceLoop
  <2>2. CASE ~Cuts(d, g, s, before)
    <3>1. RemovalLoop(g, o) = Clean(h)
      BY <1>2, <2>2
    <3>2. ReplaceLoop(g, o, q) = Clean(With(d, h, s, new))
      BY <1>5, <3>1 DEF ReplaceLoop, Clean
    <3> QED
      BY <2>2, <3>2
  <2> QED
    BY <2>1, <2>2
<1> QED
  BY <1>2, <1>4, <1>6 DEF r

LEMMA CallsFinite ==
  ASSUME IsFiniteSet(Node), NEW s \in Node, NEW d \in Direction, NEW S \in SUBSET Node
  PROVE  IsFiniteSet(Calls(d, s, S))
<1>1. IsFiniteSet(Node \X Node)
  BY FS_Product
<1>2. Calls(d, s, S) \in SUBSET (Node \X Node)
  BY DEF Calls, CallOf
<1> QED
  BY <1>1, <1>2, FS_Subset

\* Every prefix of the loop is the beginning of an order.
LEMMA EveryPrefix ==
  ASSUME IsFiniteSet(Node), NEW s \in Node, NEW d \in Direction, NEW old \in SUBSET Node,
         s \in old, NEW before \in SUBSET (old \ {s})
  PROVE  \E o \in SetToSeqs(Calls(d, s, old)) : \E k \in 1..Len(o) :
           o[k] = CallOf(d, s, s) /\ Ahead(o, k) = Calls(d, s, before)
<1>1. IsFiniteSet(Calls(d, s, old))
  BY CallsFinite
<1>2. CallOf(d, s, s) \in Calls(d, s, old)
  BY DEF Calls
<1>3. Calls(d, s, before) \in SUBSET (Calls(d, s, old) \ {CallOf(d, s, s)})
  BY DEF Calls, CallOf
<1> DEFINE S == Calls(d, s, old)
           x == CallOf(d, s, s)
           B == Calls(d, s, before)
<1>4. IsFiniteSet(S) /\ x \in S /\ B \in SUBSET (S \ {x})
  BY <1>1, <1>2, <1>3
<1> HIDE DEF S, x, B
<1>5. \E o \in SetToSeqs(S) : \E k \in 1..Len(o) : o[k] = x /\ Ahead(o, k) = B
  BY <1>4, OrderAround
<1> QED
  BY <1>5 DEF S, x, B

\* And every order begins with one.
LEMMA SomePrefix ==
  ASSUME IsFiniteSet(Node), NEW s \in Node, NEW d \in Direction, NEW old \in SUBSET Node,
         s \in old, NEW o \in SetToSeqs(Calls(d, s, old))
  PROVE  \E k \in 1..Len(o) : /\ o[k] = CallOf(d, s, s)
                              /\ \E before : Ahead(o, k) = Calls(d, s, before)
<1> DEFINE n == Len(o)
<1>1. n \in Nat
  BY NamesInOrder
<1>2. PICK name : Names(name, d, s, old, o, n)
  BY NamesInOrder
<1> HIDE DEF n
<1>3. PICK k \in 1..n : name[k] = s
  BY <1>2 DEF Names
<1>4. o[k] = CallOf(d, s, s)
  BY <1>2, <1>3 DEF Names
<1>5. Ahead(o, k) = Calls(d, s, Some(name, 1, k - 1))
  <2>1. \A j \in 1..(k - 1) : j \in 1..n
    BY <1>1, <1>3
  <2>2. \A j \in 1..(k - 1) : o[j] = CallOf(d, s, name[j])
    BY <1>2, <2>1 DEF Names
  <2> QED
    BY <2>2 DEF Calls, Some, Ahead
<1> QED
  BY <1>4, <1>5 DEF n

\* The outcomes of the loops in all orders.
Replaced(d, g, s, new) ==
  IF s \notin Old(d, g, s) THEN {With(d, Without(d, g, s, Old(d, g, s)), s, new)}
  ELSE {Through(d, g, s, new, before) :
          before \in {b \in SUBSET (Old(d, g, s) \ {s}) : ~Cuts(d, g, s, b)}}

Aborted(d, g, s) ==
  IF s \notin Old(d, g, s) THEN {}
  ELSE {Cut(d, g, s, before) : before \in {b \in SUBSET (Old(d, g, s) \ {s}) : Cuts(d, g, s, b)}}

LEMMA LoopOutcomes ==
  ASSUME IsFiniteSet(Node), NEW g \in Shape, NEW s \in Node, NEW d \in Direction,
         NEW new \in SUBSET Node
  PROVE  /\ Replaced(d, g, s, new)
              = Returned(ReplaceLoops(g, Calls(d, s, Old(d, g, s)), Calls(d, s, new)))
         /\ Aborted(d, g, s)
              = Thrown(ReplaceLoops(g, Calls(d, s, Old(d, g, s)), Calls(d, s, new)))
<1> DEFINE old == Old(d, g, s)
           run(o, q) == ReplaceLoop(g, o, q)
           orders == SetToSeqs(Calls(d, s, old))
           additions == SetToSeqs(Calls(d, s, new))
           runs == ReplaceLoops(g, Calls(d, s, old), Calls(d, s, new))
<1>0. old \in SUBSET Node
  BY ShapeRecord DEF Old
<1>1. additions # {}
  BY CallsFinite, SomeOrder
<1>2. runs = {run(o, q) : o \in orders, q \in additions}
  BY DEF ReplaceLoops
<1>3. CASE s \notin old
  <2> DEFINE h == With(d, Without(d, g, s, old), s, new)
  <2>1. \A o \in orders, q \in additions : run(o, q) = Clean(h)
    BY <1>3, RunWithout
  <2>2. orders # {}
    <3> HIDE DEF old
    <3>1. IsFiniteSet(Calls(d, s, old))
      BY <1>0, CallsFinite
    <3> QED
      BY <3>1, SomeOrder
  <2> HIDE DEF orders, additions, run
  <2>3. runs = {Clean(h)}
    <3> HIDE DEF runs, h
    <3> QED
      BY <1>1, <1>2, <2>1, <2>2
  <2>4. Replaced(d, g, s, new) = {h} /\ Aborted(d, g, s) = {}
    BY <1>3 DEF Replaced, Aborted
  <2> HIDE DEF runs, h
  <2>5. {h} = Returned(runs) /\ {} = Thrown(runs)
    <3>1. Clean(h).graph = h /\ ~Clean(h).thrown
      BY DEF Clean
    <3>2. {r \in runs : ~r.thrown} = {Clean(h)} /\ {r \in runs : r.thrown} = {}
      BY <2>3, <3>1
    <3> QED
      BY <3>1, <3>2 DEF Returned, Thrown
  <2> QED
    BY <2>4, <2>5 DEF runs
<1>4. CASE s \in old
  <2> DEFINE Outcome(b) == IF Cuts(d, g, s, b) THEN [graph |-> Cut(d, g, s, b), thrown |-> TRUE]
                           ELSE Clean(Through(d, g, s, new, b))
             Befores == SUBSET (old \ {s})
  <2>1. ASSUME NEW b \in Befores PROVE \E o \in orders, q \in additions : run(o, q) = Outcome(b)
    <3>1. PICK o \in orders : \E k \in 1..Len(o) :
            o[k] = CallOf(d, s, s) /\ Ahead(o, k) = Calls(d, s, b)
      <4> HIDE DEF old
      <4> QED
        BY <1>0, <1>4, EveryPrefix
    <3>2. PICK k \in 1..Len(o) :
            o[k] = CallOf(d, s, s) /\ Ahead(o, k) = Calls(d, s, b)
      BY <3>1
    <3>3. PICK q \in additions : TRUE
      BY <1>1
    <3>4. run(o, q) = Outcome(b)
      BY <3>2, RunAround
    <3> QED
      BY <3>4
  <2>2. ASSUME NEW o \in orders, NEW q \in additions PROVE \E b \in Befores : run(o, q) = Outcome(b)
    <3>1. PICK k \in 1..Len(o) :
            o[k] = CallOf(d, s, s) /\ \E before : Ahead(o, k) = Calls(d, s, before)
      <4> HIDE DEF old
      <4> QED
        BY <1>0, <1>4, SomePrefix
    <3>2. PICK b : Ahead(o, k) = Calls(d, s, b)
      BY <3>1
    <3>3. b \in Befores /\ run(o, q) = Outcome(b)
      BY <3>1, <3>2, RunAround
    <3> QED
      BY <3>3
  <2> HIDE DEF run, orders, additions
  <2>3. runs = {Outcome(b) : b \in Befores}
    <3> HIDE DEF runs, Outcome, Befores
    <3> QED
      BY <1>2, <2>1, <2>2
  <2>4. /\ Replaced(d, g, s, new) = {Through(d, g, s, new, b) : b \in {b \in Befores : ~Cuts(d, g, s, b)}}
        /\ Aborted(d, g, s) = {Cut(d, g, s, b) : b \in {b \in Befores : Cuts(d, g, s, b)}}
    BY <1>4 DEF Replaced, Aborted
  <2> HIDE DEF runs, Befores
  <2>5. \A b \in Befores :
          /\ Outcome(b).thrown <=> Cuts(d, g, s, b)
          /\ Cuts(d, g, s, b) => Outcome(b).graph = Cut(d, g, s, b)
          /\ ~Cuts(d, g, s, b) => Outcome(b).graph = Through(d, g, s, new, b)
    BY DEF Clean
  <2> HIDE DEF Outcome
  <2>6. Replaced(d, g, s, new) = Returned(runs)
    BY <2>3, <2>4, <2>5 DEF Returned
  <2>7. Aborted(d, g, s) = Thrown(runs)
    BY <2>3, <2>4, <2>5 DEF Thrown
  <2> QED
    BY <2>6, <2>7 DEF runs
<1> QED
  BY <1>3, <1>4

\* So the closed forms of the client's replacements are their loops.
LEMMA ClientLoops ==
  ASSUME IsFiniteSet(Node), graph \in Graph
  PROVE  LoopsAgree
<1>1. graph \in Shape
  BY DEF Graph, Shape
<1> DEFINE Forward(s, new) == ReplaceLoops(graph, {<<s, t>> : t \in graph.dependents[s]}, {<<s, t>> : t \in new})
           Backward(s, new) == ReplaceLoops(graph, {<<t, s>> : t \in graph.dependees[s]}, {<<t, s>> : t \in new})
<1>2. ASSUME NEW s \in Node, NEW new \in SUBSET Node
      PROVE  /\ ReplaceDependents(graph, s, new) = Returned(Forward(s, new))
             /\ AbortReplaceDependents(graph, s) = Thrown(Forward(s, new))
  <2> DEFINE d == "dependents"
  <2>1. /\ Replaced(d, graph, s, new) = ReplaceDependents(graph, s, new)
        /\ Aborted(d, graph, s) = AbortReplaceDependents(graph, s)
    BY DEF Replaced, Aborted, Through, Cut, Cuts, With, Without, Old, ReplaceDependents, AbortReplaceDependents
  <2>2. /\ Calls(d, s, Old(d, graph, s)) = {<<s, t>> : t \in graph.dependents[s]}
        /\ Calls(d, s, new) = {<<s, t>> : t \in new}
    BY DEF Calls, CallOf, Old
  <2>3. d \in Direction
    BY DEF Direction
  <2> HIDE DEF d
  <2>4. /\ Replaced(d, graph, s, new)
             = Returned(ReplaceLoops(graph, Calls(d, s, Old(d, graph, s)), Calls(d, s, new)))
        /\ Aborted(d, graph, s)
             = Thrown(ReplaceLoops(graph, Calls(d, s, Old(d, graph, s)), Calls(d, s, new)))
    BY <1>1, <2>3, LoopOutcomes
  <2> QED
    BY <2>1, <2>2, <2>4
<1>3. ASSUME NEW s \in Node, NEW new \in SUBSET Node
      PROVE  /\ ReplaceDependees(graph, s, new) = Returned(Backward(s, new))
             /\ AbortReplaceDependees(graph, s) = Thrown(Backward(s, new))
  <2> DEFINE d == "dependees"
  <2>1. /\ Replaced(d, graph, s, new) = ReplaceDependees(graph, s, new)
        /\ Aborted(d, graph, s) = AbortReplaceDependees(graph, s)
    BY DEF Replaced, Aborted, Through, Cut, Cuts, With, Without, Old, ReplaceDependees, AbortReplaceDependees
  <2>2. /\ Calls(d, s, Old(d, graph, s)) = {<<t, s>> : t \in graph.dependees[s]}
        /\ Calls(d, s, new) = {<<t, s>> : t \in new}
    BY DEF Calls, CallOf, Old
  <2>3. d \in Direction
    BY DEF Direction
  <2> HIDE DEF d
  <2>4. /\ Replaced(d, graph, s, new)
             = Returned(ReplaceLoops(graph, Calls(d, s, Old(d, graph, s)), Calls(d, s, new)))
        /\ Aborted(d, graph, s)
             = Thrown(ReplaceLoops(graph, Calls(d, s, Old(d, graph, s)), Calls(d, s, new)))
    BY <1>1, <2>3, LoopOutcomes
  <2> QED
    BY <2>1, <2>2, <2>4
<1> QED
  BY <1>2, <1>3 DEF LoopsAgree

-----------------------------------------------------------------------------
(* The loops of the server's replacements.                                 *)

LEMMA SameOrders == \A S : Server!SetToSeqs(S) = SetToSeqs(S)
  BY SameCardinality DEF Server!SetToSeqs, SetToSeqs

LEMMA GraphRecord ==
  ASSUME NEW g \in Server!Graph
  PROVE  /\ g.dependents \in [Node -> SUBSET Node]
         /\ g.dependees \in [Node -> SUBSET Node]
         /\ g = [dependents |-> g.dependents, dependees |-> g.dependees]
  BY DEF Server!Graph

\* The first loop of replaceDependents, as far as it has gone.
Dropped(g, s, gone) ==
  [dependents |-> [n \in Node |-> IF n \in gone THEN g.dependents[n] \ {s} ELSE g.dependents[n]],
   dependees  |-> [n \in Node |-> IF n \in gone /\ n \in g.dependees[n]
                                  THEN g.dependees[n] \ {s}
                                  ELSE g.dependees[n]]]

LEMMA DroppedNone ==
  ASSUME NEW g \in Server!Graph, NEW s \in Node
  PROVE  Dropped(g, s, {}) = g
<1>1. /\ [n \in Node |-> IF n \in {} THEN g.dependents[n] \ {s} ELSE g.dependents[n]] = g.dependents
      /\ [n \in Node |-> IF n \in {} /\ n \in g.dependees[n]
                         THEN g.dependees[n] \ {s}
                         ELSE g.dependees[n]] = g.dependees
  BY GraphRecord
<1> QED
  BY <1>1, GraphRecord DEF Dropped

LEMMA DroppedOneMore ==
  ASSUME NEW g \in Server!Graph, NEW s \in Node, NEW gone \in SUBSET g.dependents[s],
         NEW t \in g.dependents[s], t \notin gone
  PROVE  Server!RemoveDependency(Dropped(g, s, gone), s, t) = Dropped(g, s, gone \cup {t})
<1> DEFINE f == g.dependents
           e == g.dependees
           F == [n \in Node |-> IF n \in gone THEN f[n] \ {s} ELSE f[n]]
           E == [n \in Node |-> IF n \in gone /\ n \in e[n] THEN e[n] \ {s} ELSE e[n]]
<1>1. f \in [Node -> SUBSET Node] /\ e \in [Node -> SUBSET Node] /\ gone \in SUBSET f[s] /\ t \in f[s]
  BY GraphRecord
<1>2. Dropped(g, s, gone) = [dependents |-> F, dependees |-> E]
  BY DEF Dropped
<1>3. Dropped(g, s, gone \cup {t})
        = [dependents |-> [n \in Node |-> IF n \in gone \cup {t} THEN f[n] \ {s} ELSE f[n]],
           dependees  |-> [n \in Node |-> IF n \in gone \cup {t} /\ n \in e[n] THEN e[n] \ {s} ELSE e[n]]]
  BY DEF Dropped
<1> HIDE DEF f, e
<1>4. t \in Node /\ t \in F[s] /\ F \in [Node -> SUBSET Node]
  BY <1>1
<1>5. E \in [Node -> SUBSET Node] /\ E[t] = e[t]
  BY <1>1, <1>4
<1>6. [F EXCEPT ![t] = @ \ {s}] = [n \in Node |-> IF n \in gone \cup {t} THEN f[n] \ {s} ELSE f[n]]
  BY <1>1, <1>4
<1>7. (IF t \in e[t] THEN [E EXCEPT ![t] = @ \ {s}] ELSE E)
        = [n \in Node |-> IF n \in gone \cup {t} /\ n \in e[n] THEN e[n] \ {s} ELSE e[n]]
  BY <1>1, <1>4
<1> HIDE DEF F, E
<1>8. Server!RemoveDependency([dependents |-> F, dependees |-> E], s, t)
        = [dependents |-> IF t \in F[s] THEN [F EXCEPT ![t] = @ \ {s}] ELSE F,
           dependees  |-> IF t \in E[t] THEN [E EXCEPT ![t] = @ \ {s}] ELSE E]
  BY DEF Server!RemoveDependency
<1>9. Server!RemoveDependency([dependents |-> F, dependees |-> E], s, t)
        = [dependents |-> [F EXCEPT ![t] = @ \ {s}],
           dependees  |-> IF t \in e[t] THEN [E EXCEPT ![t] = @ \ {s}] ELSE E]
  BY <1>4, <1>5, <1>8
<1> QED
  BY <1>2, <1>3, <1>6, <1>7, <1>9

\* In every order it drops the same pairs.
LEMMA DropsAll ==
  ASSUME IsFiniteSet(Node), NEW g \in Server!Graph, NEW s \in Node,
         NEW o \in SetToSeqs(Calls("dependents", s, g.dependents[s]))
  PROVE  Server!RemovalLoop(g, o) = Server!DropDependents(g, s)
<1> DEFINE n == Len(o)
           d == "dependents"
           old == g.dependents[s]
<1>0. d \in Direction /\ old \in SUBSET Node
  BY GraphRecord DEF Direction
<1>1. n \in Nat
  <2> HIDE DEF d, old
  <2> QED
    BY <1>0, NamesInOrder DEF d, old
<1>2. PICK name : Names(name, d, s, old, o, n)
  <2> HIDE DEF d, old
  <2> QED
    BY <1>0, NamesInOrder DEF d, old
<1>3. /\ name \in [1..n -> old]
      /\ \A i \in 1..n : o[i] = <<s, name[i]>>
      /\ \A i, j \in 1..n : name[i] = name[j] => i = j
      /\ \A t \in old : \E i \in 1..n : name[i] = t
  BY <1>2 DEF Names, CallOf
<1> DEFINE stage == [i \in 0..n |-> Dropped(g, s, Some(name, 1, i))]
<1>4. stage[0] = g
  <2>1. Some(name, 1, 0) = {} /\ 0 \in 0..n
    BY <1>1 DEF Some
  <2>2. stage[0] = Dropped(g, s, {})
    BY <1>1, <2>1
  <2> QED
    BY <2>2, DroppedNone
<1>5. ASSUME NEW i \in 1..n PROVE stage[i] = Server!RemoveDependency(stage[i - 1], o[i][1], o[i][2])
  <2>1. i \in 0..n /\ i - 1 \in 0..n /\ 1 \in 1..(n + 1) /\ 1 <= i
    BY <1>1
  <2> DEFINE gone == Some(name, 1, i - 1)
             t == name[i]
  <2>2. stage[i] = Dropped(g, s, Some(name, 1, i)) /\ stage[i - 1] = Dropped(g, s, gone)
    BY <2>1
  <2>3. Some(name, 1, i) = gone \cup {t} /\ t \notin gone /\ gone \in SUBSET old
    <3> HIDE DEF stage, n, old
    <3> QED
      BY <1>1, <1>3, <2>1, SomeMore
  <2>4. t \in old /\ o[i][1] = s /\ o[i][2] = t
    BY <1>3
  <2> HIDE DEF stage, gone, t, n
  <2>5. Server!RemoveDependency(Dropped(g, s, gone), s, t) = Dropped(g, s, gone \cup {t})
    BY <2>3, <2>4, DroppedOneMore
  <2> QED
    BY <2>2, <2>3, <2>4, <2>5
<1>6. stage[n] = Dropped(g, s, old)
  <2>1. Some(name, 1, n) = old
    BY <1>3 DEF Some
  <2> QED
    BY <1>1, <2>1
<1>7. Dropped(g, s, old) = Server!DropDependents(g, s)
  BY DEF Dropped, Server!DropDependents
<1> HIDE DEF stage
<1> QED
  BY <1>1, <1>4, <1>5, <1>6, <1>7, ServerRemovalStages

\* The first loop of replaceDependees, as far as it has gone: `gone` was to go,
\* `erased` went from the dependees.
DroppedBack(g, s, gone, erased) ==
  [dependents |-> [g.dependents EXCEPT ![s] = @ \ {r \in gone : s \in g.dependents[r]}],
   dependees  |-> [g.dependees EXCEPT ![s] = @ \ erased]]

LEMMA DroppedBackNone ==
  ASSUME NEW g \in Server!Graph, NEW s \in Node
  PROVE  DroppedBack(g, s, {}, {}) = g
<1>1. /\ [g.dependents EXCEPT ![s] = @ \ {r \in {} : s \in g.dependents[r]}] = g.dependents
      /\ [g.dependees EXCEPT ![s] = @ \ {}] = g.dependees
  BY GraphRecord
<1> QED
  BY <1>1, GraphRecord DEF DroppedBack

LEMMA DroppedBackOneMore ==
  ASSUME NEW g \in Server!Graph, NEW s \in Node, NEW gone \in SUBSET Node, NEW erased \in SUBSET gone,
         NEW t \in Node, t \notin gone,
         NEW more, more = IF s \in g.dependees[s] /\ s \notin erased THEN erased \cup {t} ELSE erased
  PROVE  Server!RemoveDependency(DroppedBack(g, s, gone, erased), t, s)
           = DroppedBack(g, s, gone \cup {t}, more)
<1> DEFINE f == g.dependents
           e == g.dependees
           F == [f EXCEPT ![s] = @ \ {r \in gone : s \in f[r]}]
           E == [e EXCEPT ![s] = @ \ erased]
<1>1. /\ f \in [Node -> SUBSET Node] /\ e \in [Node -> SUBSET Node]
      /\ more = IF s \in e[s] /\ s \notin erased THEN erased \cup {t} ELSE erased
  BY GraphRecord
<1>2. DroppedBack(g, s, gone, erased) = [dependents |-> F, dependees |-> E]
  BY DEF DroppedBack
<1>3. DroppedBack(g, s, gone \cup {t}, more)
        = [dependents |-> [f EXCEPT ![s] = @ \ {r \in gone \cup {t} : s \in f[r]}],
           dependees  |-> [e EXCEPT ![s] = @ \ more]]
  BY DEF DroppedBack
<1> HIDE DEF f, e
<1>4. F \in [Node -> SUBSET Node] /\ E \in [Node -> SUBSET Node]
  BY <1>1
<1>5. (s \in F[t] <=> s \in f[t]) /\ (s \in E[s] <=> s \in e[s] /\ s \notin erased)
  BY <1>1
<1>6. (IF s \in F[t] THEN [F EXCEPT ![s] = @ \ {t}] ELSE F)
        = [f EXCEPT ![s] = @ \ {r \in gone \cup {t} : s \in f[r]}]
  <2>1. CASE s \in f[t]
    <3>1. f[s] \ {r \in gone \cup {t} : s \in f[r]} = F[s] \ {t}
      BY <1>1, <2>1
    <3> QED
      BY <1>1, <1>5, <2>1, <3>1
  <2>2. CASE s \notin f[t]
    <3>1. {r \in gone \cup {t} : s \in f[r]} = {r \in gone : s \in f[r]}
      BY <2>2
    <3> HIDE DEF F
    <3> QED
      BY <1>5, <2>2, <3>1 DEF F
  <2> QED
    BY <2>1, <2>2
<1>7. (IF s \in E[s] THEN [E EXCEPT ![s] = @ \ {t}] ELSE E) = [e EXCEPT ![s] = @ \ more]
  <2>1. CASE s \in E[s]
    <3>1. more = erased \cup {t}
      BY <1>1, <1>5, <2>1
    <3> QED
      BY <1>1, <2>1, <3>1
  <2>2. CASE s \notin E[s]
    <3>1. more = erased
      BY <1>1, <1>5, <2>2
    <3> QED
      BY <1>1, <2>2, <3>1
  <2> QED
    BY <2>1, <2>2
<1> HIDE DEF F, E
<1>8. Server!RemoveDependency([dependents |-> F, dependees |-> E], t, s)
        = [dependents |-> IF s \in F[t] THEN [F EXCEPT ![s] = @ \ {t}] ELSE F,
           dependees  |-> IF s \in E[s] THEN [E EXCEPT ![s] = @ \ {t}] ELSE E]
  BY DEF Server!RemoveDependency
<1> QED
  BY <1>2, <1>3, <1>6, <1>7, <1>8

\* If s is not its own dependee, nothing is erased from its dependees.
LEMMA DropsBackWithout ==
  ASSUME IsFiniteSet(Node), NEW g \in Server!Graph, NEW s \in Node, s \notin g.dependees[s],
         NEW o \in SetToSeqs(Calls("dependees", s, g.dependees[s]))
  PROVE  Server!RemovalLoop(g, o) = Server!DropDependees(g, s, {})
<1> DEFINE n == Len(o)
           d == "dependees"
           old == g.dependees[s]
<1>0. d \in Direction /\ old \in SUBSET Node
  BY GraphRecord DEF Direction
<1>1. n \in Nat
  <2> HIDE DEF d, old
  <2> QED
    BY <1>0, NamesInOrder DEF d, old
<1>2. PICK name : Names(name, d, s, old, o, n)
  <2> HIDE DEF d, old
  <2> QED
    BY <1>0, NamesInOrder DEF d, old
<1>3. /\ name \in [1..n -> old]
      /\ \A i \in 1..n : o[i] = <<name[i], s>>
      /\ \A i, j \in 1..n : name[i] = name[j] => i = j
      /\ \A t \in old : \E i \in 1..n : name[i] = t
  BY <1>2 DEF Names, CallOf
<1> DEFINE stage == [i \in 0..n |-> DroppedBack(g, s, Some(name, 1, i), {})]
<1>4. stage[0] = g
  <2>1. Some(name, 1, 0) = {} /\ 0 \in 0..n
    BY <1>1 DEF Some
  <2>2. stage[0] = DroppedBack(g, s, {}, {})
    BY <1>1, <2>1
  <2> QED
    BY <2>2, DroppedBackNone
<1>5. ASSUME NEW i \in 1..n PROVE stage[i] = Server!RemoveDependency(stage[i - 1], o[i][1], o[i][2])
  <2>1. i \in 0..n /\ i - 1 \in 0..n /\ 1 \in 1..(n + 1) /\ 1 <= i
    BY <1>1
  <2> DEFINE gone == Some(name, 1, i - 1)
             t == name[i]
  <2>2. stage[i] = DroppedBack(g, s, Some(name, 1, i), {}) /\ stage[i - 1] = DroppedBack(g, s, gone, {})
    BY <2>1
  <2>3. Some(name, 1, i) = gone \cup {t} /\ t \notin gone /\ gone \in SUBSET old
    <3> HIDE DEF stage, n, old
    <3> QED
      BY <1>1, <1>3, <2>1, SomeMore
  <2>4. t \in Node /\ gone \in SUBSET Node /\ {} \in SUBSET gone /\ o[i][1] = t /\ o[i][2] = s
    BY <1>0, <1>3, <2>3
  <2> HIDE DEF stage, gone, t, n
  <2>5. Server!RemoveDependency(DroppedBack(g, s, gone, {}), t, s) = DroppedBack(g, s, gone \cup {t}, {})
    BY <2>3, <2>4, DroppedBackOneMore
  <2> QED
    BY <2>2, <2>3, <2>4, <2>5
<1>6. stage[n] = DroppedBack(g, s, old, {})
  <2>1. Some(name, 1, n) = old
    BY <1>3 DEF Some
  <2> QED
    BY <1>1, <2>1
<1>7. DroppedBack(g, s, old, {}) = Server!DropDependees(g, s, {})
  BY DEF DroppedBack, Server!DropDependees
<1> HIDE DEF stage
<1> QED
  BY <1>1, <1>4, <1>5, <1>6, <1>7, ServerRemovalStages

\* If it is, what the order has up to s is erased.
LEMMA DropsBackAround ==
  ASSUME IsFiniteSet(Node), NEW g \in Server!Graph, NEW s \in Node,
         NEW o \in SetToSeqs(Calls("dependees", s, g.dependees[s])), NEW k \in 1..Len(o),
         o[k] = CallOf("dependees", s, s),
         NEW before, Ahead(o, k) = Calls("dependees", s, before)
  PROVE  /\ before \in SUBSET (g.dependees[s] \ {s}) /\ s \in g.dependees[s]
         /\ Server!RemovalLoop(g, o) = Server!DropDependees(g, s, before \cup {s})
<1> DEFINE n == Len(o)
           d == "dependees"
           old == g.dependees[s]
<1>0. d \in Direction /\ old \in SUBSET Node
  BY GraphRecord DEF Direction
<1>1. n \in Nat
  <2> HIDE DEF d, old
  <2> QED
    BY <1>0, NamesInOrder DEF d, old
<1>2. PICK name : Names(name, d, s, old, o, n)
  <2> HIDE DEF d, old
  <2> QED
    BY <1>0, NamesInOrder DEF d, old
<1>3. /\ name \in [1..n -> old]
      /\ \A i \in 1..n : o[i] = <<name[i], s>>
      /\ \A i, j \in 1..n : name[i] = name[j] => i = j
      /\ \A t \in old : \E i \in 1..n : name[i] = t
  BY <1>2 DEF Names, CallOf
<1>4. k \in 1..n /\ name[k] = s /\ s \in old
  BY <1>3 DEF CallOf
<1> HIDE DEF n
<1>5. before = Some(name, 1, k - 1)
  <2>1. \A j \in 1..(k - 1) : j \in 1..n
    BY <1>1, <1>4
  <2>2. \A j \in 1..(k - 1) : name[j] \in before
    <3>1. \A j \in 1..(k - 1) : \E t \in before : o[j] = <<t, s>>
      BY DEF Calls, CallOf, Ahead
    <3> QED
      BY <1>3, <2>1, <3>1
  <2>3. ASSUME NEW t \in before PROVE \E j \in 1..(k - 1) : name[j] = t
    <3>1. PICK j \in 1..(k - 1) : o[j] = <<t, s>>
      BY DEF Calls, CallOf, Ahead
    <3>2. name[j] = t
      BY <1>3, <2>1, <3>1
    <3> QED
      BY <3>2
  <2> QED
    BY <2>2, <2>3 DEF Some
<1>6. before \in SUBSET (old \ {s})
  <2>1. \A m \in 1..(k - 1) : m \in 1..n /\ m # k
    BY <1>1, <1>4
  <2> QED
    BY <1>3, <1>4, <1>5, <2>1 DEF Some
<1>7. Some(name, 1, k) = before \cup {s}
  <2>1. 1 \in 1..(n + 1) /\ 1 <= k
    BY <1>1, <1>4
  <2>2. Some(name, 1, k) = Some(name, 1, k - 1) \cup {name[k]}
    <3> HIDE DEF old
    <3> QED
      BY <1>1, <1>3, <1>4, <2>1, SomeMore
  <2> QED
    BY <1>4, <1>5, <2>2
<1> DEFINE Erased(i) == IF i < k THEN Some(name, 1, i) ELSE before \cup {s}
           stage == [i \in 0..n |-> DroppedBack(g, s, Some(name, 1, i), Erased(i))]
<1>8. stage[0] = g
  <2>1. Some(name, 1, 0) = {} /\ 0 \in 0..n /\ 0 < k
    BY <1>1, <1>4 DEF Some
  <2>2. stage[0] = DroppedBack(g, s, {}, {})
    BY <2>1
  <2> QED
    BY <2>2, DroppedBackNone
<1>9. ASSUME NEW i \in 1..n PROVE stage[i] = Server!RemoveDependency(stage[i - 1], o[i][1], o[i][2])
  <2>1. i \in 0..n /\ i - 1 \in 0..n /\ 1 \in 1..(n + 1) /\ 1 <= i
    BY <1>1
  <2> DEFINE gone == Some(name, 1, i - 1)
             erased == Erased(i - 1)
             t == name[i]
  <2>2. /\ stage[i] = DroppedBack(g, s, Some(name, 1, i), Erased(i))
        /\ stage[i - 1] = DroppedBack(g, s, gone, erased)
    <3> HIDE DEF Erased
    <3> QED
      BY <2>1
  <2>3. Some(name, 1, i) = gone \cup {t} /\ t \notin gone /\ gone \in SUBSET old
    <3> HIDE DEF stage, old
    <3> QED
      BY <1>1, <1>3, <2>1, SomeMore
  <2>4. t \in Node /\ gone \in SUBSET Node /\ o[i][1] = t /\ o[i][2] = s
    BY <1>0, <1>3, <2>3
  <2>5. s \notin erased <=> i - 1 < k
    <3>1. CASE i - 1 < k
      <4>1. \A m \in 1..(i - 1) : m \in 1..n /\ m # k
        BY <1>1, <1>4, <3>1
      <4>2. s \notin gone
        BY <1>3, <1>4, <4>1 DEF Some
      <4> QED
        BY <3>1, <4>2
    <3>2. CASE ~(i - 1 < k)
      BY <3>2
    <3> QED
      BY <3>1, <3>2
  <2>6. erased \in SUBSET gone
    <3>1. CASE i - 1 < k
      BY <3>1
    <3>2. CASE ~(i - 1 < k)
      <4>1. \A m \in 1..k : m \in 1..(i - 1)
        BY <1>1, <1>4, <3>2
      <4>2. Some(name, 1, k) \in SUBSET gone
        BY <4>1 DEF Some
      <4> QED
        BY <1>7, <3>2, <4>2
    <3> QED
      BY <3>1, <3>2
  <2>7. Erased(i) = IF i - 1 < k THEN erased \cup {t} ELSE erased
    <3>1. CASE i < k
      <4>1. i - 1 < k
        BY <3>1
      <4> QED
        BY <2>3, <3>1, <4>1
    <3>2. CASE i = k
      <4>1. i - 1 < k /\ ~(i < k)
        BY <3>2
      <4>2. erased = before /\ t = s
        BY <1>4, <1>5, <3>2, <4>1
      <4> QED
        BY <4>1, <4>2
    <3>3. CASE i > k
      <4>1. ~(i - 1 < k) /\ ~(i < k)
        BY <1>4, <3>3
      <4> QED
        BY <4>1
    <3> QED
      BY <1>4, <3>1, <3>2, <3>3
  <2> HIDE DEF stage, gone, t, Erased, erased
  <2>8. Erased(i) = IF s \in g.dependees[s] /\ s \notin erased THEN erased \cup {t} ELSE erased
    BY <1>4, <2>5, <2>7
  <2>9. Server!RemoveDependency(DroppedBack(g, s, gone, erased), t, s)
          = DroppedBack(g, s, gone \cup {t}, Erased(i))
    BY <2>3, <2>4, <2>6, <2>8, DroppedBackOneMore
  <2> QED
    BY <2>2, <2>3, <2>4, <2>8, <2>9
<1>10. stage[n] = DroppedBack(g, s, old, before \cup {s})
  <2>1. Some(name, 1, n) = old
    BY <1>3 DEF Some
  <2>2. n \in 0..n /\ ~(n < k)
    BY <1>1, <1>4
  <2> QED
    BY <2>1, <2>2
<1>11. DroppedBack(g, s, old, before \cup {s}) = Server!DropDependees(g, s, before \cup {s})
  BY DEF DroppedBack, Server!DropDependees
<1>12. Server!RemovalLoop(g, o) = stage[n]
  <2> HIDE DEF stage
  <2> QED
    BY <1>1, <1>8, <1>9, ServerRemovalStages DEF n
<1> QED
  BY <1>4, <1>6, <1>10, <1>11, <1>12

-----------------------------------------------------------------------------
(* The loops of additions, on a vector of any length.                      *)

\* The names of a vector's first i places, and those before one that is s.
NamesTo(new, i) == {new[j] : j \in 1..i}

EarlyTo(s, new, i) == {new[j] : j \in {j \in 1..i : \A k \in 1..(j - 1) : new[k] # s}}

\* Of no places there is none, of all of them the names AddDependees adds.
LEMMA NamesOfVector ==
  ASSUME NEW s, NEW new \in Seq(Node)
  PROVE  /\ NamesTo(new, 0) = {} /\ EarlyTo(s, new, 0) = {}
         /\ NamesTo(new, Len(new)) = {new[i] : i \in DOMAIN new}
         /\ EarlyTo(s, new, Len(new))
              = {new[i] : i \in {j \in DOMAIN new : \A k \in 1..(j - 1) : new[k] # s}}
<1>1. 1..0 = {} /\ DOMAIN new = 1..Len(new)
  OBVIOUS
<1> QED
  BY <1>1 DEF NamesTo, EarlyTo

\* The name at a place is one more; it is early if s was not.
LEMMA NamesOneMore ==
  ASSUME NEW s, NEW new \in Seq(Node), NEW i \in 1..Len(new)
  PROVE  /\ NamesTo(new, i) = NamesTo(new, i - 1) \cup {new[i]}
         /\ s \in EarlyTo(s, new, i - 1) => EarlyTo(s, new, i) = EarlyTo(s, new, i - 1)
         /\ s \notin EarlyTo(s, new, i - 1)
              => EarlyTo(s, new, i) = EarlyTo(s, new, i - 1) \cup {new[i]}
<1> DEFINE First(j) == \A k \in 1..(j - 1) : new[k] # s
<1>1. 1..i = (1..(i - 1)) \cup {i} /\ i - 1 \in Nat
  OBVIOUS
<1>2. NamesTo(new, i) = NamesTo(new, i - 1) \cup {new[i]}
  BY <1>1 DEF NamesTo
<1>3. EarlyTo(s, new, i) = {new[j] : j \in {j \in 1..i : First(j)}}
      /\ EarlyTo(s, new, i - 1) = {new[j] : j \in {j \in 1..(i - 1) : First(j)}}
  BY DEF EarlyTo
<1>4. s \in EarlyTo(s, new, i - 1) <=> ~First(i)
  <2>1. ASSUME s \in EarlyTo(s, new, i - 1) PROVE ~First(i)
    BY <1>3, <2>1
  <2>2. ASSUME ~First(i) PROVE s \in EarlyTo(s, new, i - 1)
    <3> DEFINE T == {k \in 1..(i - 1) : new[k] = s}
    <3>1. T \in SUBSET Nat /\ T # {}
      BY <2>2
    <3> HIDE DEF T
    <3>2. PICK k \in T : \A j \in T : k <= j
      BY <3>1, NatMin
    <3>3. k \in 1..(i - 1) /\ new[k] = s
      BY DEF T
    <3>4. First(k)
      <4> SUFFICES ASSUME NEW j \in 1..(k - 1), new[j] = s PROVE FALSE
        OBVIOUS
      <4>1. j \in 1..(i - 1) /\ ~(k <= j)
        BY <3>3
      <4> QED
        BY <3>2, <4>1 DEF T
    <3> HIDE DEF First
    <3> QED
      BY <1>3, <3>3, <3>4
  <2> QED
    BY <2>1, <2>2
<1> HIDE DEF First
<1>5. CASE First(i)
  <2>1. {j \in 1..i : First(j)} = {j \in 1..(i - 1) : First(j)} \cup {i}
    BY <1>1, <1>5
  <2>2. EarlyTo(s, new, i) = EarlyTo(s, new, i - 1) \cup {new[i]}
    BY <1>3, <2>1
  <2> QED
    BY <1>2, <1>4, <1>5, <2>2
<1>6. CASE ~First(i)
  <2>1. {j \in 1..i : First(j)} = {j \in 1..(i - 1) : First(j)}
    BY <1>1, <1>6
  <2>2. EarlyTo(s, new, i) = EarlyTo(s, new, i - 1)
    BY <1>3, <2>1
  <2> QED
    BY <1>2, <1>4, <1>6, <2>2
<1> QED
  BY <1>5, <1>6

LEMMA NamesAreNodes ==
  ASSUME NEW s, NEW new \in Seq(Node), NEW i \in 0..Len(new)
  PROVE  NamesTo(new, i) \in SUBSET Node /\ EarlyTo(s, new, i) \in SUBSET NamesTo(new, i)
<1>1. \A j \in 1..i : new[j] \in Node
  OBVIOUS
<1> QED
  BY <1>1 DEF NamesTo, EarlyTo

\* The second loop of replaceDependents.
LEMMA ServerAddsDependents ==
  ASSUME NEW g \in Server!Graph, NEW s \in Node, NEW new \in Seq(Node)
  PROVE  Server!AdditionLoop(g, [i \in DOMAIN new |-> <<s, new[i]>>]) = Server!AddDependents(g, s, new)
<1> DEFINE f == g.dependents
           e == g.dependees
           Closed(names) == [dependents |-> [f EXCEPT ![s] = @ \cup names],
                             dependees  |-> [n \in Node |-> IF n \in names /\ n \notin e[n]
                                                            THEN e[n] \cup {s}
                                                            ELSE e[n]]]
<1>0. f \in [Node -> SUBSET Node] /\ e \in [Node -> SUBSET Node] /\ g = [dependents |-> f, dependees |-> e]
  BY GraphRecord
<1>1. Server!AddDependents(g, s, new) = Closed(NamesTo(new, Len(new)))
  BY NamesOfVector DEF Server!AddDependents
<1> HIDE DEF f, e
<1>2. Closed({}) = g
  <2>1. [f EXCEPT ![s] = @ \cup {}] = f /\ [n \in Node |-> IF n \in {} /\ n \notin e[n] THEN e[n] \cup {s} ELSE e[n]] = e
    BY <1>0
  <2> QED
    BY <1>0, <2>1
<1>3. ASSUME NEW names \in SUBSET Node, NEW t \in Node
      PROVE  Server!AddDependency(Closed(names), s, t) = Closed(names \cup {t})
  <2> DEFINE F == [f EXCEPT ![s] = @ \cup names]
             E == [n \in Node |-> IF n \in names /\ n \notin e[n] THEN e[n] \cup {s} ELSE e[n]]
  <2>1. [F EXCEPT ![s] = @ \cup {t}] = [f EXCEPT ![s] = @ \cup (names \cup {t})]
    BY <1>0
  <2>2. (IF t \in E[t] THEN E ELSE [E EXCEPT ![t] = @ \cup {s}])
          = [n \in Node |-> IF n \in names \cup {t} /\ n \notin e[n] THEN e[n] \cup {s} ELSE e[n]]
    <3>1. CASE t \in E[t]
      <4>1. t \in e[t] \/ (t \in names /\ t \notin e[t])
        BY <1>0, <3>1
      <4>2. \A n \in Node : n \in names \cup {t} /\ n \notin e[n] <=> n \in names /\ n \notin e[n]
        BY <4>1
      <4>3. E = [n \in Node |-> IF n \in names \cup {t} /\ n \notin e[n] THEN e[n] \cup {s} ELSE e[n]]
        BY <4>2
      <4> QED
        BY <3>1, <4>3
    <3>2. CASE t \notin E[t]
      <4>1. t \notin e[t]
        BY <1>0, <3>2
      <4>2. [E EXCEPT ![t] = @ \cup {s}]
              = [n \in Node |-> IF n \in names \cup {t} /\ n \notin e[n] THEN e[n] \cup {s} ELSE e[n]]
        BY <1>0, <4>1
      <4> QED
        BY <3>2, <4>2
    <3> QED
      BY <3>1, <3>2
  <2>3. Closed(names) = [dependents |-> F, dependees |-> E]
    OBVIOUS
  <2>4. Closed(names \cup {t})
          = [dependents |-> [f EXCEPT ![s] = @ \cup (names \cup {t})],
             dependees  |-> [n \in Node |-> IF n \in names \cup {t} /\ n \notin e[n] THEN e[n] \cup {s} ELSE e[n]]]
    OBVIOUS
  <2> HIDE DEF Closed, F, E
  <2>5. Server!AddDependency([dependents |-> F, dependees |-> E], s, t)
          = [dependents |-> [F EXCEPT ![s] = @ \cup {t}],
             dependees  |-> IF t \in E[t] THEN E ELSE [E EXCEPT ![t] = @ \cup {s}]]
    BY DEF Server!AddDependency
  <2> QED
    BY <2>1, <2>2, <2>3, <2>4, <2>5
<1> HIDE DEF Closed
<1> DEFINE calls == [i \in DOMAIN new |-> <<s, new[i]>>]
           stage == [i \in 0..Len(new) |-> Closed(NamesTo(new, i))]
<1>4. Len(calls) = Len(new) /\ \A i \in 1..Len(new) : calls[i][1] = s /\ calls[i][2] = new[i]
  OBVIOUS
<1>5. stage[0] = g
  BY <1>2, NamesOfVector
<1>6. ASSUME NEW i \in 1..Len(new)
      PROVE  stage[i] = Server!AddDependency(stage[i - 1], s, new[i])
  <2>1. NamesTo(new, i) = NamesTo(new, i - 1) \cup {new[i]}
    BY NamesOneMore
  <2>2. i - 1 \in 0..Len(new) /\ i \in 0..Len(new) /\ new[i] \in Node
    OBVIOUS
  <2>3. NamesTo(new, i - 1) \in SUBSET Node
    BY <2>2, NamesAreNodes
  <2> QED
    BY <1>3, <2>1, <2>2, <2>3
<1>7. stage[Len(new)] = Closed(NamesTo(new, Len(new)))
  OBVIOUS
<1> HIDE DEF calls, stage
<1>8. Server!AdditionLoop(g, calls) = stage[Len(new)]
  <2>1. Len(calls) \in Nat
    BY <1>4
  <2> QED
    BY <1>4, <1>5, <1>6, <2>1, ServerAdditionStages
<1> QED
  BY <1>1, <1>7, <1>8 DEF calls

\* The second loop of replaceDependees.
LEMMA ServerAddsDependees ==
  ASSUME NEW g \in Server!Graph, NEW s \in Node, NEW new \in Seq(Node)
  PROVE  Server!AdditionLoop(g, [i \in DOMAIN new |-> <<new[i], s>>]) = Server!AddDependees(g, s, new)
<1> DEFINE f == g.dependents
           e == g.dependees
           Closed(names, early) ==
             [dependents |-> [n \in Node |-> IF n \in names THEN f[n] \cup {s} ELSE f[n]],
              dependees  |-> IF s \in e[s] THEN e ELSE [e EXCEPT ![s] = @ \cup early]]
<1>0. f \in [Node -> SUBSET Node] /\ e \in [Node -> SUBSET Node] /\ g = [dependents |-> f, dependees |-> e]
  BY GraphRecord
<1>1. Server!AddDependees(g, s, new) = Closed(NamesTo(new, Len(new)), EarlyTo(s, new, Len(new)))
  BY NamesOfVector DEF Server!AddDependees
<1> HIDE DEF f, e
<1>2. Closed({}, {}) = g
  <2>1. [e EXCEPT ![s] = @ \cup {}] = e /\ [n \in Node |-> IF n \in {} THEN f[n] \cup {s} ELSE f[n]] = f
    BY <1>0
  <2> QED
    BY <1>0, <2>1
<1>3. ASSUME NEW names \in SUBSET Node, NEW early \in SUBSET names, NEW t \in Node,
             NEW more, more = IF s \in early THEN early ELSE early \cup {t}
      PROVE  Server!AddDependency(Closed(names, early), t, s) = Closed(names \cup {t}, more)
  <2> DEFINE F == [n \in Node |-> IF n \in names THEN f[n] \cup {s} ELSE f[n]]
             E == IF s \in e[s] THEN e ELSE [e EXCEPT ![s] = @ \cup early]
  <2>1. [F EXCEPT ![t] = @ \cup {s}]
          = [n \in Node |-> IF n \in names \cup {t} THEN f[n] \cup {s} ELSE f[n]]
    BY <1>0
  <2>2. (IF s \in E[s] THEN E ELSE [E EXCEPT ![s] = @ \cup {t}])
          = IF s \in e[s] THEN e ELSE [e EXCEPT ![s] = @ \cup more]
    <3>1. CASE s \in e[s]
      BY <3>1
    <3>2. CASE s \notin e[s] /\ s \in early
      BY <1>0, <1>3, <3>2
    <3>3. CASE s \notin e[s] /\ s \notin early
      <4>1. E = [e EXCEPT ![s] = @ \cup early] /\ s \notin E[s] /\ more = early \cup {t}
        BY <1>0, <1>3, <3>3
      <4> HIDE DEF E
      <4>2. [E EXCEPT ![s] = @ \cup {t}] = [e EXCEPT ![s] = @ \cup more]
        BY <1>0, <4>1
      <4> QED
        BY <3>3, <4>1, <4>2
    <3> QED
      BY <3>1, <3>2, <3>3
  <2>3. Closed(names, early) = [dependents |-> F, dependees |-> E]
    OBVIOUS
  <2>4. Closed(names \cup {t}, more)
          = [dependents |-> [n \in Node |-> IF n \in names \cup {t} THEN f[n] \cup {s} ELSE f[n]],
             dependees  |-> IF s \in e[s] THEN e ELSE [e EXCEPT ![s] = @ \cup more]]
    OBVIOUS
  <2> HIDE DEF Closed, F, E
  <2>5. Server!AddDependency([dependents |-> F, dependees |-> E], t, s)
          = [dependents |-> [F EXCEPT ![t] = @ \cup {s}],
             dependees  |-> IF s \in E[s] THEN E ELSE [E EXCEPT ![s] = @ \cup {t}]]
    BY DEF Server!AddDependency
  <2> QED
    BY <2>1, <2>2, <2>3, <2>4, <2>5
<1> HIDE DEF Closed
<1> DEFINE calls == [i \in DOMAIN new |-> <<new[i], s>>]
           stage == [i \in 0..Len(new) |-> Closed(NamesTo(new, i), EarlyTo(s, new, i))]
<1>4. Len(calls) = Len(new) /\ \A i \in 1..Len(new) : calls[i][1] = new[i] /\ calls[i][2] = s
  OBVIOUS
<1>5. stage[0] = g
  BY <1>2, NamesOfVector
<1>6. ASSUME NEW i \in 1..Len(new)
      PROVE  stage[i] = Server!AddDependency(stage[i - 1], new[i], s)
  <2> DEFINE names == NamesTo(new, i - 1)
             early == EarlyTo(s, new, i - 1)
             more == EarlyTo(s, new, i)
  <2>1. NamesTo(new, i) = names \cup {new[i]}
    BY NamesOneMore
  <2>2. more = IF s \in early THEN early ELSE early \cup {new[i]}
    <3>1. /\ s \in early => more = early
          /\ s \notin early => more = early \cup {new[i]}
      BY NamesOneMore
    <3> HIDE DEF early, more
    <3> QED
      BY <3>1
  <2>3. i - 1 \in 0..Len(new) /\ i \in 0..Len(new) /\ new[i] \in Node
    OBVIOUS
  <2>4. names \in SUBSET Node /\ early \in SUBSET names
    BY <2>3, NamesAreNodes
  <2>5. stage[i - 1] = Closed(names, early) /\ stage[i] = Closed(NamesTo(new, i), more)
    BY <2>3
  <2> HIDE DEF names, early, more, stage
  <2>6. Server!AddDependency(Closed(names, early), new[i], s) = Closed(names \cup {new[i]}, more)
    BY <1>3, <2>2, <2>3, <2>4
  <2> QED
    BY <2>1, <2>5, <2>6
<1>7. stage[Len(new)] = Closed(NamesTo(new, Len(new)), EarlyTo(s, new, Len(new)))
  OBVIOUS
<1> HIDE DEF calls, stage
<1>8. Server!AdditionLoop(g, calls) = stage[Len(new)]
  <2>1. Len(calls) \in Nat
    BY <1>4
  <2> QED
    BY <1>4, <1>5, <1>6, <2>1, ServerAdditionStages
<1> QED
  BY <1>1, <1>7, <1>8 DEF calls

\* So the closed forms of the server's replacements are their loops.
LEMMA ServerLoops ==
  ASSUME IsFiniteSet(Node), serverGraph \in Server!Graph
  PROVE  \A s \in Node, new \in Seq(Node) : Server!LoopAgrees(s, new)
<1> DEFINE g == serverGraph
<1>1. ASSUME NEW s \in Node, NEW new \in Seq(Node)
      PROVE  {Server!AddDependents(Server!DropDependents(g, s), s, new)} =
               {Server!AdditionLoop(Server!RemovalLoop(g, order), [i \in DOMAIN new |-> <<s, new[i]>>]) :
                  order \in Server!SetToSeqs({<<s, t>> : t \in g.dependents[s]})}
  <2> DEFINE d == "dependents"
             old == g.dependents[s]
             orders == SetToSeqs(Calls(d, s, old))
             calls == [i \in DOMAIN new |-> <<s, new[i]>>]
             h == Server!DropDependents(g, s)
  <2>1. Server!SetToSeqs({<<s, t>> : t \in g.dependents[s]}) = orders
    <3>1. Calls(d, s, old) = {<<s, t>> : t \in g.dependents[s]}
      BY DEF Calls, CallOf
    <3> HIDE DEF d, old
    <3> QED
      BY <3>1, SameOrders
  <2>2. orders # {}
    <3>1. d \in Direction /\ old \in SUBSET Node
      BY GraphRecord DEF Direction
    <3> HIDE DEF d, old
    <3> QED
      BY <3>1, CallsFinite, SomeOrder
  <2>3. \A o \in orders : Server!RemovalLoop(g, o) = h
    BY DropsAll
  <2>4. Server!AdditionLoop(h, calls) = Server!AddDependents(h, s, new)
    <3>1. h \in Server!Graph
      BY DropDependentsIsGraph
    <3> HIDE DEF h
    <3> QED
      BY <3>1, ServerAddsDependents
  <2> HIDE DEF orders, h, calls
  <2>5. {Server!AddDependents(h, s, new)} = {Server!AdditionLoop(Server!RemovalLoop(g, o), calls) : o \in orders}
    BY <2>2, <2>3, <2>4
  <2> QED
    BY <2>1, <2>5 DEF h, calls
<1>2. ASSUME NEW s \in Node, NEW new \in Seq(Node)
      PROVE  {Server!ReplaceDependees(g, s, new, gone) : gone \in Server!Erasable(g, s)} =
               {Server!AdditionLoop(Server!RemovalLoop(g, order), [i \in DOMAIN new |-> <<new[i], s>>]) :
                  order \in Server!SetToSeqs({<<t, s>> : t \in g.dependees[s]})}
  <2> DEFINE d == "dependees"
             old == g.dependees[s]
             orders == SetToSeqs(Calls(d, s, old))
             calls == [i \in DOMAIN new |-> <<new[i], s>>]
             Left(gone) == Server!DropDependees(g, s, gone)
  <2>0. d \in Direction /\ old \in SUBSET Node
    BY GraphRecord DEF Direction
  <2>1. Server!SetToSeqs({<<t, s>> : t \in g.dependees[s]}) = orders
    <3>1. Calls(d, s, old) = {<<t, s>> : t \in g.dependees[s]}
      BY DEF Calls, CallOf
    <3> HIDE DEF d, old
    <3> QED
      BY <3>1, SameOrders
  <2>2. orders # {}
    <3> HIDE DEF d, old
    <3> QED
      BY <2>0, CallsFinite, SomeOrder
  <2>3. \A gone : Server!AdditionLoop(Left(gone), calls) = Server!ReplaceDependees(g, s, new, gone)
    <3> SUFFICES ASSUME NEW gone
                 PROVE  Server!AdditionLoop(Left(gone), calls) = Server!ReplaceDependees(g, s, new, gone)
      OBVIOUS
    <3>1. Left(gone) \in Server!Graph
      BY DropDependeesIsGraph
    <3>2. Server!ReplaceDependees(g, s, new, gone) = Server!AddDependees(Left(gone), s, new)
      BY DEF Server!ReplaceDependees
    <3> HIDE DEF Left
    <3> QED
      BY <3>1, <3>2, ServerAddsDependees
  <2>4. \A o \in orders : \E gone \in Server!Erasable(g, s) : Server!RemovalLoop(g, o) = Left(gone)
    <3> SUFFICES ASSUME NEW o \in orders
                 PROVE  \E gone \in Server!Erasable(g, s) : Server!RemovalLoop(g, o) = Left(gone)
      OBVIOUS
    <3>1. CASE s \notin old
      <4>1. Server!RemovalLoop(g, o) = Left({})
        BY <3>1, DropsBackWithout
      <4>2. {} \in Server!Erasable(g, s)
        BY <3>1 DEF Server!Erasable
      <4> QED
        BY <4>1, <4>2
    <3>2. CASE s \in old
      <4>1. PICK k \in 1..Len(o) : o[k] = CallOf(d, s, s) /\ \E before : Ahead(o, k) = Calls(d, s, before)
        <5> HIDE DEF d, old
        <5> QED
          BY <2>0, <3>2, SomePrefix
      <4>2. PICK before : Ahead(o, k) = Calls(d, s, before)
        BY <4>1
      <4>3. before \in SUBSET (old \ {s}) /\ Server!RemovalLoop(g, o) = Left(before \cup {s})
        <5>1. k \in 1..Len(o) /\ o[k] = CallOf(d, s, s) /\ Ahead(o, k) = Calls(d, s, before)
          BY <4>1, <4>2
        <5>2. before \in SUBSET (old \ {s})
          BY <5>1, DropsBackAround
        <5>3. Server!RemovalLoop(g, o) = Server!DropDependees(g, s, before \cup {s})
          <6> HIDE DEF Left, calls
          <6> QED
            BY <5>1, DropsBackAround
        <5> QED
          BY <5>2, <5>3
      <4>4. before \cup {s} \in Server!Erasable(g, s)
        BY <3>2, <4>3 DEF Server!Erasable
      <4> QED
        BY <4>3, <4>4
    <3> QED
      BY <3>1, <3>2
  <2>5. \A gone \in Server!Erasable(g, s) : \E o \in orders : Server!RemovalLoop(g, o) = Left(gone)
    <3> SUFFICES ASSUME NEW gone \in Server!Erasable(g, s)
                 PROVE  \E o \in orders : Server!RemovalLoop(g, o) = Left(gone)
      OBVIOUS
    <3>1. CASE s \notin old
      <4>1. gone = {}
        BY <3>1 DEF Server!Erasable
      <4>2. PICK o \in orders : TRUE
        BY <2>2
      <4>3. Server!RemovalLoop(g, o) = Left({})
        BY <3>1, DropsBackWithout
      <4> QED
        BY <4>1, <4>3
    <3>2. CASE s \in old
      <4> DEFINE before == gone \ {s}
      <4>1. before \in SUBSET (old \ {s}) /\ before \cup {s} = gone
        BY <3>2 DEF Server!Erasable
      <4>2. PICK o \in orders : \E k \in 1..Len(o) : o[k] = CallOf(d, s, s) /\ Ahead(o, k) = Calls(d, s, before)
        <5> HIDE DEF d, old, before
        <5> QED
          BY <2>0, <3>2, <4>1, EveryPrefix
      <4>3. PICK k \in 1..Len(o) : o[k] = CallOf(d, s, s) /\ Ahead(o, k) = Calls(d, s, before)
        BY <4>2
      <4> HIDE DEF before
      <4>4. Server!RemovalLoop(g, o) = Left(before \cup {s})
        BY <4>3, DropsBackAround
      <4> QED
        BY <4>1, <4>4
    <3> QED
      BY <3>1, <3>2
  <2> HIDE DEF orders, calls, Left
  <2>6. {Server!ReplaceDependees(g, s, new, gone) : gone \in Server!Erasable(g, s)}
          = {Server!AdditionLoop(Server!RemovalLoop(g, o), calls) : o \in orders}
    BY <2>3, <2>4, <2>5
  <2> QED
    BY <2>1, <2>6 DEF calls
<1> QED
  BY <1>1, <1>2 DEF Server!LoopAgrees

\* In both classes the replacements are their loops, in every order in which
\* the sets can be enumerated, for any finite set of names
\* (DependencyGraph.cs:312-351, DependencyGraph.cpp:84-124).
THEOREM LoopsOfBothAgree == GraphsSpec => []AllLoopsAgree
<1>1. Sized(graph) => LoopsAgree
  BY ClientLoops, NodeAssumption DEF Sized
<1>2. Bounds => Server!LoopsAgree
  <2>1. Server!Vector \subseteq Seq(Node)
    <3>1. << >> \in Seq(Node)
      OBVIOUS
    <3>2. \A m \in Node : <<m>> \in Seq(Node)
      OBVIOUS
    <3>3. \A m, n \in Node : <<m, n>> \in Seq(Node)
      OBVIOUS
    <3> SUFFICES ASSUME NEW v \in Server!Vector PROVE v \in Seq(Node)
      OBVIOUS
    <3>4. v = << >> \/ (\E m \in Node : v = <<m>>) \/ \E m, n \in Node : v = <<m, n>>
      BY DEF Server!Vector
    <3> QED
      BY <3>1, <3>2, <3>3, <3>4
  <2> QED
    BY <2>1, ServerLoops, NodeAssumption DEF Bounds, Server!LoopsAgree
<1>3. LoopsAgree /\ Server!LoopsAgree => AllLoopsAgree
  BY DEF AllLoopsAgree
<1> QED
  BY <1>1, <1>2, <1>3, EachAlone, AlwaysSized, AlwaysBounds, NodeAssumption, PTL

\* On the server, whatever the length of the vector that is passed.
THEOREM LoopsOfAnyLength ==
  GraphsSpec => [](\A s \in Node, new \in Seq(Node) : Server!LoopAgrees(s, new))
<1>1. Bounds => \A s \in Node, new \in Seq(Node) : Server!LoopAgrees(s, new)
  BY ServerLoops, NodeAssumption DEF Bounds
<1> QED
  BY <1>1, EachAlone, AlwaysBounds, NodeAssumption, PTL

=============================================================================
