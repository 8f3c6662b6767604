----------------------- MODULE ServerDependencyGraph -----------------------
(***************************************************************************)
(* An object of the server's class DependencyGraph with its counter.       *)
(***************************************************************************)
EXTENDS ServerGraphOps, FiniteSets

CONSTANT MaxSize  \* bound of the model: no operation counts further

VARIABLES
  graph,  \* dependentGraph and dependeeGraph
  size    \* the number of pairs, as counted

vars == <<graph, size>>

TypeOK == graph \in Graph /\ size \in 0..MaxSize

\* The vectors the operations are called with; the server's formulas name a
\* cell once or more often, in any order.
Vector == {<< >>} \cup {<<m>> : m \in Node} \cup {<<m, n>> : m, n \in Node}

PairsOf(g) == {p \in Node \X Node : p[2] \in g.dependents[p[1]]}

\* Mutant of Counted: one operation counts one.
CountedOnce(before, after) ==
  /\ size' = IF after = before THEN size ELSE size + 1
  /\ size' <= MaxSize

\* addDependentHelper counts each pair it inserts; helpRemoveDependent does
\* not count.
Counted(before, after) ==
  /\ size' = size + Cardinality(PairsOf(after) \ PairsOf(before))
  /\ size' <= MaxSize

-----------------------------------------------------------------------------

Init == graph = EmptyGraph /\ size = 0

AddPair(s, t) ==
  /\ graph' = AddDependency(graph, s, t)
  /\ Counted(graph, graph')

RemovePair(s, t) ==
  /\ graph' = RemoveDependency(graph, s, t)
  /\ UNCHANGED size

SetDependents(s, new) ==
  /\ graph' = AddDependents(DropDependents(graph, s), s, new)
  /\ Counted(DropDependents(graph, s), graph')

SetDependees(s, new) ==
  \E gone \in Erasable(graph, s) :
    /\ graph' = ReplaceDependees(graph, s, new, gone)
    /\ Counted(DropDependees(graph, s, gone), graph')

Next ==
  \/ \E s, t \in Node : AddPair(s, t) \/ RemovePair(s, t)
  \/ \E s \in Node, new \in Vector : SetDependents(s, new) \/ SetDependees(s, new)

Spec == Init /\ [][Next]_vars

-----------------------------------------------------------------------------

\* The count never falls behind the pairs that are left, however additions
\* and removals alternate (addDependentHelper counts each insertion).
SizeBounds == Cardinality(PairsOf(graph)) <= size

=============================================================================
