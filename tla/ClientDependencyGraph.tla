----------------------- MODULE ClientDependencyGraph -----------------------
(***************************************************************************)
(* An object of the client's class DependencyGraph: two dictionaries and a *)
(* counter that are to be one set of pairs.                                *)
(***************************************************************************)
EXTENDS ClientGraphOps

VARIABLES
  graph,
  call,   \* the last call
  thrown  \* has a call ended in an exception?

vars == <<graph, call, thrown>>

TypeOK == graph \in Graph /\ thrown \in BOOLEAN

-----------------------------------------------------------------------------

Init == graph = EmptyGraph /\ call = <<"new">> /\ thrown = FALSE

AddPair(s, t) ==
  /\ graph' = AddDependency(graph, s, t)
  /\ call' = <<"AddDependency", s, {t}>>
  /\ UNCHANGED thrown

RemovePair(s, t) ==
  /\ graph' = RemoveDependency(graph, s, t)
  /\ call' = <<"RemoveDependency", s, {t}>>
  /\ thrown' = (thrown \/ RemoveThrows(graph, s, t))

SetDependents(s, new) ==
  /\ graph' \in ReplaceDependents(graph, s, new)
  /\ call' = <<"ReplaceDependents", s, new>>
  /\ UNCHANGED thrown

SetDependees(s, new) ==
  /\ graph' \in ReplaceDependees(graph, s, new)
  /\ call' = <<"ReplaceDependees", s, new>>
  /\ UNCHANGED thrown

\* A replacement that its first loop ends, before any name is added.
Abort(s) ==
  /\ thrown' = TRUE
  /\ \/ /\ graph' \in AbortReplaceDependents(graph, s)
        /\ call' = <<"ReplaceDependents", s, {}>>
     \/ /\ graph' \in AbortReplaceDependees(graph, s)
        /\ call' = <<"ReplaceDependees", s, {}>>

Next ==
  \/ \E s, t \in Node : AddPair(s, t) \/ RemovePair(s, t)
  \/ \E s \in Node, new \in SUBSET Node : SetDependents(s, new) \/ SetDependees(s, new)
  \/ \E s \in Node : Abort(s)

Spec == Init /\ [][Next]_vars

-----------------------------------------------------------------------------

Pairs == {p \in Node \X Node : p[2] \in graph.dependents[p[1]]}

\* Until a call has thrown, the two dictionaries hold the same pairs:
\* "dependents(s)" and "dependees(s)" are two readings of one set
\* (DependencyGraph.cs:26-32).
TwoReadings ==
  ~thrown => \A s, t \in Node : t \in graph.dependents[s] <=> s \in graph.dependees[t]

\* Whatever exceptions have cut operations short, no pair is in dependentGraph
\* alone: to read dependees(t) is to see every pair that counts in Size.
DependeesKnowAll == \A s, t \in Node : t \in graph.dependents[s] => s \in graph.dependees[t]

\* Size is "the number of ordered pairs" (DependencyGraph.cs:66), though it is
\* counted by increments and decrements in the helpers of the dependents side.
SizeCounts == graph.size = Cardinality(Pairs)

\* The class is the set of pairs its summary says it can be modeled as
\* (DependencyGraph.cs:14-32): until a call has thrown, every call does to the
\* pairs what the call of that name with these arguments is to do.
DR == INSTANCE DependencyRelation WITH pairs <- Pairs

IsRelation == DR!Init /\ [][~thrown' => DR!Next]_<<Pairs, call>>

=============================================================================
