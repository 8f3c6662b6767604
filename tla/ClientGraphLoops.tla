-------------------------- MODULE ClientGraphLoops --------------------------
(***************************************************************************)
(* ClientDependencyGraph with the loops of ReplaceDependents and           *)
(* ReplaceDependees call by call, in every order a HashSet can have: the   *)
(* reference for the closed forms of ClientGraphOps.                       *)
(***************************************************************************)
EXTENDS ClientDependencyGraph, SequencesExt

\* The calls removeDependency(p[1], p[2]) for the pairs p of a sequence, up to
\* the first that throws.
Removal(run, p) ==
  IF run.thrown THEN run
  ELSE [graph  |-> RemoveDependency(run.graph, p[1], p[2]),
        thrown |-> RemoveThrows(run.graph, p[1], p[2])]

RemovalLoop(g, calls) ==
  LET run[i \in 0..Len(calls)] ==
        IF i = 0 THEN [graph |-> g, thrown |-> FALSE] ELSE Removal(run[i - 1], calls[i])
  IN run[Len(calls)]

AdditionLoop(g, calls) ==
  LET run[i \in 0..Len(calls)] ==
        IF i = 0 THEN g ELSE AddDependency(run[i - 1], calls[i][1], calls[i][2])
  IN run[Len(calls)]

\* A run of ReplaceDependents, or of ReplaceDependees, from the pairs it is to
\* remove and to add.
ReplaceLoop(g, old, new) ==
  LET run == RemovalLoop(g, old)
  IN IF run.thrown THEN run ELSE [graph |-> AdditionLoop(run.graph, new), thrown |-> FALSE]

ReplaceLoops(g, old, new) ==
  {ReplaceLoop(g, o, n) : o \in SetToSeqs(old), n \in SetToSeqs(new)}

Returned(runs) == {run.graph : run \in {r \in runs : ~r.thrown}}

Thrown(runs) == {run.graph : run \in {r \in runs : r.thrown}}

\* The outcomes of ReplaceDependents and ReplaceDependees, of those that end
\* in KeyNotFoundException too, are those of their loops in every order in
\* which a HashSet can be enumerated (DependencyGraph.cs:312-351).
LoopsAgree ==
  \A s \in Node, new \in SUBSET Node :
    LET forward  == ReplaceLoops(graph, {<<s, t>> : t \in graph.dependents[s]},
                                 {<<s, t>> : t \in new})
        backward == ReplaceLoops(graph, {<<t, s>> : t \in graph.dependees[s]},
                                 {<<t, s>> : t \in new})
    IN /\ ReplaceDependents(graph, s, new) = Returned(forward)
       /\ AbortReplaceDependents(graph, s) = Thrown(forward)
       /\ ReplaceDependees(graph, s, new) = Returned(backward)
       /\ AbortReplaceDependees(graph, s) = Thrown(backward)

=============================================================================
