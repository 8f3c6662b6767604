-------------------------- MODULE ServerGraphLoops --------------------------
(***************************************************************************)
(* ServerDependencyGraph with the loops of replaceDependents and           *)
(* replaceDependees call by call, in every order an unordered_set can      *)
(* have: the reference for the closed forms of ServerGraphOps.             *)
(***************************************************************************)
EXTENDS ServerDependencyGraph, SequencesExt

RemovalLoop(g, calls) ==
  LET run[i \in 0..Len(calls)] ==
        IF i = 0 THEN g ELSE RemoveDependency(run[i - 1], calls[i][1], calls[i][2])
  IN run[Len(calls)]

AdditionLoop(g, calls) ==
  LET run[i \in 0..Len(calls)] ==
        IF i = 0 THEN g ELSE AddDependency(run[i - 1], calls[i][1], calls[i][2])
  IN run[Len(calls)]

\* The outcomes of replaceDependents and of replaceDependees with a vector,
\* self pairs included, are those of their loops in every order of the
\* removals.
LoopAgrees(s, new) ==
  /\ {AddDependents(DropDependents(graph, s), s, new)} =
       {AdditionLoop(RemovalLoop(graph, order), [i \in DOMAIN new |-> <<s, new[i]>>]) :
          order \in SetToSeqs({<<s, t>> : t \in graph.dependents[s]})}
  /\ {ReplaceDependees(graph, s, new, gone) : gone \in Erasable(graph, s)} =
       {AdditionLoop(RemovalLoop(graph, order), [i \in DOMAIN new |-> <<new[i], s>>]) :
          order \in SetToSeqs({<<t, s>> : t \in graph.dependees[s]})}

\* So it is for every cell and vector (DependencyGraph.cpp:84-124).
LoopsAgree == \A s \in Node, new \in Vector : LoopAgrees(s, new)

=============================================================================
