-------------------------- MODULE DependencyGraphs --------------------------
(***************************************************************************)
(* An object of the client's class DependencyGraph or one of the server's. *)
(* They share nothing, so no behaviour needs both to change.               *)
(***************************************************************************)
EXTENDS ClientGraphLoops

CONSTANT MaxSize  \* bound: what the server's object counts to

ASSUME NodeAssumption == IsFiniteSet(Node) /\ MaxSize \in Nat

VARIABLES serverGraph, serverSize

Server == INSTANCE ServerGraphLoops WITH graph <- serverGraph, size <- serverSize

GraphsInit == Init /\ Server!Init

GraphsNext ==
  \/ Next /\ Server!Init /\ UNCHANGED <<serverGraph, serverSize>>
  \/ Server!Next /\ Init /\ UNCHANGED vars

GraphsSpec == GraphsInit /\ [][GraphsNext]_<<vars, serverGraph, serverSize>>

\* Both keep the types of their maps and counters.
TypesOK == TypeOK /\ Server!TypeOK

\* The server's counter never falls behind the pairs that are left, though
\* only insertions are counted, one by one (DependencyGraph.cpp:126-151).
SizeBounds == Server!SizeBounds

\* In both classes the replacements are their loops, in every order of a
\* HashSet or an unordered_set (DependencyGraph.cs:312-351,
\* DependencyGraph.cpp:84-124).
AllLoopsAgree == LoopsAgree /\ Server!LoopsAgree

=============================================================================
