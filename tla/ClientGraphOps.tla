--------------------------- MODULE ClientGraphOps ---------------------------
(***************************************************************************)
(* The operations of the client's class DependencyGraph on its two         *)
(* dictionaries and its counter.  A name that is not a key of a dictionary *)
(* and a name whose set is empty answer every query alike, so each         *)
(* dictionary is a total function to sets of names.                        *)
(***************************************************************************)
EXTENDS Integers, FiniteSets

CONSTANT Node  \* the names the graph may hold

Graph == [dependents : [Node -> SUBSET Node],
          dependees  : [Node -> SUBSET Node],
          size       : Nat]

EmptyGraph == [dependents |-> [n \in Node |-> {}],
               dependees  |-> [n \in Node |-> {}],
               size       |-> 0]

-----------------------------------------------------------------------------

\* Mutant of AddDependency: a pair that is there already counts again.
AddCountsAgain(g, s, t) ==
  [dependents |-> [g.dependents EXCEPT ![s] = @ \cup {t}],
   dependees  |-> [g.dependees EXCEPT ![t] = @ \cup {s}],
   size       |-> g.size + 1]

AddDependency(g, s, t) ==
  [dependents |-> [g.dependents EXCEPT ![s] = @ \cup {t}],
   dependees  |-> [g.dependees EXCEPT ![t] = @ \cup {s}],
   size       |-> IF t \in g.dependents[s] THEN g.size ELSE g.size + 1]

\* helpRemoveDependent drops the key t when its set is empty, and then looks
\* s up: if they are one name that was its own only dependent, the lookup
\* throws KeyNotFoundException.  helpRemoveDependee is alike.
LosesKey(f, s, t) == s = t /\ f[s] = {s}

\* Mutants of RemoveDependency: every call counts down; the dependees come
\* first.
RemoveCountsDown(g, s, t) ==
  [dependents |-> [g.dependents EXCEPT ![s] = @ \ {t}],
   dependees  |-> [g.dependees EXCEPT ![t] = @ \ {s}],
   size       |-> g.size - 1]

RemoveDependeesFirst(g, s, t) ==
  [dependents |-> IF LosesKey(g.dependees, s, t)
                  THEN g.dependents
                  ELSE [g.dependents EXCEPT ![s] = @ \ {t}],
   dependees  |-> [g.dependees EXCEPT ![t] = @ \ {s}],
   size       |-> IF t \in g.dependents[s] THEN g.size - 1 ELSE g.size]

\* The pair is out of both dictionaries, unless the first lookup threw.
RemoveDependency(g, s, t) ==
  [dependents |-> [g.dependents EXCEPT ![s] = @ \ {t}],
   dependees  |-> IF LosesKey(g.dependents, s, t)
                  THEN g.dependees
                  ELSE [g.dependees EXCEPT ![t] = @ \ {s}],
   size       |-> IF t \in g.dependents[s] THEN g.size - 1 ELSE g.size]

RemoveThrows(g, s, t) == LosesKey(g.dependents, s, t) \/ LosesKey(g.dependees, s, t)

-----------------------------------------------------------------------------
(* The first loops of ReplaceDependents and ReplaceDependees, as far as    *)
(* they have removed the names `gone`, none of them s itself.              *)

\* Mutant of WithoutDependents: the dependees keep s.
WithoutForward(g, s, gone) ==
  [dependents |-> [g.dependents EXCEPT ![s] = @ \ gone],
   dependees  |-> g.dependees,
   size       |-> g.size - Cardinality(g.dependents[s] \cap gone)]

WithoutDependents(g, s, gone) ==
  [dependents |-> [g.dependents EXCEPT ![s] = @ \ gone],
   dependees  |-> [n \in Node |-> IF n \in gone THEN g.dependees[n] \ {s} ELSE g.dependees[n]],
   size       |-> g.size - Cardinality(g.dependents[s] \cap gone)]

WithoutDependees(g, s, gone) ==
  [dependents |-> [n \in Node |-> IF n \in gone THEN g.dependents[n] \ {s} ELSE g.dependents[n]],
   dependees  |-> [g.dependees EXCEPT ![s] = @ \ gone],
   size       |-> g.size - Cardinality({n \in gone : s \in g.dependents[n]})]

(* The second loops: AddDependency for each new name.                      *)

WithDependents(g, s, new) ==
  [dependents |-> [g.dependents EXCEPT ![s] = @ \cup new],
   dependees  |-> [n \in Node |-> IF n \in new THEN g.dependees[n] \cup {s} ELSE g.dependees[n]],
   size       |-> g.size + Cardinality(new \ g.dependents[s])]

WithDependees(g, s, new) ==
  [dependents |-> [n \in Node |-> IF n \in new THEN g.dependents[n] \cup {s} ELSE g.dependents[n]],
   dependees  |-> [g.dependees EXCEPT ![s] = @ \cup new],
   size       |-> g.size + Cardinality({n \in new : s \notin g.dependents[n]})]

-----------------------------------------------------------------------------
(* The outcomes of the two operations: the graphs they return with, and    *)
(* those an exception leaves behind.  The loop takes the names in the      *)
(* order of a HashSet: `before` is what it removed ahead of s itself.      *)

ReplaceDependents(g, s, new) ==
  LET old == g.dependents[s]
  IN IF s \notin old
     THEN {WithDependents(WithoutDependents(g, s, old), s, new)}
     ELSE {WithDependents(WithoutDependents(
                            RemoveDependency(WithoutDependents(g, s, before), s, s),
                            s, old \ (before \cup {s})), s, new) :
             before \in {b \in SUBSET (old \ {s}) :
                           ~RemoveThrows(WithoutDependents(g, s, b), s, s)}}

AbortReplaceDependents(g, s) ==
  IF s \notin g.dependents[s] THEN {}
  ELSE {RemoveDependency(WithoutDependents(g, s, before), s, s) :
          before \in {b \in SUBSET (g.dependents[s] \ {s}) :
                        RemoveThrows(WithoutDependents(g, s, b), s, s)}}

\* Mutant of ReplaceDependees: the old pairs are left.
AddAllDependees(g, s, new) == {WithDependees(g, s, new)}

ReplaceDependees(g, s, new) ==
  LET old == g.dependees[s]
  IN IF s \notin old
     THEN {WithDependees(WithoutDependees(g, s, old), s, new)}
     ELSE {WithDependees(WithoutDependees(
                           RemoveDependency(WithoutDependees(g, s, before), s, s),
                           s, old \ (before \cup {s})), s, new) :
             before \in {b \in SUBSET (old \ {s}) :
                           ~RemoveThrows(WithoutDependees(g, s, b), s, s)}}

AbortReplaceDependees(g, s) ==
  IF s \notin g.dependees[s] THEN {}
  ELSE {RemoveDependency(WithoutDependees(g, s, before), s, s) :
          before \in {b \in SUBSET (g.dependees[s] \ {s}) :
                        RemoveThrows(WithoutDependees(g, s, b), s, s)}}

=============================================================================
