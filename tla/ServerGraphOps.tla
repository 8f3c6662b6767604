--------------------------- MODULE ServerGraphOps ---------------------------
(***************************************************************************)
(* The operations of the server's class DependencyGraph on its two maps.   *)
(* A name that is not a key of a map and a name whose set is empty answer  *)
(* every query alike, so each map is a total function to sets of names.    *)
(* The class compares an iterator into one set with the end of another:    *)
(* with the null end iterator of libstdc++ this asks whether the name is   *)
(* in the set, and so it is modelled.                                      *)
(*                                                                         *)
(* The pair (s, t) says that t depends on s.                               *)
(***************************************************************************)
EXTENDS Naturals, Sequences

CONSTANT Node  \* the names the graph may hold

Graph == [dependents : [Node -> SUBSET Node], dependees : [Node -> SUBSET Node]]

EmptyGraph == [dependents |-> [n \in Node |-> {}], dependees |-> [n \in Node |-> {}]]

-----------------------------------------------------------------------------

\* addDependentHelper inserts t under s; addDependeeHelper inserts s under t
\* unless t itself is already there (it looks t up in the set of t).
AddDependency(g, s, t) ==
  [dependents |-> [g.dependents EXCEPT ![s] = @ \cup {t}],
   dependees  |-> IF t \in g.dependees[t]
                  THEN g.dependees
                  ELSE [g.dependees EXCEPT ![t] = @ \cup {s}]]

\* helpRemoveDependent erases s from the dependents of t; the dependee side
\* is entered only if t is its own dependee.
RemoveDependency(g, s, t) ==
  [dependents |-> IF t \in g.dependents[s]
                  THEN [g.dependents EXCEPT ![t] = @ \ {s}]
                  ELSE g.dependents,
   dependees  |-> IF t \in g.dependees[t]
                  THEN [g.dependees EXCEPT ![t] = @ \ {s}]
                  ELSE g.dependees]

\* The dependees of s that replaceDependees' first loop may erase.  Nothing is
\* erased unless s is its own dependee, and then nothing after s itself: the
\* order of the loop is that of an unordered_set, so what comes before s is
\* any subset.
Erasable(g, s) ==
  IF s \in g.dependees[s] THEN {gone \in SUBSET g.dependees[s] : s \in gone} ELSE {{}}

\* Mutant of DropDependees: only the lookup of the dependees is repaired.
DropAllDependees(g, s, gone) ==
  [dependents |-> [g.dependents EXCEPT
                     ![s] = @ \ {r \in g.dependees[s] : s \in g.dependents[r]}],
   dependees  |-> [g.dependees EXCEPT ![s] = {}]]

\* The first loop: removeDependency(r, s) for each dependee r of s.
DropDependees(g, s, gone) ==
  [dependents |-> [g.dependents EXCEPT
                     ![s] = @ \ {r \in g.dependees[s] : s \in g.dependents[r]}],
   dependees  |-> [g.dependees EXCEPT ![s] = @ \ gone]]

\* The second loop: addDependency(new[i], s) for each i.
AddDependees(g, s, new) ==
  LET names == {new[i] : i \in DOMAIN new}
      early == {new[i] : i \in {j \in DOMAIN new : \A k \in 1..(j - 1) : new[k] # s}}
  IN [dependents |-> [n \in Node |-> IF n \in names
                                     THEN g.dependents[n] \cup {s}
                                     ELSE g.dependents[n]],
      dependees  |-> IF s \in g.dependees[s]
                     THEN g.dependees
                     ELSE [g.dependees EXCEPT ![s] = @ \cup early]]

ReplaceDependees(g, s, new, gone) == AddDependees(DropDependees(g, s, gone), s, new)

\* The first loop of replaceDependents: removeDependency(s, r) for each
\* dependent r of s erases s from the dependents of r, and from the dependees
\* of r if r is its own dependee.
DropDependents(g, s) ==
  [dependents |-> [n \in Node |-> IF n \in g.dependents[s]
                                  THEN g.dependents[n] \ {s}
                                  ELSE g.dependents[n]],
   dependees  |-> [n \in Node |-> IF n \in g.dependents[s] /\ n \in g.dependees[n]
                                  THEN g.dependees[n] \ {s}
                                  ELSE g.dependees[n]]]

\* Mutant of AddDependents: s is inserted whatever n's dependees are.
AddEachDependent(g, s, new) ==
  LET names == {new[i] : i \in DOMAIN new}
  IN [dependents |-> [g.dependents EXCEPT ![s] = @ \cup names],
      dependees  |-> [n \in Node |-> IF n \in names
                                     THEN g.dependees[n] \cup {s}
                                     ELSE g.dependees[n]]]

\* The second loop: addDependency(s, new[i]) for each i.
AddDependents(g, s, new) ==
  LET names == {new[i] : i \in DOMAIN new}
  IN [dependents |-> [g.dependents EXCEPT ![s] = @ \cup names],
      dependees  |-> [n \in Node |-> IF n \in names /\ n \notin g.dependees[n]
                                     THEN g.dependees[n] \cup {s}
                                     ELSE g.dependees[n]]]

=============================================================================
