------------------------- MODULE DependencyRelation -------------------------
(***************************************************************************)
(* What both classes named DependencyGraph promise: a set of ordered pairs *)
(* of names, (s, t) for "t depends on s", that can be added to, removed    *)
(* from, and have all the pairs of a name replaced.                        *)
(***************************************************************************)
CONSTANT Node  \* the names

VARIABLES
  pairs,  \* the relation
  call    \* the last operation, the name it was called for and the other names

From(s) == {p \in pairs : p[1] = s}

Onto(t) == {p \in pairs : p[2] = t}

Init == pairs = {} /\ call = <<"new">>

Add(s, t) == pairs' = pairs \cup {<<s, t>>} /\ call' = <<"AddDependency", s, {t}>>

Remove(s, t) == pairs' = pairs \ {<<s, t>>} /\ call' = <<"RemoveDependency", s, {t}>>

ReplaceFrom(s, new) ==
  /\ pairs' = (pairs \ From(s)) \cup {<<s, t>> : t \in new}
  /\ call' = <<"ReplaceDependents", s, new>>

ReplaceOnto(t, new) ==
  /\ pairs' = (pairs \ Onto(t)) \cup {<<s, t>> : s \in new}
  /\ call' = <<"ReplaceDependees", t, new>>

Next ==
  \/ \E s, t \in Node : Add(s, t) \/ Remove(s, t)
  \/ \E n \in Node, new \in SUBSET Node : ReplaceFrom(n, new) \/ ReplaceOnto(n, new)

Spec == Init /\ [][Next]_<<pairs, call>>

=============================================================================
