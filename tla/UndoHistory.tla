---------------------------- MODULE UndoHistory ----------------------------
(***************************************************************************)
(* What a spreadsheet promises its users: every cell has a text and the    *)
(* text it had before, an edit or a revert can be undone, and undoing      *)
(* brings back the whole sheet as it was, across the deaths and restarts   *)
(* of the server.  A death in the middle of a save may cost the oldest     *)
(* part of the history, or the whole history and some of the cells.        *)
(***************************************************************************)
EXTENDS HistoryViews

VARIABLES
  history,  \* what the sheet shows, and what it showed before each change
  alive     \* is there a server to ask?

-----------------------------------------------------------------------------

Init ==
  /\ history = [current |-> [c \in Cell |-> Blank], past |-> << >>]
  /\ alive = FALSE

Change ==
  /\ alive
  /\ history' \in Changes(history)
  /\ UNCHANGED alive

\* A death, perhaps in the middle of the save of a request.
Die ==
  /\ alive
  /\ history' \in UNION {Remains(h) : h \in {history} \cup Changes(history)}
  /\ alive' = FALSE

Restart ==
  /\ ~alive
  /\ alive' = TRUE
  /\ UNCHANGED history

Next == Change \/ Die \/ Restart

Spec == Init /\ [][Next]_<<history, alive>>

=============================================================================
