---------------------------- MODULE Spreadsheet ----------------------------
(***************************************************************************)
(* One spreadsheet object of the server: its cells, its undo stack, its    *)
(* dependency graph and the file it is saved to, over the deaths and the   *)
(* restarts of the server process.                                         *)
(*                                                                         *)
(* receivePacket handles one request and then saves the sheet, under the   *)
(* server's lock, so a request is one action.  The process may die between *)
(* two requests or while save is writing the file.  What is sent to the    *)
(* clients is the subject of Server.                                       *)
(***************************************************************************)
EXTENDS SheetOps

CONSTANT MaxUndo  \* bound of the model: no request makes the stack longer

ASSUME MaxUndoAssumption == MaxUndo \in Nat

VARIABLES
  up,      \* is the process running?
  book,    \* sheet and undoStack
  dGraph,  \* the dependency graph
  file     \* the content of saves/<name>.coco

vars == <<up, book, dGraph, file>>

DG == INSTANCE ServerGraphOps WITH Node <- Cell

\* Every state of the file: some lines that save wrote.
File == [cells : Sheet, lines : Seq(UndoEntry)]

TypeOK ==
  /\ up \in BOOLEAN
  /\ book \in Book
  /\ dGraph \in DG!Graph
  /\ file \in File

\* No file exists before the first save; load reads no line from it.
Init ==
  /\ up = FALSE
  /\ book = EmptyBook
  /\ dGraph = DG!EmptyGraph
  /\ file = Saved(EmptyBook)

-----------------------------------------------------------------------------
(* The requests.                                                           *)

HasRoom == Len(book.undo) < MaxUndo

\* What dependencyCheck leaves of the graph when it returns true.
Replaced(g, c, text) ==
  IF text \in Formula
  THEN IF Vars[text] = << >>
       THEN {g}
       ELSE {DG!ReplaceDependees(g, c, Vars[text], gone) : gone \in DG!Erasable(g, c)}
  ELSE {DG!ReplaceDependees(g, c, << >>, gone) : gone \in DG!Erasable(g, c)}

EditCell(c, text) ==
  /\ up /\ HasRoom
  /\ EditVerdict(book.sheet, c, text) = "accept"
  /\ book' = SetCellContents(book, c, text)
  /\ dGraph' \in Replaced(dGraph, c, text)
  /\ file' = Saved(book')
  /\ UNCHANGED up

RevertCell(c) ==
  /\ up /\ HasRoom
  /\ CanRevert(book, c)
  /\ book' = ProcessRevert(book, c)
  /\ file' = Saved(book')
  /\ UNCHANGED <<up, dGraph>>

Undo ==
  /\ up
  /\ book.undo # << >>
  /\ book' = UndoChange(book)
  /\ file' = Saved(book')
  /\ UNCHANGED <<up, dGraph>>

\* Requests that change no cell.  The sheet is saved all the same.
Answered ==
  /\ up
  /\ file' = Saved(book)
  /\ UNCHANGED <<up, book, dGraph>>

\* Mutant of RefuseEdit: the graph is changed before the test, and stays so.
RefuseEditLate(c, text) ==
  /\ up
  /\ EditVerdict(book.sheet, c, text) = "refuse"
  /\ dGraph' \in Replaced(dGraph, c, text)
  /\ file' = Saved(book)
  /\ UNCHANGED <<up, book>>

RefuseEdit(c, text) == EditVerdict(book.sheet, c, text) = "refuse" /\ Answered

\* A cell that is not stored, or whose two texts are equal.
RefuseRevert(c) == ~CanRevert(book, c) /\ Answered

RefuseUndo == book.undo = << >> /\ Answered

SelectCell == Answered

\* The exception of the check leaves receivePacket and main: the process
\* ends, and the file is what the previous request left.
EditThrows(c, text) ==
  /\ up
  /\ EditVerdict(book.sheet, c, text) = "throws"
  /\ up' = FALSE
  /\ book' = EmptyBook
  /\ dGraph' = DG!EmptyGraph
  /\ UNCHANGED file

-----------------------------------------------------------------------------
(* The process.                                                            *)

\* The process dies: between two requests, or during a save.
Kill ==
  /\ up
  /\ up' = FALSE
  /\ file' \in {file} \cup UNION {Torn(next) : next \in Outcomes(book, MaxUndo)}
  /\ book' = EmptyBook
  /\ dGraph' = DG!EmptyGraph

\* The next process creates the spreadsheet anew and loads the file.  The
\* graph is not rebuilt.
Load ==
  /\ ~up
  /\ up' = TRUE
  /\ book' = Loaded(file)
  /\ dGraph' = DG!EmptyGraph
  /\ UNCHANGED file

-----------------------------------------------------------------------------

Next ==
  \/ \E c \in Cell, text \in Content : EditCell(c, text)
  \/ \E c \in Cell, text \in Content : EditThrows(c, text)
  \/ \E c \in Cell : RevertCell(c)
  \/ Undo
  \/ \E c \in Cell, text \in Content : RefuseEdit(c, text)
  \/ \E c \in Cell : RefuseRevert(c)
  \/ RefuseUndo
  \/ SelectCell
  \/ Kill
  \/ Load

Spec == Init /\ [][Next]_vars

-----------------------------------------------------------------------------
(* What the file promises.                                                 *)

\* The promise is kept by the file: what the next process would load.
UH == INSTANCE UndoHistory WITH history <- HistoryOf(Loaded(file)), alive <- up

\* The file, read by the load of a next process, is an undo history: each
\* answered edit, revert and undo changes it exactly as the users are
\* promised (undo brings back the whole sheet), and the death of the process
\* costs no more than the oldest undo steps or, in the middle of the cell
\* lines, some cells with all of the undo steps (spreadsheet.cpp: save, load,
\* setCellContents, processRevert, undoChange).
KeepsHistory == UH!Spec

\* No state of a running server is ahead of its file: what clients were shown
\* is what the next process will load (receivePacket ends with save, and load
\* inverts save).
FileIsCurrent == up => Loaded(file) = book

\* The stack is one history of the sheet: the data an undo entry restores and
\* the data the cell had next (in the next entry of the same cell, or in the
\* sheet) are one request apart, however edits, reverts and undos of several
\* cells, saves, deaths and loads were interleaved.
StackIsHistory == OneHistory(book)

\* The names dependencyCheck puts under a cell never include the cell: the
\* one case in which the outcome of removeDependency hangs on the order of an
\* unordered_set does not arise in the server.
GraphHasNoSelfPair == \A c \in Cell : c \notin dGraph.dependees[c]

\* Every pair that is left in dependentGraph is in dependeeGraph too: the
\* list of dependees that dependencyCheck reads misses no recorded pair.
GraphListsEveryDependee ==
  \A c, d \in Cell : d \in dGraph.dependents[c] => c \in dGraph.dependees[d]

\* A cell without text has no previous text either, on the sheet or on the
\* stack.  Cells without text do get stored (setCellContents inserts one, a
\* revert or an undo leaves one), and this is what makes a stored one, an
\* erased one and one never stored the same to every request.
EmptyForgets == Forgetful(book)

=============================================================================
