-------------------------- MODULE ServerHistories --------------------------
(***************************************************************************)
(* Server, and what one of its files promises.                             *)
(***************************************************************************)
EXTENDS Server

CONSTANT Watched  \* the name of the sheet whose file is followed

\* createSpreadsheet strips a name; the file of a sheet with a space in its
\* name is another sheet's after a restart (see EveryFileIsServed).
ASSUME WatchedAssumption == Watched \in SheetName /\ Strip[Watched] = Watched

UH == INSTANCE UndoHistory WITH history <- HistoryOf(FromFile(Watched)), alive <- up

\* A file whose name has no space keeps the undo history of one sheet, while
\* clients open, share and leave several, and open sheets whose names strip to
\* its name (see UndoHistory, and Spreadsheet for one object alone).
KeepsHistories == UH!Spec

=============================================================================
