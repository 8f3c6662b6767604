------------------------- MODULE SpreadsheetCycles -------------------------
(***************************************************************************)
(* The requests of Spreadsheet against the graph of the formulas: what the *)
(* documentation says of circular dependencies, over whole histories.      *)
(***************************************************************************)
EXTENDS Spreadsheet, SheetGraph

\* dependencyCheck is "true of there are no circular dependency errors" and
\* false "if there are circular dependencies" (spreadsheet.h:28-31): an edit
\* that goes through leaves its cell on no cycle.
EditsStayOpen ==
  [][\A c \in Cell, text \in Content : EditCell(c, text) => ~OnCycle(book'.sheet, c)]_vars

\* dependencyCheck answers true or false (spreadsheet.h:28-31), and
\* evaluateFormula true, or false and an error to the client
\* (spreadsheet.h:78-79): no text of an edit ends the process.
EditsAreAnswered ==
  up => \A c \in Cell, text \in Content : EditVerdict(book.sheet, c, text) # "throws"

=============================================================================
