----------------------------- MODULE ClientSheet -----------------------------
(***************************************************************************)
(* The client's Spreadsheet and the grid of its window, under the cell     *)
(* updates a server sends in any order: the texts a server has accepted    *)
(* may be refused here.  When the user opens a file, the window goes on    *)
(* with a Spreadsheet of its own, and the connection with the old one.     *)
(***************************************************************************)
EXTENDS ClientSheetOps

CONSTANTS
  File,        \* the texts of the cells of a file that may be opened
  MaxCells,    \* bound: the cells that exist when a file is opened
  MaxUpdates   \* bound: the updates after that, or after an evaluation threw

ASSUME SheetAssumption ==
  /\ IsFiniteSet(Cell) /\ MaxUpdates \in Nat
  /\ \A texts \in File : DOMAIN texts \subseteq Cell /\ \A c \in DOMAIN texts : texts[c] \in Text

VARIABLES
  sheet,   \* the dictionary of cells of the connection's Spreadsheet
  dGraph,  \* its dependency graph
  opened,  \* the book of the window's own Spreadsheet, once there is one
  panel,   \* the value the grid shows for each cell
  updates, \* how many updates have come since either
  failed   \* (history) has an evaluation thrown, or the window alone refused?

vars == <<sheet, dGraph, opened, panel, updates, failed>>

book == [sheet |-> sheet, graph |-> dGraph]

\* Form1.sheet.
window == IF opened = <<>> THEN book ELSE opened[1]

TypeOK ==
  /\ \A b \in {book, window} :
       /\ DOMAIN b.sheet \subseteq Cell
       /\ \A c \in DOMAIN b.sheet : b.sheet[c].content \in Text /\ b.sheet[c].value \in Value
       /\ b.graph \in DG!Graph
  /\ Len(opened) \in {0, 1} /\ updates \in 0..MaxUpdates /\ failed \in BOOLEAN
  /\ \A c \in Cell : panel[c] \in Value \ {Null}

-----------------------------------------------------------------------------

Init ==
  /\ sheet = EmptyBook.sheet
  /\ dGraph = EmptyBook.graph
  /\ opened = <<>> /\ updates = 0
  /\ panel = [c \in Cell |-> Empty]
  /\ failed = FALSE

\* Mutant of SetPanelValues: only the cell of the update is drawn.
SetPanelValue(new, cells, c) == [panel EXCEPT ![c] = GetCellValue(new, c)]

\* A value that was never calculated throws in the middle of the list.
SetPanelValues(new, cells, c) ==
  LET Drawable(i) == \A j \in 1..i : GetCellValue(new, cells[j]) # Null
  IN [n \in Cell |-> IF \E i \in DOMAIN cells : cells[i] = n /\ Drawable(i)
                     THEN GetCellValue(new, n)
                     ELSE panel[n]]

\* ServerChangeTextBoxes: the window sets the text in its Spreadsheet and
\* draws the cells it is given back, or, after an exception, sets the text
\* that the cell had, a formula without its '=', and draws nothing.
ServerChangeTextBoxes(b, c, text) ==
  LET content == GetCellContents(b.sheet, c)
      old == IF content \in Formula THEN Unsigned[content] ELSE content
  IN UNION {IF ~o.refused THEN {o}
            ELSE {[r EXCEPT !.refused = TRUE, !.cells = <<>>] : r \in SetContentsOfCell(o.book, c, old)} :
              o \in SetContentsOfCell(b, c, text)}

Bounded == opened # <<>> \/ failed => updates < MaxUpdates

Counted == updates' = IF opened # <<>> \/ failed THEN updates + 1 ELSE 0

\* The connection's Spreadsheet takes the text, and then the window sets it in
\* its own, which mostly is the same one (UpdatesAreAtomic).
CellUpdated(c, text) ==
  /\ Bounded /\ Counted
  /\ \E first \in SetContentsOfCell(book, c, text) :
       /\ ~first.refused
       /\ \E second \in ServerChangeTextBoxes(IF opened = <<>> THEN first.book ELSE window, c, text) :
            LET kept == IF opened = <<>> THEN second.book ELSE first.book
            IN /\ sheet' = kept.sheet /\ dGraph' = kept.graph
               /\ opened' = IF opened = <<>> THEN <<>> ELSE <<second.book>>
               /\ panel' = SetPanelValues(second.book.sheet, second.cells, c)
               /\ failed' = (failed \/ second.refused)

\* The exception ends in ReceiveData, which drops it, and the window is not
\* called.
UpdateDropped(c, text) ==
  /\ Bounded /\ Counted
  /\ \E first \in SetContentsOfCell(book, c, text) :
       /\ first.refused
       /\ sheet' = first.book.sheet
       /\ dGraph' = first.book.graph
       /\ failed' = (failed \/ first.raised)
  /\ UNCHANGED <<opened, panel>>

\* Mutant of OpenFile: only the cells of the file are drawn.
OpenFileOnly(texts) ==
  /\ opened = <<>> /\ Cardinality(DOMAIN sheet) <= MaxCells
  /\ \E order \in SetToSeqs(DOMAIN texts) : \E b \in LoadFile(texts, order) :
       opened' = <<b>> /\ panel' = SetPanelValues(b.sheet, order, order)
  /\ UNCHANGED <<sheet, dGraph, updates, failed>>

\* The cells of the old sheet and those of the file are drawn (bound: once).
OpenFile(texts) ==
  /\ opened = <<>> /\ Cardinality(DOMAIN sheet) <= MaxCells
  /\ \E order \in SetToSeqs(DOMAIN texts) : \E b \in LoadFile(texts, order) :
       /\ opened' = <<b>>
       /\ panel' = SetPanelValues(b.sheet, SetToSeq(DOMAIN sheet) \o order, order)
  /\ UNCHANGED <<sheet, dGraph, updates, failed>>

Next ==
  \/ \E c \in Cell, text \in Text : CellUpdated(c, text) \/ UpdateDropped(c, text)
  \/ \E texts \in File : OpenFile(texts)

Spec == Init /\ [][Next]_vars

-----------------------------------------------------------------------------

\* The cells named by the formula of c.
Names(cells, c) ==
  LET text == GetCellContents(cells, c) IN IF text \in Formula THEN Vars[text] ELSE {}

\* The cell is in every set of cells that holds what it names, and what each
\* cell of the set names.
Closes(cells, c) ==
  \A S \in SUBSET Cell :
    Names(cells, c) \subseteq S /\ (\A n \in S : Names(cells, n) \subseteq S) => c \in S

Emptied(cells, c) == c \in DOMAIN cells /\ cells[c].content = Empty

\* "Spreadsheets are never allowed to contain a combination of Formulas that
\* establish a circular dependency" (AbstractSpreadsheet.cs:110-114), the one
\* of the connection and that of an opened file, whatever exceptions were
\* thrown; and no walk of the graph, with what emptied cells have left in it,
\* comes back.
SheetStaysOpen ==
  \A b \in {book, window}, c \in Cell : ~Closes(b.sheet, c) /\ ~Circular(b.graph, c)

\* The graph is that of the formulas, but for the cells that were emptied,
\* which keep the dependees they had; every cell that can come up for
\* recalculation is a key of the dictionary.  An evaluation that throws, or a
\* text that the window alone refuses, changes none of this.
GraphKnowsSheet ==
  \A b \in {book, window}, c \in Cell :
    /\ ~Emptied(b.sheet, c) => b.graph.dependees[c] = Names(b.sheet, c)
    /\ \A d \in Cell : d \in b.graph.dependents[c] <=> c \in b.graph.dependees[d]
    /\ b.graph.dependees[c] # {} => c \in DOMAIN b.sheet

\* Until an evaluation throws, the value of each cell is that of its content
\* with the values of the cells it names, in whatever order the texts came and
\* the cells were recalculated, unless it names a cell that was emptied
\* (SetCellContents, RecalcHelper).
ValuesAreCurrent ==
  ~failed => \A b \in {book, window} : \A c \in DOMAIN b.sheet :
    (\A v \in Names(b.sheet, c) : ~Emptied(b.sheet, v))
      => b.sheet[c].value = Computed(b.sheet, b.sheet[c].content)

\* "The value of a variable is the value of the spreadsheet cell it names (if
\* that cell's value is a double) or is undefined (otherwise)"
\* (AbstractSpreadsheet.cs:106-108).
ValuesFollow ==
  ~failed => \A c \in DOMAIN sheet : sheet[c].value = Computed(sheet, sheet[c].content)

\* A text that is refused leaves the spreadsheet as it was, though the graph is
\* changed before the check (Spreadsheet.cs:379-396), unless a formula that
\* depends on its cell cannot be evaluated.  A text that is taken may be set
\* again, as the window does, and changes nothing then.
UpdatesAreAtomic ==
  \A c \in Cell, text \in Text : \A o \in SetContentsOfCell(book, c, text) :
    IF o.raised THEN \E n \in ToSet(o.cells) : o.book.sheet[n].content \in Misnamed
    ELSE IF o.refused THEN o.book = book
    ELSE \A again \in SetContentsOfCell(o.book, c, text) : ~again.refused /\ again.book = o.book

\* A formula that parses and can be evaluated is refused only if it would
\* close a cycle, or if some emptied cell still has its old dependees in the
\* graph.
RefusalsAreCircular ==
  (\A c \in Cell : Emptied(sheet, c) => dGraph.dependees[c] = {}) =>
    \A c \in Cell, text \in Formula \ Malformed : \A o \in SetContentsOfCell(book, c, text) :
      o.refused /\ ~o.raised => Closes(SetCellHelper(sheet, c, text), c)

\* The grid shows the value of every cell of the window's Spreadsheet, though
\* that may have changed them before the window asks which, and also after a
\* file was opened, until an evaluation throws or the window alone refuses a
\* text (ServerChangeTextBoxes, OpenFile).
PanelIsCurrent == ~failed => \A c \in Cell : panel[c] = GetCellValue(window.sheet, c)

\* What Save writes, LoadFile can read, in whatever order the dictionary is
\* enumerated: each text is back in its cell, no other cell has more than white
\* space, and in the end all the values are current; unless there is a formula
\* that cannot be evaluated.  White space comes of emptied cells, which are
\* written, though AbstractSpreadsheet.cs:183 wants only the non-empty ones.
FilesReopen ==
  (\A c \in DOMAIN window.sheet : window.sheet[c].content \notin Misnamed) =>
    \A order \in SetToSeqs(DOMAIN window.sheet) :
      LET loaded == LoadFile(SavedTexts(window.sheet), order)
          WithText(c) == GetCellContents(window.sheet, c) # Empty
      IN /\ loaded # {}
         /\ \A b \in loaded, c \in Cell :
              /\ WithText(c) => GetCellContents(b.sheet, c) = GetCellContents(window.sheet, c)
              /\ ~WithText(c) => GetCellContents(b.sheet, c) \in {Empty, Whitespace}
              /\ c \in DOMAIN b.sheet => b.sheet[c].value = Computed(b.sheet, b.sheet[c].content)

=============================================================================
