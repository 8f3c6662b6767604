------------------------------ MODULE SheetOps ------------------------------
(***************************************************************************)
(* What the server's class `spreadsheet` computes on its data: the map of  *)
(* stored cells, the undo stack, the circular-dependency check and the     *)
(* lines of the save file.  The operators have no state of their own; they *)
(* are used by Spreadsheet (one object and its file) and by Server (the    *)
(* map of all the objects).                                                *)
(*                                                                         *)
(* A cell's text is abstracted to what the code distinguishes in it: the   *)
(* empty string, a text that starts with '=' (a formula), whether          *)
(* evaluateFormula accepts it, refuses it or throws (it takes the last     *)
(* character of the rest of the formula without testing that there is      *)
(* one), and the sequence of names getVariables finds in it.               *)
(***************************************************************************)
EXTENDS Naturals, Sequences, SequencesExt

CONSTANTS
  Cell,       \* the names a request may use for a cell
  Content,    \* the texts a request may put into a cell
  Empty,      \* the empty string
  Formula,    \* the texts whose first character is '='
  Malformed,  \* the formulas evaluateFormula refuses
  Bare,       \* the formulas with nothing but spaces after the '='
  Vars        \* the names getVariables finds in a formula, in order; the raw
              \* text of a formula is searched, and a blank in it is a name too

ASSUME ContentAssumption ==
  /\ Empty \in Content \ Formula
  /\ Formula \subseteq Content
  /\ Malformed \subseteq Formula
  /\ Bare \subseteq Formula \ Malformed
  /\ Vars \in [Formula -> Seq(Cell)]

-----------------------------------------------------------------------------
(* The stored cells and the undo stack.                                    *)

CellData == [content : Content, prev : Content]

Blank == [content |-> Empty, prev |-> Empty]

\* A sheet maps the names of the stored cells, and no others, to their data.
Sheet == UNION {[names -> CellData] : names \in SUBSET Cell}

\* A cell object on the undo stack carries its own name.
UndoEntry == [name : Cell, content : Content, prev : Content]

\* Mutant of Entry: the name and the content are swapped.
SwappedEntry(c, data) == [name |-> data.content, content |-> c, prev |-> data.prev]

Entry(c, data) == [name |-> c, content |-> data.content, prev |-> data.prev]

DataOf(entry) == [content |-> entry.content, prev |-> entry.prev]

\* getCellContents and getCellPrevContents of a name: a name that is not
\* stored reads as two empty strings.
View(sheet, c) == IF c \in DOMAIN sheet THEN sheet[c] ELSE Blank

\* sheet.insert, or assignment through the iterator find returned.
Put(sheet, c, data) ==
  [x \in DOMAIN sheet \cup {c} |-> IF x = c THEN data ELSE sheet[x]]

Erase(sheet, c) == [x \in DOMAIN sheet \ {c} |-> sheet[x]]

-----------------------------------------------------------------------------
(* The circular-dependency check.                                          *)

\* Mutant of DirectDependents: the edited cell is read with its stored text.
StoredDependents(sheet, start, text, c) ==
  IF c \in DOMAIN sheet /\ sheet[c].content \in Formula
  THEN Vars[sheet[c].content]
  ELSE << >>

\* getDirectDependents: the names in the formula of cell c, where the cell
\* being edited has the new text (startContents) and not the stored one.
DirectDependents(sheet, start, text, c) ==
  CASE c = start -> Vars[text]
    [] c # start /\ c \in DOMAIN sheet /\ sheet[c].content \in Formula
         -> Vars[sheet[c].content]
    [] OTHER -> << >>

\* Mutant of ReadThrows: a cell that is not stored is read too.
ReadAlwaysThrows(sheet, start, c) == c # start /\ View(sheet, c).content = Empty

\* getContent().at(0) throws std::out_of_range on a stored cell whose
\* content is the empty string.
ReadThrows(sheet, start, c) ==
  c # start /\ c \in DOMAIN sheet /\ sheet[c].content = Empty

\* Mutant of VisitFrom: a cell that is met again counts as a cycle.
VisitAgain(sheet, start, text) ==
  LET visit[visited \in SUBSET Cell, c \in Cell] ==
        LET deps == DirectDependents(sheet, start, text, c)
        IN CASE ReadThrows(sheet, start, c) -> "throws"
             [] c \in visited -> "circular"
             [] OTHER -> IF \E i \in DOMAIN deps :
                              visit[visited \cup {c}, deps[i]] = "circular"
                         THEN "circular"
                         ELSE "acyclic"
  IN visit[{}, start]

\* One call of visit, from the results of the calls it makes; `visited` is
\* passed by value.  The loop over the dependents ends at the first one equal
\* to start; the result of each recursive call replaces that of the previous
\* ones, so only the last call decides.
Visit(sheet, start, text, result, visited, c) ==
  LET seen  == visited \cup {c}
      deps  == DirectDependents(sheet, start, text, c)
      hits  == {i \in DOMAIN deps : deps[i] = start}
      stop  == IF hits = {} THEN Len(deps) + 1 ELSE Min(hits)
      calls == {i \in 1..(stop - 1) : deps[i] \notin seen}
  IN CASE ReadThrows(sheet, start, c) -> "throws"
       [] ~ReadThrows(sheet, start, c)
          /\ \E i \in calls : result[<<seen, deps[i]>>] = "throws" -> "throws"
       [] OTHER ->
            IF hits # {} THEN "circular"
            ELSE IF calls = {} THEN "acyclic"
            ELSE result[<<seen, deps[Max(calls)]>>]

\* visit, called on the edited cell: the function from its arguments to its
\* result.
VisitFrom(sheet, start, text) ==
  LET result[call \in (SUBSET Cell) \X Cell] ==
        Visit(sheet, start, text, result, call[1], call[2])
  IN result[<<{}, start>>]

\* evaluateFormula, on the texts it tells apart: "throws" when the character
\* it takes is not there.
EvaluateFormula(text) ==
  CASE text \in Malformed -> "refuse"
    [] text \in Bare -> "throws"
    [] OTHER -> "accept"

\* dependencyCheck.  Its changes of the graph are Replaced, in Spreadsheet.
DependencyCheck(sheet, c, text) ==
  CASE text \notin Formula -> "accept"
    [] text \in Formula /\ Vars[text] = << >> -> "accept"
    [] text \in Formula /\ Contains(Vars[text], c) -> "refuse"
    [] OTHER -> LET result == VisitFrom(sheet, c, text)
                IN CASE result = "throws" -> "throws"
                     [] result = "circular" -> "refuse"
                     [] result = "acyclic" -> "accept"

\* setCellContents' test, evaluateFormula(text) && dependencyCheck(c, text):
\* "accept", "refuse", or "throws" when it ends in an exception.
EditVerdict(sheet, c, text) ==
  IF EvaluateFormula(text) = "accept"
  THEN DependencyCheck(sheet, c, text)
  ELSE EvaluateFormula(text)

-----------------------------------------------------------------------------
(* The three operations that change cells.  A book is the pair of a sheet  *)
(* and its undo stack, whose top is the last element of the sequence.      *)

Book == [sheet : Sheet, undo : Seq(UndoEntry)]

EmptyBook == [sheet |-> [c \in {} |-> Blank], undo |-> << >>]

\* Mutant of SetCellContents: the undo entry forgets the previous text.
SetWithoutPrev(book, c, text) ==
  [sheet |-> IF c \in DOMAIN book.sheet /\ text = Empty
             THEN Erase(book.sheet, c)
             ELSE Put(book.sheet, c,
                      [content |-> text, prev |-> View(book.sheet, c).content]),
   undo  |-> Append(book.undo,
                    Entry(c, [content |-> View(book.sheet, c).content, prev |-> Empty]))]

\* The accepted branch of setCellContents.  A stored cell whose new text is
\* empty is erased; a cell that was not stored is inserted whatever the text.
SetCellContents(book, c, text) ==
  LET old == View(book.sheet, c)
  IN [sheet |-> IF c \in DOMAIN book.sheet
                THEN IF text = Empty
                     THEN Erase(book.sheet, c)
                     ELSE Put(book.sheet, c,
                              [content |-> text, prev |-> old.content])
                ELSE Put(book.sheet, c, [content |-> text, prev |-> Empty]),
      undo  |-> Append(book.undo, Entry(c, old))]

\* Mutant of UndoChange: the undone text becomes the previous one.
UndoKeepsPrev(book) ==
  LET change == Last(book.undo)
  IN [sheet |-> Put(book.sheet, change.name,
                    [content |-> change.content,
                     prev |-> View(book.sheet, change.name).content]),
      undo  |-> Front(book.undo)]

\* undoChange pops the top entry and stores it as the cell's data, except
\* that a stored cell whose restored text is empty is erased.
UndoChange(book) ==
  LET change == Last(book.undo)
  IN [sheet |-> IF change.name \in DOMAIN book.sheet /\ change.content = Empty
                THEN Erase(book.sheet, change.name)
                ELSE Put(book.sheet, change.name, DataOf(change)),
      undo  |-> Front(book.undo)]

CanRevert(book, c) ==
  c \in DOMAIN book.sheet /\ book.sheet[c].content # book.sheet[c].prev

\* processRevert puts the previous text back and keeps it as the previous
\* text; no dependencyCheck is made on it.
ProcessRevert(book, c) ==
  LET old == book.sheet[c]
  IN [sheet |-> Put(book.sheet, c, [content |-> old.prev, prev |-> old.prev]),
      undo  |-> Append(book.undo, Entry(c, old))]

\* The books receivePacket can be about to save after a request on this one,
\* if no request makes the stack longer than max.
Outcomes(book, max) ==
  LET room == Len(book.undo) < max
  IN {book}
     \cup {SetCellContents(book, e[1], e[2]) :
             e \in {f \in Cell \X Content :
                     room /\ EditVerdict(book.sheet, f[1], f[2]) = "accept"}}
     \cup {ProcessRevert(book, c) : c \in {r \in Cell : room /\ CanRevert(book, r)}}
     \cup (IF book.undo = << >> THEN {} ELSE {UndoChange(book)})

-----------------------------------------------------------------------------
(* The save file.                                                          *)

\* Mutant of Saved: the undo stack is written from its bottom to its top.
SavedBottomUp(book) == [cells |-> book.sheet, lines |-> book.undo]

\* save writes one line per stored cell, then the undo stack from its top to
\* its bottom.  The order of the cell lines is that of an unordered_map and
\* is of no consequence to load.
Saved(book) == [cells |-> book.sheet, lines |-> Reverse(book.undo)]

\* load reads the lines from the last to the first and pushes each undo line.
Loaded(file) == [sheet |-> file.cells, undo |-> Reverse(file.lines)]

\* What the file may hold when the process dies while save is writing it: the
\* ofstream truncated the file, and the lines follow one at a time.
Torn(book) ==
  {[cells |-> Restrict(book.sheet, names), lines |-> << >>] :
      names \in SUBSET DOMAIN book.sheet}
  \cup
  {[cells |-> book.sheet, lines |-> SubSeq(Reverse(book.undo), 1, k)] :
      k \in 0..Len(book.undo)}

-----------------------------------------------------------------------------
(* A book read as an undo history.                                         *)

\* The view that undoing down to entry i of the stack brings back: of each
\* cell the oldest entry at or above i, or else what is stored now.
ViewBefore(b, i) ==
  [c \in Cell |->
     LET later == {j \in i..Len(b.undo) : b.undo[j].name = c}
     IN IF later = {} THEN View(b.sheet, c) ELSE DataOf(b.undo[Min(later)])]

HistoryOf(b) ==
  [current |-> [c \in Cell |-> View(b.sheet, c)],
   past    |-> [i \in 1..Len(b.undo) |-> ViewBefore(b, i)]]

\* Two data of a cell one request apart: an edit, the erasure of a cell, or a
\* revert.
OneRequestApart(old, new) ==
  \/ new.prev = old.content
  \/ new = Blank
  \/ new.content = old.prev /\ new.prev = old.prev

\* The data an undo entry restores and the data its cell had next are one
\* request apart.
OneHistory(b) ==
  \A i \in DOMAIN b.undo :
    OneRequestApart(DataOf(b.undo[i]), ViewBefore(b, i + 1)[b.undo[i].name])

\* A cell without text has no previous text either.
Forgets(data) == data.content = Empty => data.prev = Empty

Forgetful(b) ==
  /\ \A c \in DOMAIN b.sheet : Forgets(b.sheet[c])
  /\ \A i \in DOMAIN b.undo : Forgets(b.undo[i])

=============================================================================
