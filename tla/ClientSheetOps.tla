--------------------------- MODULE ClientSheetOps ---------------------------
(***************************************************************************)
(* What the client's class Spreadsheet computes on its cells and its       *)
(* dependency graph: the contents a cell takes or refuses, the order of    *)
(* recalculation, the values, and the cells that a file brings back.       *)
(*                                                                         *)
(* A text is abstracted to what SetContentsOfCell makes of it: nothing, a  *)
(* number, a word, or a formula, which is the sum of the cells it names    *)
(* unless the class Formula refuses to parse it, or throws when it is to   *)
(* evaluate it (ClientFormula.EvaluateIsMeaning).                    *)
(***************************************************************************)
EXTENDS Integers, Sequences, SequencesExt, FiniteSetsExt

CONSTANTS
  Cell,       \* the normalized names of the cells
  Number,     \* the numbers a cell may be set to
  Word,       \* the other texts that are not formulas
  Whitespace, \* a word of nothing but spaces and line ends
  Empty,      \* the empty text
  Formula,    \* the texts that start with '='
  Malformed,  \* the formulas that end in FormulaFormatException
  Misnamed,   \* the formulas with a name like A1B1 among their cell names
  Vars,       \* the cells a formula names
  Unsigned,   \* the word that a formula is without its '='
  Error,      \* a FormulaError
  Null        \* the value of a cell that was never calculated

ASSUME TextAssumption ==
  /\ Number \subseteq Nat
  /\ Whitespace \in Word
  /\ Empty \notin Word
  /\ Formula \cap (Word \cup {Empty}) = {}
  /\ Null \notin Word \cup {Empty, Error} \cup Nat
  /\ Malformed \subseteq Formula
  /\ Misnamed \subseteq Formula \ Malformed
  /\ Unsigned \in [Formula -> Word]
  /\ Vars \in [Formula -> SUBSET Cell]

DG == INSTANCE ClientGraphOps WITH Node <- Cell

Text == Word \cup {Empty} \cup Formula \cup Number

Value == Word \cup {Empty, Error, Null} \cup Nat

-----------------------------------------------------------------------------
(* The dictionary of the cells, as a function on the names it has, and the *)
(* graph; the two are a book.                                              *)

EmptyBook == [sheet |-> [c \in {} |-> Empty], graph |-> DG!EmptyGraph]

GetCellContents(sheet, c) == IF c \in DOMAIN sheet THEN sheet[c].content ELSE Empty

GetCellValue(sheet, c) == IF c \in DOMAIN sheet THEN sheet[c].value ELSE Empty

SetCellHelper(sheet, c, text) ==
  [n \in DOMAIN sheet \cup {c} |->
     IF n # c THEN sheet[n]
     ELSE [content |-> text, value |-> IF c \in DOMAIN sheet THEN sheet[c].value ELSE Null]]

\* Lookup finds a number.
IsDefined(sheet, v) == v \in DOMAIN sheet /\ sheet[v].value \notin Word \cup {Empty, Error, Null}

\* Mutant of Computed: a formula is its own value.
ComputedText(sheet, text) == text

\* Formula.Evaluate with Lookup, which throws for what is no number.
Computed(sheet, text) ==
  IF text \notin Formula THEN text
  ELSE IF \A v \in Vars[text] : IsDefined(sheet, v)
       THEN SumFunction([v \in Vars[text] |-> sheet[v].value])
       ELSE Error

\* Evaluate has passed over a name and misses its value.
Raises(sheet, text) == text \in Misnamed /\ \A v \in Vars[text] : IsDefined(sheet, v)

\* An exception leaves the rest of the list as it was.
Recalculate(run, c) ==
  IF run.raised \/ Raises(run.sheet, run.sheet[c].content)
  THEN [run EXCEPT !.raised = TRUE]
  ELSE [run EXCEPT !.sheet[c].value = Computed(run.sheet, run.sheet[c].content)]

RecalcHelper(sheet, cells) ==
  LET run[i \in 0..Len(cells)] ==
        IF i = 0 THEN [sheet |-> sheet, raised |-> FALSE] ELSE Recalculate(run[i - 1], cells[i])
  IN run[Len(cells)]

-----------------------------------------------------------------------------
(* The order of recalculation.  Visit walks the dependents depth first, in *)
(* the order of a HashSet, and puts each name ahead of those it has put.   *)
(* It answers with every pair of names visited and list put together.      *)

\* Mutant of AddFirst: the name goes behind the others.
AddLast(name, changed) == Append(changed, name)

AddFirst(name, changed) == <<name>> \o changed

\* What the loop of a call does with the names that are left to it, when some
\* are visited already.  It takes any of them next.
Loop(graph, loops, left, visited) ==
  IF left = {} THEN {[visited |-> visited, changed |-> <<>>]}
  ELSE UNION {IF n \in visited THEN loops[<<left \ {n}, visited>>]
              ELSE UNION {{[rest EXCEPT !.changed = @ \o AddFirst(n, call.changed)] :
                             rest \in loops[<<left \ {n}, call.visited>>]} :
                            call \in loops[<<graph.dependents[n], visited \cup {n}>>]} : n \in left}

Visit(graph, name) ==
  LET loops[at \in (SUBSET Cell) \X (SUBSET Cell)] == Loop(graph, loops, at[1], at[2])
  IN {[r EXCEPT !.changed = AddFirst(name, @)] : r \in loops[<<graph.dependents[name], {name}>>]}

\* Mutant of Circular: the walk ends at the dependents of the name.
CircularNearby(graph, name) == \E n \in graph.dependents[name] : name \in graph.dependents[n]

\* Does Visit meet the name it started from?
Circular(graph, name) ==
  \E walk \in Visit(graph, name) : \E n \in walk.visited : name \in graph.dependents[n]

GetCellsToRecalculate(graph, name) == {walk.changed : walk \in Visit(graph, name)}

-----------------------------------------------------------------------------
(* SetContentsOfCell: the books it can leave, whether by an exception, of  *)
(* an evaluation or not, and the cells it returns.                         *)

Refused(book) == [book |-> book, refused |-> TRUE, raised |-> FALSE, cells |-> <<>>]

Recalculated(sheet, graph, c) ==
  {LET run == RecalcHelper(sheet, cells)
   IN [book |-> [sheet |-> run.sheet, graph |-> graph], refused |-> run.raised,
       raised |-> run.raised, cells |-> cells] : cells \in GetCellsToRecalculate(graph, c)}

\* Mutant of SetToConstant: the graph keeps the dependees of the old formula.
SetToConstantOnly(book, c, text) ==
  Recalculated(SetCellHelper(book.sheet, c, text), book.graph, c)

SetToConstant(book, c, text) ==
  UNION {Recalculated(SetCellHelper(book.sheet, c, text), graph, c) :
           graph \in DG!ReplaceDependees(book.graph, c, {})}

\* Neither the graph nor any other value changes.
SetToEmpty(book, c) ==
  LET sheet == [n \in DOMAIN book.sheet \cup {c} |->
                  IF n = c THEN [content |-> Empty, value |-> Empty] ELSE book.sheet[n]]
  IN {[book |-> [book EXCEPT !.sheet = sheet], refused |-> FALSE, raised |-> FALSE, cells |-> cells] :
        cells \in GetCellsToRecalculate(book.graph, c)}

\* Mutants of SetToFormula: refused dependees stay; the old dependees stay.
SetWithoutRollback(book, c, formula) ==
  IF formula \in Malformed \/ c \in Vars[formula] THEN {Refused(book)}
  ELSE UNION {IF Circular(graph, c) THEN {Refused([book EXCEPT !.graph = graph])}
              ELSE Recalculated(SetCellHelper(book.sheet, c, formula), graph, c) :
                graph \in DG!ReplaceDependees(book.graph, c, Vars[formula])}

SetAddingDependees(book, c, formula) ==
  IF formula \in Malformed \/ c \in Vars[formula] THEN {Refused(book)}
  ELSE LET graph == DG!WithDependees(book.graph, c, Vars[formula])
       IN IF Circular(graph, c) THEN {Refused(book)}
          ELSE Recalculated(SetCellHelper(book.sheet, c, formula), graph, c)

SetToFormula(book, c, formula) ==
  IF formula \in Malformed \/ c \in Vars[formula] THEN {Refused(book)}
  ELSE UNION {IF Circular(graph, c)
              THEN {Refused([book EXCEPT !.graph = restored]) :
                      restored \in DG!ReplaceDependees(graph, c, book.graph.dependees[c])}
              ELSE Recalculated(SetCellHelper(book.sheet, c, formula), graph, c) :
                graph \in DG!ReplaceDependees(book.graph, c, Vars[formula])}

SetContentsOfCell(book, c, text) ==
  IF text \in Formula THEN SetToFormula(book, c, text)
  ELSE IF text = Empty THEN SetToEmpty(book, c)
  ELSE SetToConstant(book, c, text)

-----------------------------------------------------------------------------
(* Save and LoadFile.  The contents element of an emptied cell has no text *)
(* node: the reader takes the line break that follows it.                  *)

\* Mutant of SavedText: a formula is written without its '=', as a word.
SavedWithoutSign(text) == IF text \in Formula \cup {Empty} THEN Whitespace ELSE text

SavedText(text) == IF text = Empty THEN Whitespace ELSE text

\* One cell more is set; the first that is refused is the end of it.
Taken(books, c, text) ==
  {o.book : o \in {p \in UNION {SetContentsOfCell(b, c, text) : b \in books} : ~p.refused}}

\* The books that loading the texts of a file can leave, in the order of the
\* saved dictionary.
LoadFile(texts, order) ==
  LET books[i \in 0..Len(order)] ==
        IF i = 0 THEN {EmptyBook} ELSE Taken(books[i - 1], order[i], texts[order[i]])
  IN books[Len(order)]

SavedTexts(sheet) == [c \in DOMAIN sheet |-> SavedText(sheet[c].content)]

=============================================================================
