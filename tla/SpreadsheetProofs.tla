------------------------- MODULE SpreadsheetProofs -------------------------
(***************************************************************************)
(* Theorems about one spreadsheet of the server and its file, for every    *)
(* set of cells and of texts, and every bound on the undo stack.           *)
(***************************************************************************)
EXTENDS Spreadsheet, SheetProofs

-----------------------------------------------------------------------------
(* The dependency graph.                                                   *)

LEMMA EmptyGraphFacts ==
  /\ DG!EmptyGraph \in DG!Graph
  /\ \A c, d \in Cell :
       d \notin DG!EmptyGraph.dependents[c] /\ d \notin DG!EmptyGraph.dependees[c]
  BY DEF DG!EmptyGraph, DG!Graph

LEMMA DropDependeesType ==
  ASSUME NEW g \in DG!Graph, NEW s \in Cell, NEW gone
  PROVE  DG!DropDependees(g, s, gone) \in DG!Graph
  BY DEF DG!Graph, DG!DropDependees

LEMMA AddDependeesType ==
  ASSUME NEW g \in DG!Graph, NEW s \in Cell, NEW new \in Seq(Cell)
  PROVE  DG!AddDependees(g, s, new) \in DG!Graph
<1> DEFINE names == {new[i] : i \in DOMAIN new}
           early == {new[i] : i \in {j \in DOMAIN new : \A k \in 1..(j - 1) : new[k] # s}}
<1>1. names \subseteq Cell
  OBVIOUS
<1>2. early \subseteq names
  OBVIOUS
<1>3. g.dependents \in [Cell -> SUBSET Cell] /\ g.dependees \in [Cell -> SUBSET Cell]
  BY DEF DG!Graph
<1> HIDE DEF names, early
<1>4. /\ [n \in Cell |-> IF n \in names THEN g.dependents[n] \cup {s} ELSE g.dependents[n]]
           \in [Cell -> SUBSET Cell]
      /\ (IF s \in g.dependees[s] THEN g.dependees
          ELSE [g.dependees EXCEPT ![s] = @ \cup early]) \in [Cell -> SUBSET Cell]
  BY <1>1, <1>2, <1>3
<1>5. QED
  BY <1>4 DEF DG!Graph, DG!AddDependees, names, early

\* Whatever dependencyCheck leaves of the graph is a graph.
LEMMA ReplacedType ==
  ASSUME NEW g \in DG!Graph, NEW c \in Cell, NEW text \in Content,
         NEW h \in Replaced(g, c, text)
  PROVE  h \in DG!Graph
<1>1. << >> \in Seq(Cell) /\ (text \in Formula => Vars[text] \in Seq(Cell))
  BY ContentAssumption
<1>2. \A gone, new : new \in Seq(Cell) => DG!ReplaceDependees(g, c, new, gone) \in DG!Graph
  BY DropDependeesType, AddDependeesType DEF DG!ReplaceDependees
<1>3. QED
  BY <1>1, <1>2 DEF Replaced

-----------------------------------------------------------------------------
(* Types.                                                                  *)

LEMMA SavedType ==
  ASSUME NEW b \in Book
  PROVE  Saved(b) \in File
<1>1. Reverse(b.undo) \in Seq(UndoEntry)
  BY ReverseType DEF Book
<1>2. QED
  BY <1>1 DEF Saved, File, Book

LEMMA LoadedType ==
  ASSUME NEW f \in File
  PROVE  Loaded(f) \in Book
<1>1. Reverse(f.lines) \in Seq(UndoEntry)
  BY ReverseType DEF File
<1>2. QED
  BY <1>1 DEF Loaded, File, Book

LEMMA TornType ==
  ASSUME NEW b \in Book, NEW f \in Torn(b)
  PROVE  f \in File
<1>1. b.sheet \in Sheet /\ b.undo \in Seq(UndoEntry)
  BY DEF Book
<1>2. ASSUME NEW names \in SUBSET DOMAIN b.sheet
      PROVE  [cells |-> Restrict(b.sheet, names), lines |-> << >>] \in File
  <2>1. Restrict(b.sheet, names) \in Sheet
    BY <1>1, RestrictType
  <2>2. QED
    BY <2>1 DEF File
<1>3. ASSUME NEW k \in 0..Len(b.undo)
      PROVE  [cells |-> b.sheet, lines |-> SubSeq(Reverse(b.undo), 1, k)] \in File
  <2>1. /\ Reverse(b.undo) \in Seq(UndoEntry)
        /\ Len(Reverse(b.undo)) = Len(b.undo)
    BY <1>1, ReverseType
  <2>2. SubSeq(Reverse(b.undo), 1, k) \in Seq(UndoEntry)
    BY <2>1
  <2>3. QED
    BY <1>1, <2>2 DEF File
<1>4. QED
  BY <1>2, <1>3 DEF Torn

\* Every state has its type: no edit, revert, undo, death or restart takes the
\* book, the graph or the file out of the sets they are declared in.
THEOREM TypeCorrect == Spec => []TypeOK
<1>1. Init => TypeOK
  <2> SUFFICES ASSUME Init PROVE TypeOK
    OBVIOUS
  <2>1. QED
    BY EmptyBookType, SavedType, EmptyGraphFacts DEF Init, TypeOK
<1>2. TypeOK /\ [Next]_vars => TypeOK'
  <2> SUFFICES ASSUME TypeOK, [Next]_vars PROVE TypeOK'
    OBVIOUS
  <2>0. /\ up \in BOOLEAN /\ book \in Book /\ dGraph \in DG!Graph /\ file \in File
        /\ EmptyBook \in Book /\ DG!EmptyGraph \in DG!Graph
    BY EmptyBookType, EmptyGraphFacts DEF TypeOK
  <2> USE DEF TypeOK
  <2>1. ASSUME NEW c \in Cell, NEW text \in Content, EditCell(c, text) PROVE TypeOK'
    <3>1. book' \in Book
      BY <2>0, <2>1, SetCellContentsType DEF EditCell
    <3>2. dGraph' \in DG!Graph
      BY <2>0, <2>1, ReplacedType DEF EditCell
    <3>3. file' \in File
      BY <2>1, <3>1, SavedType DEF EditCell
    <3>4. QED
      BY <2>0, <2>1, <3>1, <3>2, <3>3 DEF EditCell
  <2>2. ASSUME NEW c \in Cell, NEW text \in Content, EditThrows(c, text) PROVE TypeOK'
    BY <2>0, <2>2 DEF EditThrows
  <2>3. ASSUME NEW c \in Cell, RevertCell(c) PROVE TypeOK'
    BY <2>0, <2>3, ProcessRevertType, SavedType DEF RevertCell
  <2>4. CASE Undo
    BY <2>0, <2>4, UndoChangeType, SavedType DEF Undo
  <2>5. CASE Answered
    BY <2>0, <2>5, SavedType DEF Answered
  <2>6. CASE Kill
    <3>1. file' \in File
      BY <2>0, <2>6, OutcomesType, TornType DEF Kill
    <3>2. QED
      BY <2>0, <2>6, <3>1 DEF Kill
  <2>7. CASE Load
    BY <2>0, <2>7, LoadedType DEF Load
  <2>8. CASE UNCHANGED vars
    BY <2>8 DEF vars
  <2>9. QED
    BY <2>1, <2>2, <2>3, <2>4, <2>5, <2>6, <2>7, <2>8
       DEF Next, RefuseEdit, RefuseRevert, RefuseUndo, SelectCell
<1>3. QED
  BY <1>1, <1>2, PTL DEF Spec

-----------------------------------------------------------------------------
(* What the next process would load.                                       *)

\* What a running server shows is what the next process will load, after any
\* requests, deaths (also during a save) and restarts: each request that ends
\* has saved the book, and load inverts save.
THEOREM FileCorrect == Spec => []FileIsCurrent
<1>1. Init => FileIsCurrent
  BY DEF Init, FileIsCurrent
<1>2. TypeOK /\ TypeOK' /\ FileIsCurrent /\ [Next]_vars => FileIsCurrent'
  <2> SUFFICES ASSUME TypeOK, TypeOK', FileIsCurrent, [Next]_vars PROVE FileIsCurrent'
    OBVIOUS
  <2>0. book \in Book /\ book' \in Book
    BY DEF TypeOK
  <2> USE DEF FileIsCurrent
  <2>1. CASE file' = Saved(book')
    BY <2>0, <2>1, LoadInvertsSave
  <2>2. CASE up' = FALSE
    BY <2>2
  <2>3. CASE Load
    BY <2>3 DEF Load
  <2>4. CASE UNCHANGED vars
    BY <2>4 DEF vars
  <2>5. QED
    BY <2>1, <2>2, <2>3, <2>4
       DEF Next, EditCell, EditThrows, RevertCell, Undo, RefuseEdit, RefuseRevert,
           RefuseUndo, SelectCell, Answered, Kill
<1>3. QED
  BY <1>1, <1>2, TypeCorrect, PTL DEF Spec

-----------------------------------------------------------------------------
(* The graph beside the check.                                             *)

\* An accepted edit whose text has names does not name the edited cell.
LEMMA AcceptedHasNoSelf ==
  ASSUME NEW sheet, NEW c, NEW text \in Formula,
         EditVerdict(sheet, c, text) = "accept",
         NEW i \in DOMAIN Vars[text]
  PROVE  Vars[text][i] # c
<1>1. DependencyCheck(sheet, c, text) = "accept"
  BY DEF EditVerdict
<1>2. Vars[text] \in Seq(Cell)
  BY ContentAssumption
<1>3. Vars[text] # << >>
  BY <1>2
<1>4. ~Contains(Vars[text], c)
  BY <1>1, <1>2, <1>3, Zenon DEF DependencyCheck
<1>5. QED
  BY <1>2, <1>4 DEF Contains

GraphInv == GraphHasNoSelfPair /\ GraphListsEveryDependee

\* ReplaceDependees with names other than s, in a graph where s is not its own
\* dependee: the first loop erases nothing from dependeeGraph, the second one
\* adds every name.
LEMMA ReplaceKeepsInv ==
  ASSUME NEW g \in DG!Graph, NEW s \in Cell, NEW new \in Seq(Cell), NEW gone \in DG!Erasable(g, s),
         \A i \in DOMAIN new : new[i] # s,
         \A c \in Cell : c \notin g.dependees[c],
         \A c, d \in Cell : d \in g.dependents[c] => c \in g.dependees[d],
         NEW h, h = DG!ReplaceDependees(g, s, new, gone)
  PROVE  /\ \A c \in Cell : c \notin h.dependees[c]
         /\ \A c, d \in Cell : d \in h.dependents[c] => c \in h.dependees[d]
<1> DEFINE dropped == DG!DropDependees(g, s, gone)
           names   == {new[i] : i \in DOMAIN new}
           early   == {new[i] : i \in {j \in DOMAIN new : \A k \in 1..(j - 1) : new[k] # s}}
<1>1. gone = {}
  BY DEF DG!Erasable
<1>2. /\ g.dependents \in [Cell -> SUBSET Cell]
      /\ g.dependees \in [Cell -> SUBSET Cell]
  BY DEF DG!Graph
<1>3. \A j \in DOMAIN new : 1..(j - 1) \subseteq DOMAIN new
  OBVIOUS
<1>4. early = names
  BY <1>3
<1>5. names \subseteq Cell /\ s \notin names
  OBVIOUS
<1>6. /\ dropped.dependees = g.dependees
      /\ \A c \in Cell : dropped.dependents[c] \subseteq g.dependents[c]
      /\ dropped.dependents \in [Cell -> SUBSET Cell]
  BY <1>1, <1>2 DEF DG!DropDependees
<1> HIDE DEF dropped, names, early
<1>7. /\ h.dependents = [n \in Cell |-> IF n \in names
                                         THEN dropped.dependents[n] \cup {s}
                                         ELSE dropped.dependents[n]]
      /\ h.dependees = [g.dependees EXCEPT ![s] = @ \cup names]
  BY <1>4, <1>6 DEF DG!ReplaceDependees, DG!AddDependees, dropped, names, early
<1>8. QED
  BY <1>2, <1>5, <1>6, <1>7

LEMMA GraphInvariant == Spec => []GraphInv
<1> USE DEF GraphInv, GraphHasNoSelfPair, GraphListsEveryDependee
<1>1. Init => GraphInv
  BY EmptyGraphFacts DEF Init
<1>2. TypeOK /\ GraphInv /\ [Next]_vars => GraphInv'
  <2> SUFFICES ASSUME TypeOK, GraphInv, [Next]_vars PROVE GraphInv'
    OBVIOUS
  <2>1. ASSUME NEW c \in Cell, NEW text \in Content, EditCell(c, text) PROVE GraphInv'
    <3>1. /\ dGraph \in DG!Graph
          /\ dGraph' \in Replaced(dGraph, c, text)
          /\ EditVerdict(book.sheet, c, text) = "accept"
      BY <2>1 DEF TypeOK, EditCell
    <3>2. CASE text \in Formula /\ Vars[text] = << >>
      BY <3>1, <3>2 DEF Replaced
    <3>3. CASE text \in Formula /\ Vars[text] # << >>
      <4>1. PICK gone \in DG!Erasable(dGraph, c) :
              dGraph' = DG!ReplaceDependees(dGraph, c, Vars[text], gone)
        BY <3>1, <3>3 DEF Replaced
      <4>2. \A i \in DOMAIN Vars[text] : Vars[text][i] # c
        BY <3>1, <3>3, AcceptedHasNoSelf
      <4>3. Vars[text] \in Seq(Cell)
        BY <3>3, ContentAssumption
      <4>4. QED
        BY <3>1, <4>1, <4>2, <4>3, ReplaceKeepsInv
    <3>4. CASE text \notin Formula
      <4>1. PICK gone \in DG!Erasable(dGraph, c) :
              dGraph' = DG!ReplaceDependees(dGraph, c, << >>, gone)
        BY <3>1, <3>4 DEF Replaced
      <4>2. << >> \in Seq(Cell) /\ \A i \in DOMAIN << >> : << >>[i] # c
        OBVIOUS
      <4>3. QED
        BY <3>1, <4>1, <4>2, ReplaceKeepsInv
    <3>5. QED
      BY <3>2, <3>3, <3>4
  <2>2. CASE dGraph' = dGraph
    BY <2>2
  <2>3. CASE dGraph' = DG!EmptyGraph
    BY <2>3, EmptyGraphFacts
  <2>4. QED
    BY <2>1, <2>2, <2>3
       DEF Next, vars, EditThrows, RevertCell, Undo, RefuseEdit, RefuseRevert,
           RefuseUndo, SelectCell, Answered, Kill, Load
<1>3. QED
  BY <1>1, <1>2, TypeCorrect, PTL DEF Spec

\* In the server no cell becomes its own dependee, so the loop of
\* replaceDependees whose outcome depends on the order of an unordered_set
\* never has anything to erase from dependeeGraph.
THEOREM NoSelfPair == Spec => []GraphHasNoSelfPair
  BY GraphInvariant, PTL DEF GraphInv

\* dependentGraph never holds a pair that dependeeGraph misses.
THEOREM EveryDependeeListed == Spec => []GraphListsEveryDependee
  BY GraphInvariant, PTL DEF GraphInv

-----------------------------------------------------------------------------
(* The histories of UndoHistory.                                           *)

LEMMA SameViews ==
  /\ UH!Blank = HV!Blank
  /\ \A h : UH!Changes(h) = HV!Changes(h) /\ UH!Remains(h) = HV!Remains(h)
<1>1. UH!Blank = HV!Blank
  BY DEF UH!Blank, HV!Blank
<1>2. ASSUME NEW h
      PROVE  UH!Changes(h) = HV!Changes(h) /\ UH!Remains(h) = HV!Remains(h)
  <2>1. \A c, text : UH!Edited(h, c, text) = HV!Edited(h, c, text)
    BY <1>1 DEF UH!Edited, HV!Edited
  <2>2. \A c : UH!Reverted(h, c) = HV!Reverted(h, c)
    BY DEF UH!Reverted, HV!Reverted
  <2>3. UH!Undone(h) = HV!Undone(h)
    BY DEF UH!Undone, HV!Undone, UH!Last, UH!Front, HV!Last, HV!Front
  <2>4. UH!Changes(h) = HV!Changes(h)
    BY <2>1, <2>2, <2>3 DEF UH!Changes, HV!Changes
  <2>5. \A k : UH!Newest(h, k) = HV!Newest(h, k)
    BY DEF UH!Newest, HV!Newest
  <2>6. \A cells : UH!Only(h, cells) = HV!Only(h, cells)
    BY <1>1 DEF UH!Only, HV!Only
  <2>7. UH!Remains(h) = HV!Remains(h)
    BY <2>5, <2>6 DEF UH!Remains, HV!Remains
  <2> QED
    BY <2>4, <2>7
<1> QED
  BY <1>1, <1>2

-----------------------------------------------------------------------------
(* The inductive invariant: the book and what the next process would load  *)
(* are sound.                                                              *)

HistoryInv == Sound(book) /\ Sound(Loaded(file))

LEMMA HistoryInvariant == Spec => []HistoryInv
<1>1. Init => HistoryInv
  BY EmptyBookType, EmptyBookSound, LoadInvertsSave DEF Init, HistoryInv
<1>2. TypeOK /\ TypeOK' /\ FileIsCurrent /\ HistoryInv /\ [Next]_vars => HistoryInv'
  <2> SUFFICES ASSUME TypeOK, TypeOK', FileIsCurrent, HistoryInv, [Next]_vars
               PROVE  HistoryInv'
    OBVIOUS
  <2>0. book \in Book /\ book' \in Book
    BY DEF TypeOK
  <2>1. CASE Sound(book') /\ file' = Saved(book')
    BY <2>0, <2>1, LoadInvertsSave DEF HistoryInv
  <2>2. ASSUME NEW c \in Cell, NEW text \in Content, EditCell(c, text) PROVE HistoryInv'
    BY <2>0, <2>1, <2>2, EditHistory DEF EditCell, HistoryInv
  <2>3. ASSUME NEW c \in Cell, RevertCell(c) PROVE HistoryInv'
    BY <2>0, <2>1, <2>3, RevertHistory DEF RevertCell, HistoryInv
  <2>4. CASE Undo
    BY <2>0, <2>1, <2>4, UndoneHistory DEF Undo, HistoryInv
  <2>5. CASE Answered
    BY <2>1, <2>5 DEF Answered, HistoryInv
  <2>6. ASSUME NEW c \in Cell, NEW text \in Content, EditThrows(c, text) PROVE HistoryInv'
    BY <2>6, EmptyBookSound DEF EditThrows, HistoryInv
  <2>7. CASE Kill
    <3>1. Sound(book')
      BY <2>7, EmptyBookSound DEF Kill
    <3>2. CASE file' = file
      BY <3>1, <3>2 DEF HistoryInv
    <3>3. ASSUME NEW next \in Outcomes(book, MaxUndo), file' \in Torn(next)
          PROVE  HistoryInv'
      <4>1. next \in Book /\ Sound(next)
        BY <2>0, OutcomesType, OutcomesHistory DEF HistoryInv
      <4>2. Sound(Loaded(file'))
        BY <3>3, <4>1, TornHistory
      <4>3. QED
        BY <3>1, <4>2 DEF HistoryInv
    <3>4. QED
      BY <2>7, <3>2, <3>3 DEF Kill
  <2>8. CASE Load
    BY <2>8 DEF Load, HistoryInv
  <2>9. CASE UNCHANGED vars
    BY <2>9 DEF vars, HistoryInv
  <2>10. QED
    BY <2>2, <2>3, <2>4, <2>5, <2>6, <2>7, <2>8, <2>9
       DEF Next, RefuseEdit, RefuseRevert, RefuseUndo, SelectCell
<1>3. QED
  BY <1>1, <1>2, TypeCorrect, FileCorrect, PTL DEF Spec

\* However the edits, reverts and undos of several cells, the saves, the deaths
\* and the loads were interleaved, the undo stack of setCellContents,
\* processRevert and undoChange is one history of the sheet: what an entry
\* restores and what its cell had next are one request apart.
THEOREM OneHistoryKept == Spec => []StackIsHistory
<1>1. HistoryInv => StackIsHistory
  BY DEF HistoryInv, Sound, StackIsHistory
<1>2. QED
  BY <1>1, HistoryInvariant, PTL

\* No request, death or load leaves a cell, on the sheet or on the stack, that
\* has lost its text and kept a previous one: a stored cell with an empty text
\* reads like one that undoChange or setCellContents erased.
THEOREM EmptyCellsForget == Spec => []EmptyForgets
<1>1. HistoryInv => EmptyForgets
  BY DEF HistoryInv, Sound, EmptyForgets
<1>2. QED
  BY <1>1, HistoryInvariant, PTL

-----------------------------------------------------------------------------
(* The refinement.                                                         *)

\* The file of save and load is an undo history: every edit, revert and undo
\* changes it as users are promised, and a death costs at most the oldest undo
\* steps or, while the cell lines are written, some cells and all undo steps.
THEOREM HistoryKept == Spec => KeepsHistory
<1>1. Init => UH!Init
  BY EmptyBookType, EmptyBookSound, LoadInvertsSave, SameViews DEF Init, UH!Init
<1>2. TypeOK /\ TypeOK' /\ FileIsCurrent /\ FileIsCurrent' /\ HistoryInv /\ [Next]_vars
        => [UH!Next]_<<HistoryOf(Loaded(file)), up>>
  <2> SUFFICES ASSUME TypeOK, TypeOK', FileIsCurrent, FileIsCurrent', HistoryInv, [Next]_vars
               PROVE  UH!Next \/ UNCHANGED <<HistoryOf(Loaded(file)), up>>
    OBVIOUS
  <2>0. /\ book \in Book /\ book' \in Book /\ file \in File
        /\ Sound(book)
        /\ up => Loaded(file) = book
        /\ up' => Loaded(file)' = book'
    BY DEF TypeOK, FileIsCurrent, HistoryInv
  <2> USE DEF UH!Next
  <2>1. ASSUME NEW c \in Cell, NEW text \in Content, EditCell(c, text) PROVE UH!Change
    BY <2>0, <2>1, EditHistory, SameViews DEF EditCell, UH!Change, HV!Changes
  <2>2. ASSUME NEW c \in Cell, RevertCell(c) PROVE UH!Change
    <3>1. /\ HistoryOf(book') = HV!Reverted(HistoryOf(book), c)
          /\ HistoryOf(book).current[c].content # HistoryOf(book).current[c].prev
      BY <2>0, <2>2, RevertHistory DEF RevertCell
    <3>2. HistoryOf(book') \in HV!Changes(HistoryOf(book))
      BY <3>1 DEF HV!Changes
    <3>3. QED
      BY <2>0, <2>2, <3>2, SameViews DEF RevertCell, UH!Change
  <2>3. CASE Undo
    BY <2>0, <2>3, UndoneHistory, SameViews DEF Undo, UH!Change, HV!Changes
  <2>4. CASE Answered
    BY <2>0, <2>4 DEF Answered
  <2>5. CASE up /\ up' = FALSE /\ file' = file
    <3>1. Loaded(file) \in Book
      BY <2>0, LoadedType
    <3>2. HistoryOf(Loaded(file)) \in HV!Remains(HistoryOf(Loaded(file)))
      BY <3>1, NewestIsWhole
    <3>3. UH!Die
      BY <2>5, <3>2, SameViews DEF UH!Die
    <3>4. QED
      BY <3>3
  <2>6. CASE Kill
    <3>1. CASE file' = file
      BY <2>5, <2>6, <3>1 DEF Kill
    <3>2. ASSUME NEW next \in Outcomes(book, MaxUndo), file' \in Torn(next)
          PROVE  UH!Die
      <4>1. /\ next \in Book /\ Sound(next)
            /\ HistoryOf(next) \in {HistoryOf(book)} \cup HV!Changes(HistoryOf(book))
        BY <2>0, OutcomesType, OutcomesHistory
      <4>2. HistoryOf(Loaded(file')) \in HV!Remains(HistoryOf(next))
        BY <3>2, <4>1, TornHistory
      <4>3. up /\ up' = FALSE /\ Loaded(file) = book
        BY <2>0, <2>6 DEF Kill
      <4>4. QED
        BY <4>1, <4>2, <4>3, SameViews DEF UH!Die
    <3>3. QED
      BY <2>6, <3>1, <3>2 DEF Kill
  <2>7. CASE Load
    BY <2>7 DEF Load, UH!Restart
  <2>8. CASE UNCHANGED vars
    BY <2>8 DEF vars
  <2>9. QED
    BY <2>1, <2>2, <2>3, <2>4, <2>5, <2>6, <2>7, <2>8
       DEF Next, RefuseEdit, RefuseRevert, RefuseUndo, SelectCell, EditThrows
<1>3. QED
  BY <1>1, <1>2, TypeCorrect, FileCorrect, HistoryInvariant, PTL
     DEF Spec, KeepsHistory, UH!Spec

=============================================================================
