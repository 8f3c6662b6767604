----------------------------- MODULE CycleCheck -----------------------------
(***************************************************************************)
(* The circular-dependency check on every sheet that a spreadsheet object  *)
(* can hold.  Only the texts are kept: a checked edit, and the unchecked   *)
(* write of a revert or an undo, which puts back any text its cell once    *)
(* had.                                                                    *)
(***************************************************************************)
EXTENDS SheetGraph

VARIABLE sheet  \* the stored cells, all without a previous text

With(c, text) ==
  IF c \in DOMAIN sheet /\ text = Empty
  THEN Erase(sheet, c)
  ELSE Put(sheet, c, [content |-> text, prev |-> Empty])

Init == sheet = [c \in {} |-> Blank]

Edit(c, text) == EditVerdict(sheet, c, text) = "accept" /\ sheet' = With(c, text)

\* An empty sheet would have taken this text, so the cell may have had it; a
\* revert to the empty text leaves the cell stored.
Restore(c, text) ==
  /\ EditVerdict([x \in {} |-> Blank], c, text) = "accept"
  /\ c \in DOMAIN sheet
  /\ sheet' = Put(sheet, c, [content |-> text, prev |-> Empty])

Next == \E c \in Cell, text \in Content : Edit(c, text) \/ Restore(c, text)

Spec == Init /\ [][Next]_sheet

-----------------------------------------------------------------------------

\* A well-formed formula that the check refuses would close a cycle through
\* the edited cell, whatever older cycles reverts and undos have left in the
\* sheet: visit invents no cycle (dependencyCheck, visit).
RefusalsAreReal ==
  \A c \in Cell, text \in Formula \ Malformed :
    EditVerdict(sheet, c, text) = "refuse" => OnCycle(With(c, text), c)

\* If no formula has two names, the edit of a formula that the check lets
\* through puts its cell on no cycle: along a chain visit finds the way back,
\* through any number of cells and past any older cycle.  A blank is one more
\* name (spreadsheet.cpp:278): with "= A1 " a cycle through A1 may stay hidden.
ChainsStayOpen ==
  \A c \in Cell, text \in Content :
    EditVerdict(sheet, c, text) = "accept" /\ IsChain(With(c, text))
      => ~OnCycle(With(c, text), c)

\* The check ends in an exception only if a stored cell without text is among
\* the cells that the value of the edited cell would depend on, or if the
\* formula is nothing but its '='.
ExceptionsNeedBlanks ==
  \A c \in Cell, text \in Content :
    EditVerdict(sheet, c, text) = "throws"
      => \/ text \in Bare
         \/ \E d \in Precedents(With(c, text), c) \ {c} :
              d \in DOMAIN sheet /\ sheet[d].content = Empty

=============================================================================
