----------------------------- MODULE SheetGraph -----------------------------
(***************************************************************************)
(* The cells and the cells their formulas name: the reference the          *)
(* circular-dependency check is measured against.                          *)
(***************************************************************************)
EXTENDS SheetOps

\* The cells the formula of c names.
Reads(sheet, c) ==
  IF c \in DOMAIN sheet /\ sheet[c].content \in Formula
  THEN ToSet(Vars[sheet[c].content])
  ELSE {}

Closed(sheet, cells) == \A c \in cells : Reads(sheet, c) \subseteq cells

\* The cells whose values the value of c depends on: those that are in every
\* closed set with the cells that c reads.
Precedents(sheet, c) ==
  {d \in Cell : \A cells \in SUBSET Cell :
                  Reads(sheet, c) \subseteq cells /\ Closed(sheet, cells) => d \in cells}

OnCycle(sheet, c) == c \in Precedents(sheet, c)

\* The formula of each cell names at most one cell.
IsChain(sheet) ==
  \A c \in DOMAIN sheet :
    sheet[c].content \in Formula =>
      \A i, j \in DOMAIN Vars[sheet[c].content] :
        Vars[sheet[c].content][i] = Vars[sheet[c].content][j]

=============================================================================
