---------------------------- MODULE SampleTexts ----------------------------
(***************************************************************************)
(* Cells and texts of each kind for the instances that TLC checks.  A cfg  *)
(* chooses its cells and texts among these.                                *)
(***************************************************************************)
EXTENDS SheetOps

CONSTANTS
  none,                       \* the empty text
  A1, B1, C1, D1,             \* cells
  five,                       \* a text that is no formula
  eqA, eqB, eqC, eqD,         \* "=A1" ...
  eqAC, eqCA, eqBD, eqDB,     \* "=A1+C1" ..., the first name first
  eqBad,                      \* "=+*"
  eqNothing                   \* "="

Names(formula) ==
  CASE formula = eqA  -> <<A1>>
    [] formula = eqB  -> <<B1>>
    [] formula = eqC  -> <<C1>>
    [] formula = eqD  -> <<D1>>
    [] formula = eqAC -> <<A1, C1>>
    [] formula = eqCA -> <<C1, A1>>
    [] formula = eqBD -> <<B1, D1>>
    [] formula = eqDB -> <<D1, B1>>
    [] OTHER -> << >>

SampleVars == [formula \in Formula |-> Names(formula)]

=============================================================================
