--------------------------- MODULE MCClientSheet ---------------------------
(* ClientSheet on three cells and a few texts of each kind.                *)
EXTENDS ClientSheet

CONSTANTS
  A1, B1, C1,           \* cells
  eqA, eqB, eqC,        \* "=A1" ...
  eqAB, eqBC,           \* "=A1+B1" ...
  eqAX,                 \* "=A1+A1B1", which the server accepts
  eqBad                 \* "=-A1", which it accepts too

Named(formula) ==
  CASE formula = eqA  -> {A1}
    [] formula = eqB  -> {B1}
    [] formula = eqC  -> {C1}
    [] formula = eqAB -> {A1, B1}
    [] formula = eqBC -> {B1, C1}
    [] formula = eqAX -> {A1}
    [] OTHER -> {}

\* A file with a formula of which the cell is not in it.
SampleFile == {[c \in {A1} |-> eqB]}

SampleUnsigned == [formula \in Formula |-> CHOOSE word \in Word \ {Whitespace} : TRUE]

SampleVars == [formula \in Formula |-> Named(formula)]

=============================================================================
