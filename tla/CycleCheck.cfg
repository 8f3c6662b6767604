SPECIFICATION Spec
INVARIANTS
  RefusalsAreReal
  ChainsStayOpen
  ExceptionsNeedBlanks
CONSTANTS
  A1 = A1
  B1 = B1
  C1 = C1
  D1 = D1
  five = five
  eqA = eqA
  eqB = eqB
  eqC = eqC
  eqD = eqD
  eqAC = eqAC
  eqCA = eqCA
  eqBD = eqBD
  eqDB = eqDB
  eqBad = eqBad
  eqNothing = eqNothing
  none = none
  Empty = none
  Cell = {A1, B1, C1, D1}
  Content = {none, eqA, eqB, eqC, eqD, eqAC, eqCA, eqBD, eqBad, eqNothing}
  Formula = {eqA, eqB, eqC, eqD, eqAC, eqCA, eqBD, eqBad, eqNothing}
  Malformed = {eqBad}
  Bare = {eqNothing}
  Vars <- SampleVars
