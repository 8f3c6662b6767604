SPECIFICATION Spec
INVARIANTS
  TypeOK
  FileIsCurrent
  StackIsHistory
  EmptyForgets
  GraphHasNoSelfPair
  GraphListsEveryDependee
PROPERTIES
  KeepsHistory
CONSTANTS
  A1 = A1
  B1 = B1
  C1 = C1
  D1 = D1
  five = five
  eqA = eqA
  eqB = eqB
  eqC = eqC
  eqD = eqD
  eqAC = eqAC
  eqCA = eqCA
  eqBD = eqBD
  eqDB = eqDB
  eqBad = eqBad
  eqNothing = eqNothing
  none = none
  Empty = none
  Cell = {A1, B1}
  Content = {none, five, eqA}
  Formula = {eqA}
  Malformed = {}
  Bare = {}
  Vars <- SampleVars
  MaxUndo = 3
