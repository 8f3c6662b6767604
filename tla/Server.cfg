SPECIFICATION Spec
INVARIANTS
  TypeOK
  EditorsAreCurrent
  SubscribersAreEditors
  PlainFilesAreServed
PROPERTIES
  KeepsHistories
CONSTANTS
  none = none
  A1 = A1
  B1 = B1
  C1 = C1
  D1 = D1
  five = five
  eqA = eqA
  eqB = eqB
  eqC = eqC
  eqD = eqD
  eqAC = eqAC
  eqCA = eqCA
  eqBD = eqBD
  eqDB = eqDB
  eqBad = eqBad
  eqNothing = eqNothing
  k1 = k1
  k2 = k2
  ann = ann
  bob = bob
  budget = budget
  spaced = spaced
  Watched = budget
  Conn = {k1, k2}
  User = {ann, bob}
  UserNames <- OwnNames
  SheetName = {budget, spaced}
  Strip <- Stripped
  Cell = {A1}
  Content = {none, five, eqNothing}
  Empty = none
  Formula = {eqNothing}
  Malformed = {}
  Bare = {eqNothing}
  Vars <- SampleVars
  MaxUndo = 1
  MaxId = 3
