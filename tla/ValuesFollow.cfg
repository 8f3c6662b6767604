SPECIFICATION Spec
INVARIANTS
  ValuesFollow
CONSTANTS
  A1 = A1
  B1 = B1
  C1 = C1
  eqA = eqA
  eqB = eqB
  eqC = eqC
  eqAB = eqAB
  eqBC = eqBC
  eqAX = eqAX
  eqBad = eqBad
  Cell = {A1, B1, C1}
  Number = {1, 2}
  Word = {blank, word}
  Whitespace = blank
  Empty = none
  Formula = {eqA, eqB, eqC, eqAB, eqBC, eqAX, eqBad}
  Malformed = {eqBad}
  Misnamed = {eqAX}
  Vars <- SampleVars
  Unsigned <- SampleUnsigned
  File <- SampleFile
  MaxCells = 1
  MaxUpdates = 2
  Error = error
  Null = null
