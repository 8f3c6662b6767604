SPECIFICATION GraphsSpec
SYMMETRY Symmetry
INVARIANTS
  TypesOK
  TwoReadings
  DependeesKnowAll
  SizeCounts
  AllLoopsAgree
  SizeBounds
PROPERTIES
  IsRelation
CONSTANTS
  a = a
  b = b
  c = c
  Node = {a, b, c}
  MaxSize = 4
