SPECIFICATION Spec
INVARIANTS
  TypeOK
  ViewsFollow
  ServerStaysUp
  ChoicesAreKept
PROPERTIES
  ClientsCatchUp
CONSTANTS
  k1 = k1
  k2 = k2
  A1 = A1
  B1 = B1
  none = none
  sum = sum
  long = long
  lone = lone
  bad = bad
  Client = {k1, k2}
  Cell = {A1, B1}
  Text = {none, sum, long, lone, bad}
  Empty = none
  Formula = {sum, long}
  Refused = {bad}
  Bare = {lone}
  Long = {long}
  Edits <- SampleEdits
  MaxRequests = 2
  MaxOdd = 1
CHECK_DEADLOCK FALSE
