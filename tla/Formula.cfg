SPECIFICATION Spec
INVARIANTS
  TypeOK
  TextsAreExpressions
  EvaluateIsMeaning
  ServerTakesFormulas
  EvaluatorIsMeaning
CONSTANTS
  Numeral = {"0", "2", "2.5", "1e1"}
  Exponent = {"1e1"}
  Whole = {"0", "2"}
  Name = {"A1", "a1", "B1", "A1B1", "A_1", "C1"}
  Normal <- SampleNormal
  Parts <- SampleParts
  Blank = " "
  Defined = {"A1"}
  NumberOf <- SampleNumber
  Number <- SampleNumbers
  Zero = 0
  Plus <- SamplePlus
  Minus <- SampleMinus
  Times <- SampleTimes
  Over <- SampleOver
  Foreign = {"$"}
  Invalid = {"C1"}
  MaxTokens = 7
  Rare = {"0", "2.5", "1e1", "a1", "B1", "A1B1", "A_1", "C1"}
CHECK_DEADLOCK FALSE
