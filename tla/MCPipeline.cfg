SPECIFICATION Spec
CONSTANTS
  RunId = {r1, r2, r3}
  Invocation = {i1, i2, i3}
  Question = {"what", "who"}
  Answers <- MCAnswers
  SeedFrom <- MCSeedFrom
  Raw <- MCRaw
  Threshold = 6
SYMMETRY Names
CHECK_DEADLOCK FALSE
INVARIANTS NoCodeWhileAsking AnsweringUnparks NothingIsStacked
PROPERTY SeedIsFinal
