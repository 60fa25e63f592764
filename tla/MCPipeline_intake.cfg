SPECIFICATION Spec
CONSTANTS
  RunId = {r1}
  Invocation = {i1}
  Question = {"what", "who"}
  Answers <- MCAnswers
  SeedFrom <- MCSeedFrom
  Raw <- MCRaw
  Threshold = 6
CHECK_DEADLOCK FALSE
INVARIANT NoCodeInDoubt
