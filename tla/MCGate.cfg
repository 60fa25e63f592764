SPECIFICATION Spec
CONSTANTS
  Node = {"implement", "refactor-seam", "verify"}
  High = {"implement", "refactor-seam"}
  Executes = {"verify"}
  Script <- MCScript
  Breakable = {"privacy.pii_in_url"}
  MaxFacts = 3
  MaxFiles = 1
  MaxAsked = 2
INVARIANTS
  NoSilentConsent
  AddingNeverOpens
  SplitNeverCloses
CHECK_DEADLOCK FALSE
