SPECIFICATION Spec
CONSTANTS
  Call = {"c1", "c2"}
  Raw <- MCRaw
INVARIANTS
  OutcomeIsWhole
  IdKnownWhileStreaming
  NothingLeaksUnraced
PROPERTIES
  RemoteLifecycle
  EveryCallEnds
CHECK_DEADLOCK FALSE
