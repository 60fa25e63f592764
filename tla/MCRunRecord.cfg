SPECIFICATION Spec
CONSTANTS
  c1 = c1
  c2 = c2
  c3 = c3
  Plans <- MCPlans
  Content <- MCContent
  Outputs <- MCOutputs
  ArtifactOf <- MCArtifactOf
  TextOf <- MCTextOf
  SelfNamed <- MCSelfNamed
  MaxRetries <- MCMaxRetries
  MaxRepairs = 2
INVARIANTS
  AccountsAgree
  ProvenanceIsWhole
  InputsAreCurrent
  HistoryIsHonest
  RecoveryIsWhole
  BoardIsHonest
SYMMETRY Symmetry
CHECK_DEADLOCK FALSE
