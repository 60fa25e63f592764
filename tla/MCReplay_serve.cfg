SPECIFICATION ReplaySpec
CONSTANTS
    k1 = k1
    k2 = k2
    k3 = k3
    Stage = {n1, n2}
    Key = {k1, k2, k3}
    Text = {x, y}
    Skill <- MCSkill
    MaxCalls = 3
    MaxRequests = 3
INVARIANTS
    DriftIsReported
    FallbackInOrder
CHECK_DEADLOCK FALSE
