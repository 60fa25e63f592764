SPECIFICATION Spec
CONSTANTS
    Clock <- TwoReadings
    Bodies = {"plain"}
    CrashCuts = {"part"}
    ErrorCuts = {}
    MaxEmits = 3
    MaxCrashes = 2
INVARIANTS
    AcknowledgedSurvives
CHECK_DEADLOCK FALSE
