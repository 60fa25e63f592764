SPECIFICATION Spec
CONSTANTS
    Clock <- TwoReadings
    Bodies = {"plain", "split"}
    CrashCuts = {"nothing", "part", "char", "json", "all"}
    ErrorCuts = {"nothing", "part", "char", "json", "all"}
    MaxEmits = 4
    MaxCrashes = 2
INVARIANTS
    HonestLogPasses
    SeqsIncrease
    DamageIsReported
CHECK_DEADLOCK FALSE
