SPECIFICATION GradingSpec
CONSTANTS
    NChecks = 2
    NoScore = NoScore
INVARIANTS HarnessDeathNeverScored
CHECK_DEADLOCK FALSE
