SPECIFICATION Spec
CONSTANTS
    MaxSeq = 2
    Capacity = 2
    MaxRestart = 1
    MaxUnanswered = 0
    Faults <- RefusedAtRecovery
    Modes <- OnlyTranscribing
INVARIANT AckedIsKept
