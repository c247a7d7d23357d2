SPECIFICATION Spec
CONSTANTS
    MaxSeq = 4
    SegmentRecords = 3
    MaxCrash = 2
    Keep = "queue"
    MaxFailures = 1
INVARIANTS
    AcceptedIsRecoverable
    RecoveryIsExact
