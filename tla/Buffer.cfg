SPECIFICATION FairSpec
CONSTANTS
    MaxSeq = 3
    Capacity = 1
    MaxRestart = 2
    MaxUnanswered = 1
    Faults <- NoFaults
    Modes <- BothModes
INVARIANTS
    AckedIsKept
    HeardInOrder
    DrainBarrier
    RepeatsAreAccounted
    QueueMirrorsJournal
PROPERTIES
    ImplementsPromise
    EveryAckIsSettled
