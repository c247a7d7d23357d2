\* A meeting may be left with nobody to end it: a worker that gives up while
\* reconnecting never calls stop_session, and a session that was not recovered
\* waits for it for ever.
SPECIFICATION FairSpec
CONSTANTS
    MaxSeq = 2
    Capacity = 1
    MaxRestart = 1
    MaxUnanswered = 0
    Faults <- DiskAndOpen
    Modes <- Transcribing
INVARIANTS
    StoppedMeansHeard
PROPERTIES
    ImplementsBuffer
    StopEndsTheWorker
CHECK_DEADLOCK FALSE
