SPECIFICATION FairSpec
CONSTANTS
    Meetings = {a, b}
    MaxRestart = 1
    Races = {}
INVARIANTS
    StartedIsKept
    KeptIsListed
    DeletedStaysDeleted
PROPERTIES
    ShutdownEnds
