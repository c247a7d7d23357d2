SPECIFICATION FairSpec
CONSTANTS
    N = 3
    Ticks = 2
    MaxFaults = 2
    Faults = {"break", "outage", "reject", "end", "garble"}
INVARIANTS
    AnswersAreOfThisStream
    TierHasWholeMeeting
PROPERTIES
    MeetingEnds
