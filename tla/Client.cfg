SPECIFICATION FairSpec
CONSTANTS
    MaxMeetings = 2
    MaxFrames = 2
    Capacity = 1
    Packet = 2
    MaxFaults = 2
    Races = {}
INVARIANTS
    SpokenIsSent
    MicrophoneIsReleased
    RunningIsFollowed
PROPERTIES
    WaitsEnd
CHECK_DEADLOCK FALSE
