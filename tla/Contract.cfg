SPECIFICATION Spec
CONSTANTS
    Garbled = Garbled
    Ids = {1, 2, 3, 4}
    MaxAt = 2
    DefaultPage = 1
    MostPage = 2
    Stages = {"vad", "itn"}
    MaxEvents = 5
    Batch = 2
    KeepPerStage = 2
    TracePage = 1
    MaxCards = 2
    TraceRaces = {}
    Length = 5
    MaxEdits = 2
    Window = 2
    MaxWindows = 3
    ReviewRaces = {}
    HeaderRaces = {}
    Slots = {1, 2}
    Speakers = {0, 1}
    Names = {anna}
    LaneLockMax = 1
    DisplayLockMax = 2
    MaxRev = 3
    MaxGuess = 1
    ViewRaces = {}
INVARIANTS
    MessagesAgree
    EncodingsAreExact
    HeadersAgree
    CursorsLoseNothing
    PanelIsWhole
    NewestIsShown
PROPERTIES
    HoldsStill
CHECK_DEADLOCK FALSE
