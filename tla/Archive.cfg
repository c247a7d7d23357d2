SPECIFICATION Spec
CONSTANTS
    Editors = {anna, binh}
    MaxHeard = 2
    MaxRestart = 1
    Races = {}
INVARIANTS
    AnsweredEditIsStored
    FinishedIsStored
PROPERTIES
    OnlyPeopleReplaceEdits
    EditsReplaceWhatWasSeen
