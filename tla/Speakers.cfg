SPECIFICATION Spec
CONSTANTS
    Voices = {va, vb}
    Slots = {s0, s1}
    Names = {anna, binh}
    Operators = {o1, o2}
    MaxRename = 2
    MaxCrash = 1
    MaxPublish = 2
    MaxDelete = 1
    Races = {}
INVARIANTS
    OnlyVouchedIsShared
    NamesReachTheBook
    PublishedIsShared
SYMMETRY Symmetry
CHECK_DEADLOCK FALSE
