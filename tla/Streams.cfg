SPECIFICATION Spec
CONSTANTS
    Voices = {va, vb}
    Slots = {s0, s1}
    Names = {anna, binh}
    Operators = {o1}
    MaxRename = 1
    MaxCrash = 1
    MaxPublish = 1
    MaxDelete = 0
    Races = {"streams"}
INVARIANT OnlyVouchedIsShared
SYMMETRY Symmetry
CHECK_DEADLOCK FALSE
