--------------------------- MODULE MCSpeakerBook ---------------------------
(* SpeakerBook for the checker.  Voices, slots, names and operators are     *)
(* interchangeable: nothing chooses among them by what they are, and only   *)
(* invariants are checked.                                                  *)
EXTENDS SpeakerBook, TLC

Symmetry ==
    Permutations(Voices) \union Permutations(Slots) \union Permutations(Names)
        \union Permutations(Operators)
=============================================================================
