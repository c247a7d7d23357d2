--------------------------- MODULE MCMeetingRelay ---------------------------
(* MeetingRelay for TLC: the fault and mode choices of each run.           *)
EXTENDS MeetingRelay

DiskAndOpen == {"disk", "open"}
Transcribing == {"s2t"}
=============================================================================
