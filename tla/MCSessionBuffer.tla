--------------------------- MODULE MCSessionBuffer ---------------------------
(* SessionBuffer for TLC: the fault and mode choices of each run.          *)
EXTENDS SessionBuffer

NoFaults == {}
RefusedAtRecovery == {"open"}
OnlyTranscribing == {"s2t"}
BothModes == {"s2t", "record_only"}
=============================================================================
