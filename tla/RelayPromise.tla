---------------------------- MODULE RelayPromise ----------------------------
(***************************************************************************)
(* What the relay promises about one meeting, with no queue, journal,      *)
(* thread or crash in it: an ACKed packet is a promise; promises are kept  *)
(* in order, unless the tier refused the meeting for good; and a meeting   *)
(* is closed only over kept or publicly broken promises, once and for all. *)
(***************************************************************************)
EXTENDS Integers

CONSTANT MaxSeq

VARIABLES
    promised,  \* packets whose ACK the client has received
    heard,     \* packets the tier (or, for record_only, the archive) has taken
    lost,      \* packets given up because the tier refused the meeting
    closed     \* a stop_session has been answered with the meeting's ending

promiseVars == <<promised, heard, lost, closed>>

Packets == 1..MaxSeq

Init ==
    /\ promised = {}
    /\ heard = {}
    /\ lost = {}
    /\ closed = FALSE

Promise(s) ==
    /\ ~closed
    /\ promised' = promised \cup {s}
    /\ UNCHANGED <<heard, lost, closed>>

\* A packet is heard for the first time only after every earlier packet.
Hear(s) ==
    /\ ~closed
    /\ \A t \in 1..(s - 1) : t \in heard
    /\ heard' = heard \cup {s}
    /\ UNCHANGED <<promised, lost, closed>>

GiveUp(S) ==
    /\ ~closed
    /\ lost' = lost \cup S
    /\ UNCHANGED <<promised, heard, closed>>

Close ==
    /\ promised \subseteq heard \cup lost
    /\ closed' = TRUE
    /\ UNCHANGED <<promised, heard, lost>>

Next ==
    \/ \E s \in Packets : Promise(s) \/ Hear(s)
    \/ \E S \in SUBSET Packets : GiveUp(S)
    \/ Close

Spec == Init /\ [][Next]_promiseVars
=============================================================================
