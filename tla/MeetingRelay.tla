---------------------------- MODULE MeetingRelay ----------------------------
(***************************************************************************)
(* One meeting end to end: the client's SessionWorker thread, the network, *)
(* the hub's answer to "which session is this?", and the SessionBuffer     *)
(* behind it.  SessionBuffer assumes a client that sends one packet at a   *)
(* time; here that client is code too, and the assumption is discharged.   *)
(*                                                                         *)
(* One call of the client is one action per outcome.  Any call may fail in *)
(* transport, before or after the server acted on it, and a request on a   *)
(* connection the client gave up on may still arrive later.                *)
(***************************************************************************)
EXTENDS Integers, Sequences, FiniteSets

CONSTANTS MaxSeq, Capacity, MaxRestart, MaxUnanswered, Faults, Modes

\* What SessionBuffer assumes of them.
ASSUME BoundsAssumption ==
    /\ MaxSeq \in Nat
    /\ Capacity \in Nat
    /\ MaxRestart \in Nat
    /\ MaxUnanswered \in Nat

ASSUME ChoicesAssumption ==
    /\ Faults \subseteq {"disk", "open"}
    /\ Modes \subseteq {"s2t", "record_only"}

VARIABLES
    mode, life, fpc, cur, queue, lastAccepted, journalFailed, fatal, stopReq, stopStatus,
    jPackets, jProgress, jStopped, jDead, delivered, acked, givenUp, rejected,
    stopAnswers, restarts, crashes, unanswered

VARIABLES
    cpc,       \* where the worker thread is
    seq,       \* m_seq
    userStop,  \* SessionWorker::m_stopRequested
    late,      \* packets on connections the client has given up on
    claimed    \* !(m_recovered && !m_clientReturned), on the server

B == INSTANCE SessionBuffer

buffer == <<mode, life, fpc, cur, queue, lastAccepted, journalFailed, fatal, stopReq, stopStatus,
            jPackets, jProgress, jStopped, jDead, delivered, acked, givenUp, rejected,
            stopAnswers, restarts, crashes, unanswered>>
client == <<cpc, seq, userStop, late>>
vars == <<buffer, client, claimed>>

Ended == {"stopped", "failed"}
ClientStates ==
    Ended \cup {"recording", "pushing", "resting", "stopping", "stopResting"}

Init ==
    /\ B!Init
    /\ cpc = "recording" /\ seq = 0 /\ userStop = FALSE /\ late = {}
    /\ claimed = TRUE

Goes(from, to) == cpc = from /\ cpc' = to

\* BufferHub::find.  A hub that is shutting down has cleared its sessions, but
\* a handler may have found this one just before.
NoSuchSession == life \in {"closing", "gone"}

-----------------------------------------------------------------------------
(* pushPacket.                                                             *)

NextPacket ==
    /\ seq < MaxSeq
    /\ Goes("recording", "pushing")
    /\ seq' = seq + 1
    /\ UNCHANGED <<userStop, late, claimed, buffer>>

\* Only a packet that is queued shows that the client came back.
PushAcked ==
    /\ Goes("pushing", "recording")
    /\ \/ B!PushAccept(seq, TRUE) /\ claimed' = TRUE
       \/ B!PushReplay(seq) /\ UNCHANGED claimed
    /\ UNCHANGED <<seq, userStop, late>>

\* The request is lost or overtaken by the deadline, or only its answer is.  A
\* session cancelled by a shutdown answers with a transport code as well.
PushUnheard ==
    /\ Goes("pushing", "resting")
    /\ \/ late' \in {late, late \cup {seq}} /\ UNCHANGED <<buffer, claimed>>
       \/ B!PushAccept(seq, FALSE) /\ claimed' = TRUE /\ UNCHANGED late
       \/ /\ \E landed, dead \in BOOLEAN : B!PushJournalFails(seq, landed, dead)
          /\ UNCHANGED <<late, claimed>>
    /\ UNCHANGED <<seq, userStop>>

\* push() answers with a code that is not a transport code.
Refuses(s) ==
    \/ B!Up /\ fatal = "rejected"
    \/ B!Up /\ fatal = "none" /\ (B!Finished \/ stopReq)
    \/ B!Accepting /\ s > lastAccepted /\ (journalFailed \/ ~B!HasRoom)

PushRefused ==
    /\ Goes("pushing", "failed")
    /\ \/ (Refuses(seq) \/ NoSuchSession) /\ UNCHANGED buffer
       \/ \E landed, dead \in BOOLEAN : B!PushJournalFails(seq, landed, dead)
    /\ UNCHANGED <<seq, userStop, late, claimed>>

\* Mutants: the packet that failed is skipped; a stop does not end the wait.
RetryWithTheNext ==
    /\ ~userStop
    /\ Goes("resting", "recording")
    /\ UNCHANGED <<seq, userStop, late, claimed, buffer>>
RetryForEver ==
    /\ Goes("resting", "pushing")
    /\ UNCHANGED <<seq, userStop, late, claimed, buffer>>

\* A new connection, 500 ms, and the same seq again.
Retry ==
    /\ ~userStop
    /\ Goes("resting", "pushing")
    /\ UNCHANGED <<seq, userStop, late, claimed, buffer>>

\* Stopped while waiting to reconnect: the worker ends without stop_session.
GiveUp ==
    /\ userStop
    /\ Goes("resting", "failed")
    /\ UNCHANGED <<seq, userStop, late, claimed, buffer>>

-----------------------------------------------------------------------------
(* runMicrophone, runFile and drainAndStop.                                *)

CaptureOverflows ==
    /\ ~userStop
    /\ Goes("recording", "failed")
    /\ UNCHANGED <<seq, userStop, late, claimed, buffer>>

\* The user stopped, or the file is at its end.
BeginStop ==
    /\ userStop \/ seq = MaxSeq
    /\ Goes("recording", "stopping")
    /\ UNCHANGED <<seq, userStop, late, claimed, buffer>>

StopReaches ==
    /\ cpc = "stopping"
    /\ B!RequestStop
    /\ UNCHANGED <<client, claimed>>

\* How the worker takes the stored answer: the tier's own failure may be of
\* either kind, a shutdown is a transport failure.  The mutant takes a session
\* that was interrupted for one that ended.
OutcomesUnlessError(status) == IF status = "error" THEN {"failed"} ELSE {"stopped"}
Outcomes(status) ==
    CASE status = "ok" -> {"stopped"}
      [] status = "unavailable" -> {"stopResting"}
      [] OTHER -> {"failed", "stopResting"}

StopAnswered ==
    /\ cpc = "stopping"
    /\ B!StopReply
    /\ cpc' \in Outcomes(stopStatus)
    /\ UNCHANGED <<seq, userStop, late, claimed>>

\* The request, or its answer, is lost, or the drain outlasts the deadline.
StopUnheard ==
    /\ Goes("stopping", "stopResting")
    /\ B!StopReply \/ UNCHANGED buffer
    /\ UNCHANGED <<seq, userStop, late, claimed>>

StopNotFound ==
    /\ NoSuchSession
    /\ Goes("stopping", "failed")
    /\ UNCHANGED <<seq, userStop, late, claimed, buffer>>

RetryStop ==
    /\ Goes("stopResting", "stopping")
    /\ UNCHANGED <<seq, userStop, late, claimed, buffer>>

\* kStopRetryBudgetMs is used up.
GiveUpStop ==
    /\ Goes("stopResting", "failed")
    /\ UNCHANGED <<seq, userStop, late, claimed, buffer>>

Worker ==
    \/ NextPacket \/ PushAcked \/ PushUnheard \/ PushRefused \/ Retry \/ GiveUp
    \/ BeginStop \/ StopReaches \/ StopAnswered \/ StopUnheard \/ StopNotFound
    \/ RetryStop \/ GiveUpStop

-----------------------------------------------------------------------------
(* Everybody else.                                                         *)

UserStops ==
    /\ cpc \notin Ended /\ ~userStop
    /\ userStop' = TRUE
    /\ UNCHANGED <<cpc, seq, late, claimed, buffer>>

\* The old connection delivers, to nobody's ears, or is closed.
LateArrives ==
    /\ \E s \in late :
         /\ late' = late \ {s}
         /\ \/ B!PushAccept(s, FALSE) /\ claimed' = TRUE
            \/ UNCHANGED <<buffer, claimed>>
    /\ UNCHANGED <<cpc, seq, userStop>>

\* BufferHub::reap: a recovered session nobody came back for is ended.
Reaper ==
    /\ life = "running" /\ ~claimed
    /\ B!RequestStop
    /\ UNCHANGED <<client, claimed>>

\* A recovered session waits to be claimed; connections end with the process.
Server(step) ==
    /\ step
    /\ claimed' = IF life = "down" /\ life' = "running" THEN FALSE ELSE claimed
    /\ late' = IF life' = "down" THEN {} ELSE late
    /\ UNCHANGED <<cpc, seq, userStop>>

Next ==
    \/ Worker \/ CaptureOverflows \/ UserStops \/ LateArrives \/ Reaper
    \/ Server(B!Forwarder) \/ Server(B!Process)

Spec == Init /\ [][Next]_vars

\* SessionBuffer's own fairness; the worker thread runs and its calls return;
\* the retry budget does run out; the reaper's timer fires.
Fairness ==
    /\ WF_vars(Server(B!Forwarder))
    /\ SF_vars(Server(B!Answered \/ B!Rejection))
    /\ WF_vars(Server(B!Restart))
    /\ WF_vars(Server(B!Exit))
    /\ WF_vars(Worker)
    /\ SF_vars(GiveUpStop)
    /\ WF_vars(Reaper)

FairSpec == Spec /\ Fairness

-----------------------------------------------------------------------------
(* Properties.                                                             *)

\* The client's variables have their types - the buffer's are SessionBuffer's -
\* and nothing is acknowledged or on its way that the client did not send.
TypeOK ==
    /\ cpc \in ClientStates
    /\ seq \in 0..MaxSeq
    /\ userStop \in BOOLEAN /\ claimed \in BOOLEAN
    /\ late \cup acked \subseteq 1..seq

\* The worker, its retries, its duplicates and the reaper are an environment
\* SessionBuffer allows: everything shown of it holds in the whole relay.
ImplementsBuffer == B!Spec

\* A worker that reports a stopped meeting had every packet it sent heard, or
\* given up by a rejection: no restart, retry or lost answer hides a loss.
StoppedMeansHeard == cpc = "stopped" => 1..seq \subseteq B!Heard \cup givenUp

\* Pressing stop ends the worker, whatever the network and the server do; and a
\* recovered meeting whose client is gone is ended by the server, unless a
\* request the client left behind claims it first (BufferHub::reap).
StopEndsTheWorker ==
    /\ userStop ~> cpc \in Ended
    /\ (life = "running" /\ ~claimed /\ cpc \in Ended)
         ~> (B!Finished \/ claimed \/ life # "running")

\* A restart is invisible to the client: what makes a push fail for good is
\* said by a session that is there.
RestartIsInvisible ==
    [][cpc = "pushing" /\ cpc' = "failed" => life = "running"]_vars
=============================================================================
