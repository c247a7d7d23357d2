------------------------- MODULE MeetingRelayProofs -------------------------
(***************************************************************************)
(* What holds of MeetingRelay for every number of packets, capacity and    *)
(* number of restarts, whatever the disk and the tier do: the worker, its  *)
(* retries and its duplicates are an environment SessionBuffer allows, and *)
(* so what SessionBufferProofs shows of the buffer holds in the relay; with *)
(* it, a stop that was answered means that everything was heard.           *)
(***************************************************************************)
EXTENDS MeetingRelay, TLAPS

\* The buffer again, with what is proved of it.
P == INSTANCE SessionBufferProofs

-----------------------------------------------------------------------------
(* The inductive invariant.                                                *)

\* The worker moves on only from an ACK: all packets before the one in hand are
\* acknowledged, and that one too unless it is still being pushed.
SentIsAcked ==
    /\ 1..(seq - 1) \subseteq acked
    /\ cpc \in {"recording", "stopping", "stopResting", "stopped"} => 1..seq \subseteq acked
    /\ cpc \in {"pushing", "resting"} => seq # 0

WorkerInv == TypeOK /\ SentIsAcked

-----------------------------------------------------------------------------
(* The two copies of the buffer are one.                                   *)

LEMMA SameRoom == B!HasRoom <=> P!HasRoom
<1>1. B!Cardinality(queue) = P!Cardinality(queue)
  BY DEF B!Cardinality, P!Cardinality
<1> QED
  BY <1>1 DEF B!HasRoom, P!HasRoom

LEMMA SameNext == B!Next <=> P!Next
BY SameRoom
   DEF B!Next, P!Next, B!vars, P!vars, B!memory, P!memory, B!disk, P!disk, B!verdicts, P!verdicts,
     B!counts, P!counts, B!Seqs, P!Seqs, B!ClientMayPush, P!ClientMayPush, B!Push, P!Push,
     B!PushReplay, P!PushReplay, B!PushAccept, P!PushAccept, B!PushJournalFails,
     P!PushJournalFails, B!Accepting, P!Accepting, B!Fresh, P!Fresh, B!Up, P!Up, B!Finished,
     P!Finished, B!RequestStop, P!RequestStop, B!StopReply, P!StopReply, B!Forwarder,
     P!Forwarder, B!OpenStream, P!OpenStream, B!Open, P!Open, B!OpenFails, P!OpenFails,
     B!Take, P!Take, B!IsLeast, P!IsLeast, B!BeginDrain, P!BeginDrain, B!SeeShutdown,
     P!SeeShutdown, B!Consume, P!Consume, B!Answered, P!Answered, B!CountUnanswered,
     P!CountUnanswered, B!PerhapsConsume, P!PerhapsConsume, B!TransportFailure,
     P!TransportFailure, B!Rejection, P!Rejection, B!RetryOrCancel, P!RetryOrCancel,
     B!LetGo, P!LetGo, B!Recorded, P!Recorded, B!Landing, P!Landing, B!SetFatal, P!SetFatal,
     B!Flush, P!Flush, B!EndSession, P!EndSession, B!Steps, P!Steps, B!Process, P!Process,
     B!Shutdown, P!Shutdown, B!Exit, P!Exit, B!Crash, P!Crash, B!LoseMemory, P!LoseMemory,
     B!Restart, P!Restart, B!RestartEnded, P!RestartEnded, B!RestartRecovers,
     P!RestartRecovers, B!RemoveJournal, P!RemoveJournal, B!HadEnded, P!HadEnded, B!Backlog,
     P!Backlog, B!IsHighest, P!IsHighest, B!Forget, P!Forget, B!Gone, P!Gone

LEMMA SameBuffer ==
    /\ B!Init <=> P!Init
    /\ [B!Next]_(B!vars) <=> [P!Next]_(P!vars)
    /\ B!TypeOK <=> P!TypeOK
    /\ B!DrainBarrier <=> P!DrainBarrier
<1>1. B!Init <=> P!Init
  BY DEF B!Init, P!Init
<1>2. B!vars = P!vars /\ B!vars' = P!vars'
  BY DEF B!vars, P!vars, B!memory, P!memory, B!disk, P!disk, B!verdicts, P!verdicts,
         B!counts, P!counts
<1>3. B!TypeOK <=> P!TypeOK
  BY DEF B!TypeOK, P!TypeOK, B!Lives, P!Lives, B!ForwarderStates, P!ForwarderStates,
         B!Holding, P!Holding, B!Up, P!Up, B!Seqs, P!Seqs, B!Statuses, P!Statuses
<1>4. B!DrainBarrier <=> P!DrainBarrier
  BY DEF B!DrainBarrier, P!DrainBarrier, B!Endings, P!Endings, B!Heard, P!Heard
<1> QED
  BY <1>1, <1>2, <1>3, <1>4, SameNext

\* What is proved of the buffer holds wherever the relay implements it.
LEMMA BufferFacts == ImplementsBuffer => [](B!TypeOK /\ B!DrainBarrier)
<1>1. P!Spec => []P!TypeOK
  BY P!TypeCorrect, BoundsAssumption, ChoicesAssumption, PTL
     DEF P!BoundsAssumption, P!ChoicesAssumption
<1>2. P!Spec => []P!DrainBarrier
  BY P!DrainIsABarrier, BoundsAssumption, ChoicesAssumption, PTL
     DEF P!BoundsAssumption, P!ChoicesAssumption
<1> QED
  BY SameBuffer, <1>1, <1>2, PTL DEF ImplementsBuffer, B!Spec, P!Spec

-----------------------------------------------------------------------------
(* The relay's steps are the buffer's.                                     *)

LEMMA IdleBuffer == UNCHANGED buffer => [B!Next]_(B!vars)
BY DEF buffer, B!vars, B!memory, B!disk, B!verdicts, B!counts

\* The worker pushes only what the buffer expects of its client.
LEMMA PushIsAllowed ==
    ASSUME TypeOK, SentIsAcked, NEW s \in 1..seq, B!Push(s)
    PROVE  B!Next
<1>1. s \in B!Seqs /\ B!ClientMayPush(s)
  BY BoundsAssumption DEF TypeOK, SentIsAcked, B!Seqs, B!ClientMayPush
<1> QED
  BY <1>1 DEF B!Next

LEMMA StepsAreBuffers ==
    ASSUME TypeOK, SentIsAcked, [Next]_vars
    PROVE  [B!Next]_(B!vars)
<1>1. CASE UNCHANGED vars
  BY <1>1, IdleBuffer DEF vars
<1>2. CASE NextPacket \/ Retry \/ GiveUp \/ BeginStop \/ StopNotFound \/ RetryStop \/ GiveUpStop
           \/ CaptureOverflows \/ UserStops
  BY <1>2, IdleBuffer DEF NextPacket, Retry, GiveUp, BeginStop, StopNotFound, RetryStop, GiveUpStop,
     CaptureOverflows, UserStops
<1>3. CASE PushAcked \/ PushUnheard \/ PushRefused
  <2>1. seq \in 1..seq
    <3>1. cpc = "pushing"
      BY <1>3 DEF PushAcked, PushUnheard, PushRefused, Goes
    <3> QED
      BY <3>1, BoundsAssumption DEF TypeOK, SentIsAcked
  <2>2. UNCHANGED buffer \/ B!Push(seq)
    BY <1>3 DEF PushAcked, PushUnheard, PushRefused, B!Push
  <2> QED
    BY <2>1, <2>2, IdleBuffer, PushIsAllowed
<1>4. CASE LateArrives
  <2>1. PICK s \in late : UNCHANGED buffer \/ B!PushAccept(s, FALSE)
    BY <1>4 DEF LateArrives
  <2>2. s \in 1..seq
    BY DEF TypeOK
  <2> QED
    BY <2>1, <2>2, IdleBuffer, PushIsAllowed DEF B!Push
<1>5. CASE StopReaches \/ StopAnswered \/ StopUnheard \/ Reaper
  BY <1>5, IdleBuffer DEF StopReaches, StopAnswered, StopUnheard, Reaper, B!Next
<1>6. CASE Server(B!Forwarder) \/ Server(B!Process)
  BY <1>6 DEF Server, B!Next
<1> QED
  BY <1>1, <1>2, <1>3, <1>4, <1>5, <1>6 DEF Next, Worker

-----------------------------------------------------------------------------
(* The invariant, step by step.                                            *)

\* ACKs are only ever added.
LEMMA AcksGrow == ASSUME [B!Next]_(B!vars) PROVE acked \subseteq acked'
BY DEF B!Next, B!vars, B!memory, B!disk, B!verdicts, B!counts, B!Push, B!PushReplay, B!PushAccept,
   B!PushJournalFails, B!RequestStop, B!StopReply, B!Forwarder, B!OpenStream, B!Open, B!OpenFails,
   B!Take, B!BeginDrain, B!SeeShutdown, B!Answered,
   B!TransportFailure, B!Rejection, B!RetryOrCancel, B!Recorded, B!SetFatal, B!Flush, B!EndSession,
   B!Process, B!Shutdown, B!Exit, B!Crash, B!LoseMemory, B!Restart, B!RestartEnded,
   B!RestartRecovers, B!Forget, B!Gone

\* Nobody but the worker's pushes makes ACKs.
LEMMA OthersDoNotAck ==
    ASSUME B!Forwarder \/ B!Process \/ B!RequestStop \/ B!StopReply
    PROVE  acked' = acked
BY DEF B!RequestStop, B!StopReply, B!Forwarder, B!OpenStream, B!Open, B!OpenFails,
   B!Take, B!BeginDrain, B!SeeShutdown, B!Answered, B!TransportFailure, B!Rejection,
   B!RetryOrCancel, B!Recorded, B!SetFatal, B!Flush, B!EndSession, B!Process, B!Shutdown, B!Exit,
   B!Crash, B!LoseMemory, B!Restart, B!RestartEnded, B!RestartRecovers, B!Forget

LEMMA WorkerStep == ASSUME WorkerInv, [Next]_vars PROVE WorkerInv'
<1> USE BoundsAssumption DEF WorkerInv, TypeOK, SentIsAcked, ClientStates, Ended
<1>0. acked \subseteq acked'
  BY StepsAreBuffers, AcksGrow
<1>1. CASE UNCHANGED vars
  BY <1>0, <1>1 DEF vars, client, buffer
<1>2. CASE NextPacket
  BY <1>0, <1>2 DEF NextPacket, Goes, buffer
<1>3. CASE PushAcked
  <2>1. /\ cpc = "pushing" /\ cpc' = "recording" /\ acked' = acked \cup {seq}
        /\ UNCHANGED <<seq, userStop, late>> /\ claimed' \in BOOLEAN
    BY <1>3 DEF PushAcked, Goes, B!PushAccept, B!PushReplay
  <2>2. seq \in 1..seq /\ 1..seq \subseteq 1..(seq - 1) \cup {seq}
    BY <2>1
  <2> QED
    BY <1>0, <2>1, <2>2
<1>4. CASE PushUnheard
  <2>1. /\ cpc = "pushing" /\ cpc' = "resting" /\ acked' = acked
        /\ UNCHANGED <<seq, userStop>> /\ claimed' \in BOOLEAN
        /\ late' \in {late, late \cup {seq}}
    BY <1>4 DEF PushUnheard, Goes, buffer, B!PushAccept, B!PushJournalFails
  <2>2. seq \in 1..seq
    BY <2>1
  <2> QED
    BY <1>0, <2>1, <2>2
<1>5. CASE PushRefused
  BY <1>0, <1>5 DEF PushRefused, Goes, buffer, B!PushJournalFails
<1>6. CASE Retry \/ GiveUp \/ BeginStop \/ StopNotFound \/ RetryStop \/ GiveUpStop
           \/ CaptureOverflows
  BY <1>0, <1>6 DEF Retry, GiveUp, BeginStop, StopNotFound, RetryStop, GiveUpStop,
     CaptureOverflows, Goes, buffer
<1>7. CASE UserStops
  BY <1>0, <1>7 DEF UserStops, buffer
<1>8. CASE StopReaches \/ Reaper
  BY <1>0, <1>8, OthersDoNotAck DEF StopReaches, Reaper, client
<1>9. CASE StopAnswered
  BY <1>0, <1>9, OthersDoNotAck DEF StopAnswered, Outcomes
<1>10. CASE StopUnheard
  BY <1>0, <1>10, OthersDoNotAck DEF StopUnheard, Goes, buffer
<1>11. CASE LateArrives
  BY <1>0, <1>11 DEF LateArrives, buffer, B!PushAccept
<1>12. CASE Server(B!Forwarder) \/ Server(B!Process)
  BY <1>0, <1>12, OthersDoNotAck DEF Server
<1> QED
  BY <1>1, <1>2, <1>3, <1>4, <1>5, <1>6, <1>7, <1>8, <1>9, <1>10, <1>11, <1>12
     DEF Next, Worker

\* What was heard and what was given up only grow.
LEMMA HistoryGrows ==
    ASSUME B!TypeOK, [B!Next]_(B!vars)
    PROVE  B!Heard \subseteq B!Heard' /\ givenUp \subseteq givenUp'
<1>1. delivered \in Seq(B!Seqs) /\ cur \in Nat
  BY BoundsAssumption DEF B!TypeOK
<1>2. delivered' = delivered \/ delivered' = Append(delivered, cur)
  BY DEF B!Next, B!vars, B!memory, B!disk, B!verdicts, B!counts, B!Push, B!PushReplay, B!PushAccept,
     B!PushJournalFails, B!RequestStop, B!StopReply, B!Forwarder, B!OpenStream, B!Open, B!OpenFails,
     B!Take, B!BeginDrain, B!SeeShutdown, B!Consume, B!Answered, B!PerhapsConsume,
     B!TransportFailure, B!Rejection, B!RetryOrCancel, B!Recorded, B!SetFatal, B!Flush, B!EndSession,
     B!Process, B!Shutdown, B!Exit, B!Crash, B!LoseMemory, B!Restart, B!RestartEnded,
     B!RestartRecovers, B!Forget, B!Gone
<1>3. givenUp \subseteq givenUp'
  BY DEF B!Next, B!vars, B!memory, B!disk, B!verdicts, B!counts, B!Push, B!PushReplay, B!PushAccept,
     B!PushJournalFails, B!RequestStop, B!StopReply, B!Forwarder, B!OpenStream, B!Open, B!OpenFails,
     B!Take, B!BeginDrain, B!SeeShutdown, B!Answered,
     B!TransportFailure, B!Rejection, B!RetryOrCancel, B!Recorded, B!SetFatal, B!Flush, B!EndSession,
     B!Process, B!Shutdown, B!Exit, B!Crash, B!LoseMemory, B!Restart, B!RestartEnded,
     B!RestartRecovers, B!Forget, B!Gone
<1>4. CASE delivered' = delivered
  BY <1>3, <1>4 DEF B!Heard
<1>5. CASE delivered' = Append(delivered, cur)
  <2>1. \A i \in DOMAIN delivered : i \in DOMAIN delivered' /\ delivered'[i] = delivered[i]
    BY <1>1, <1>5
  <2> QED
    BY <1>3, <2>1 DEF B!Heard
<1> QED
  BY <1>2, <1>4, <1>5

\* The worker learns of an ending from the answer that stores it, and nothing that
\* was heard or given up by then is forgotten.
LEMMA StoppedStep ==
    ASSUME WorkerInv, StoppedMeansHeard, B!TypeOK, B!DrainBarrier, [Next]_vars
    PROVE  StoppedMeansHeard'
<1>1. B!Heard \subseteq B!Heard' /\ givenUp \subseteq givenUp'
  BY StepsAreBuffers, HistoryGrows DEF WorkerInv
<1>2. CASE StopAnswered
  <2>1. cpc' = "stopped" => stopStatus = "ok"
    BY <1>2 DEF StopAnswered, Outcomes
  <2>2. cpc' = "stopped" => 1..seq \subseteq B!Heard \cup givenUp
    BY <1>2, <2>1 DEF StopAnswered, WorkerInv, SentIsAcked, B!DrainBarrier, B!Endings
  <2> QED
    BY <1>1, <1>2, <2>2 DEF StopAnswered, StoppedMeansHeard
<1>3. CASE ~StopAnswered
  <2>1. cpc' = "stopped" => cpc = "stopped" /\ seq' = seq
    BY <1>3 DEF Next, Worker, NextPacket, PushAcked, PushUnheard, PushRefused, Retry, GiveUp, BeginStop,
       StopReaches, StopUnheard, StopNotFound, RetryStop, GiveUpStop, CaptureOverflows, UserStops,
       LateArrives, Reaper, Server, Goes, client, vars, Ended
  <2> QED
    BY <1>1, <2>1 DEF StoppedMeansHeard
<1> QED
  BY <1>2, <1>3

-----------------------------------------------------------------------------
(* What follows, for every value of the constants.                         *)

LEMMA WorkerInvariance == Spec => []WorkerInv
<1>1. Init => WorkerInv
  <2> SUFFICES ASSUME Init PROVE WorkerInv
    OBVIOUS
  <2>1. seq = 0 /\ acked = {} /\ late = {} /\ cpc = "recording" /\ userStop = FALSE /\ claimed = TRUE
    BY DEF Init, B!Init
  <2>2. 1..seq = {} /\ 1..(seq - 1) = {} /\ seq \in 0..MaxSeq
    BY <2>1, BoundsAssumption
  <2> QED
    BY <2>1, <2>2 DEF WorkerInv, TypeOK, SentIsAcked, ClientStates
<1>2. WorkerInv /\ [Next]_vars => WorkerInv'
  BY WorkerStep
<1> QED
  BY <1>1, <1>2, PTL DEF Spec

\* Types hold in every reachable state, and no ACK is made up.
THEOREM RelayTypeCorrect == Spec => []TypeOK
BY WorkerInvariance, PTL DEF WorkerInv

\* The worker, its retries, its duplicates, the reaper and the network are an
\* environment SessionBuffer allows: every safety property of the buffer is one of
\* the whole relay.
THEOREM RelayImplementsBuffer == Spec => ImplementsBuffer
<1>1. Init => B!Init
  BY DEF Init
<1>2. WorkerInv /\ [Next]_vars => [B!Next]_(B!vars)
  BY StepsAreBuffers DEF WorkerInv
<1> QED
  BY WorkerInvariance, <1>1, <1>2, PTL DEF Spec, ImplementsBuffer, B!Spec

\* A worker that reports a stopped meeting had every packet it sent heard, or given
\* up by a rejection, whatever restarts, retries, lost answers and faults of the
\* disk came before.
THEOREM StopIsTruthful == Spec => []StoppedMeansHeard
<1>1. Init => StoppedMeansHeard
  BY DEF Init, StoppedMeansHeard
<1>2. WorkerInv /\ StoppedMeansHeard /\ B!TypeOK /\ B!DrainBarrier /\ [Next]_vars
        => StoppedMeansHeard'
  BY StoppedStep
<1> QED
  BY WorkerInvariance, RelayImplementsBuffer, BufferFacts, <1>1, <1>2, PTL DEF Spec
=============================================================================
