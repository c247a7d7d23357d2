---------------------------- MODULE SessionBuffer ----------------------------
(***************************************************************************)
(* One meeting inside s2t-qt-server: the durable queue of SessionBuffer,   *)
(* the forwarder thread that empties it into the inference tier, and what  *)
(* survives of both on disk when the process dies and comes back.          *)
(*                                                                         *)
(* Actors: connection threads calling push() and stop(), the forwarder     *)
(* thread in run()/runRecordOnly(), the hub's reaper and shutdown, and the *)
(* tier.  One critical section of m_mutex is one action; so is one round   *)
(* trip to the tier.                                                       *)
(*                                                                         *)
(* A packet is its seq.  push() only appends seqs above m_lastAcceptedSeq  *)
(* and recovery sorts the backlog, so the queue is always in ascending     *)
(* order and a set of seqs describes it: takeFirst() takes the least.      *)
(* Packets have one size, so capacityBytes is a number of packets.         *)
(***************************************************************************)
EXTENDS Integers, Sequences, FiniteSets

CONSTANTS
    MaxSeq,         \* bound: packets the client may send in this meeting
    Capacity,       \* capacityBytes / packet size
    MaxRestart,     \* bound: times the server process goes down
    MaxUnanswered,  \* bound: packets the tier consumes without answering OK
    Faults,         \* what may go wrong besides the tier: "disk", "open"
    Modes           \* meeting modes to start with: "s2t", "record_only"

ASSUME BoundsAssumption ==
    /\ MaxSeq \in Nat
    /\ Capacity \in Nat
    /\ MaxRestart \in Nat
    /\ MaxUnanswered \in Nat

ASSUME ChoicesAssumption ==
    /\ Faults \subseteq {"disk", "open"}
    /\ Modes \subseteq {"s2t", "record_only"}

VARIABLES
    mode,          \* m_config.recordOnly, fixed for the meeting
    life,          \* the process and this session's place in its hub
    fpc,           \* where the forwarder thread is
    cur,           \* the packet it holds, 0 for none
    queue,         \* m_queue
    lastAccepted,  \* m_lastAcceptedSeq
    journalFailed, \* m_journalFailed
    fatal,         \* m_haveFatal and the kind of m_fatal
    stopReq,       \* m_stopRequested
    stopStatus,    \* m_stopStatus; "none" is !m_stopDone, and so !m_finished
    jPackets,      \* Packet records a recovery would read back
    jProgress,     \* highest Progress record a recovery would read back
    jStopped,      \* whether it would read a Stopped record
    jDead,         \* later records are lost: journal closed, or behind a tear
    delivered,     \* history: what the tier or the archive consumed, in order
    acked,         \* history: packets whose OK reached the client
    givenUp,       \* history: packets dropped because of a rejection
    rejected,      \* history: packets the tier rejected for good
    stopAnswers,   \* history: answers stop() returned to the client
    restarts,      \* times the process has gone down, bounded
    crashes,       \* those where the forwarder did not get to exit
    unanswered     \* packets consumed without an OK, bounded

memory == <<fpc, cur, queue, lastAccepted, journalFailed, fatal, stopReq, stopStatus>>
disk == <<jPackets, jProgress, jStopped, jDead>>
verdicts == <<givenUp, rejected>>
counts == <<restarts, crashes, unanswered>>
vars == <<mode, life, memory, disk, delivered, acked, verdicts, stopAnswers, counts>>

Seqs == 1..MaxSeq
Lives == {"running", "closing", "down", "gone"}
Holding == {"pushing", "answered", "pausing", "rejected", "cancelled"}
ForwarderStates ==
    Holding \cup {"opening", "waiting", "flushing", "flushed", "flushFailed", "exited"}
Statuses == {"none", "ok", "error", "unavailable", "unopened"}
Endings == {"ok", "error"}

Heard == {delivered[i] : i \in DOMAIN delivered}
Finished == stopStatus # "none"
Up == life \in {"running", "closing"}

\* Mutants: recovery that re-reads the packet at the watermark, or nothing.
BacklogFromWatermark == {s \in jPackets : s >= jProgress}
NoBacklog == {}

\* store::recover: the packets a restart would put back in the queue.
Backlog == {s \in jPackets : s > jProgress}

\* Recovered::stopped.
HadEnded == jStopped

\* takeFirst(); the mutant takes the newest packet first.
IsNewest(s, S) == s \in S /\ \A t \in S : t <= s
IsLeast(s, S) == s \in S /\ \A t \in S : s <= t
IsHighest(m, S) == m \in S \cup {0} /\ \A t \in S : t <= m

\* Did a record just appended reach a place recovery will read?
Landing == {b \in BOOLEAN : IF b THEN ~jDead ELSE jDead \/ "disk" \in Faults}

Init ==
    /\ mode \in Modes
    /\ life = "running"
    /\ fpc = "waiting" /\ cur = 0 /\ queue = {} /\ lastAccepted = 0
    /\ journalFailed = FALSE /\ fatal = "none"
    /\ stopReq = FALSE /\ stopStatus = "none"
    /\ jPackets = {} /\ jProgress = 0 /\ jStopped = FALSE /\ jDead = FALSE
    /\ delivered = <<>> /\ acked = {} /\ givenUp = {} /\ rejected = {}
    /\ stopAnswers = {}
    /\ restarts = 0 /\ crashes = 0 /\ unanswered = 0

-----------------------------------------------------------------------------
(* push(), on a connection thread, under m_mutex.                          *)

\* A refusal changes nothing, so refusals are not actions.
\* The mutant does not look at the stop flag.
AcceptingUntilFinished == Up /\ fatal = "none" /\ ~Finished
Accepting == Up /\ fatal = "none" /\ ~Finished /\ ~stopReq

\* The client had this seq acknowledged before, or the first OK was lost.
PushReplay(s) ==
    /\ Accepting
    /\ s <= lastAccepted
    /\ acked' = acked \cup {s}
    /\ UNCHANGED <<mode, life, memory, disk, delivered, verdicts, stopAnswers, counts>>

\* A new seq, on a journal that has not failed.
Fresh(s) == Accepting /\ s > lastAccepted /\ ~journalFailed

HasRoomOffByOne == Cardinality(queue) <= Capacity
HasRoom == Cardinality(queue) < Capacity

\* On disk, in the queue, and ACKed; the ACK itself may be lost on the way.
PushAccept(s, ackArrives) ==
    /\ Fresh(s)
    /\ HasRoom
    /\ jPackets' = IF jDead THEN jPackets ELSE jPackets \cup {s}
    /\ queue' = queue \cup {s}
    /\ lastAccepted' = s
    /\ acked' = IF ackArrives THEN acked \cup {s} ELSE acked
    /\ UNCHANGED <<mode, life, fpc, cur, journalFailed, fatal, stopReq, stopStatus,
                   jProgress, jStopped, jDead, delivered, verdicts, stopAnswers, counts>>

\* appendPacket failed.  The record may still be in the file (a failed fsync,
\* a buffer flushed later), may be absent, or may have left the journal
\* unusable: closed by a rotation that could not open the next segment, or torn.
PushJournalFails(s, landed, dead) ==
    /\ "disk" \in Faults
    /\ Fresh(s)
    /\ HasRoom
    /\ ~(landed /\ dead)
    /\ journalFailed' = TRUE
    /\ jPackets' = IF landed /\ ~jDead THEN jPackets \cup {s} ELSE jPackets
    /\ jDead' = (jDead \/ dead)
    /\ UNCHANGED <<mode, life, fpc, cur, queue, lastAccepted, fatal, stopReq, stopStatus,
                   jProgress, jStopped, delivered, acked, verdicts, stopAnswers, counts>>

-----------------------------------------------------------------------------
(* requestStop() from the reaper, and both halves of stop().               *)

RequestStop ==
    /\ Up /\ ~Finished /\ ~stopReq
    /\ stopReq' = TRUE
    /\ UNCHANGED <<mode, life, fpc, cur, queue, lastAccepted, journalFailed, fatal, stopStatus,
                   disk, delivered, acked, verdicts, stopAnswers, counts>>

StopReply ==
    /\ Up /\ Finished
    /\ stopAnswers' = stopAnswers \cup {stopStatus}
    /\ UNCHANGED <<mode, life, memory, disk, delivered, acked, verdicts, counts>>

-----------------------------------------------------------------------------
(* The forwarder thread: run(), runRecordOnly() and forward().             *)

Steps(from, to) == Up /\ fpc = from /\ fpc' = to

Open ==
    /\ Steps("opening", "waiting")
    /\ UNCHANGED <<mode, life, cur, queue, lastAccepted, journalFailed, fatal, stopReq, stopStatus,
                   disk, delivered, acked, verdicts, stopAnswers, counts>>

\* The tier did not open a stream: finished before it began, queue and all.
OpenFails ==
    /\ "open" \in Faults /\ mode = "s2t"
    /\ Steps("opening", "exited")
    /\ stopStatus' = "unopened"
    /\ UNCHANGED <<mode, life, cur, queue, lastAccepted, journalFailed, fatal, stopReq,
                   disk, delivered, acked, verdicts, stopAnswers, counts>>

\* backend->open: one call, two outcomes.
OpenStream == fpc = "opening" /\ (Open \/ OpenFails)

\* The mutant writes the Progress record before the packet is forwarded.
TakeRecordingFirst ==
    /\ life = "running"
    /\ Steps("waiting", "pushing")
    /\ \E s \in queue :
         /\ IsLeast(s, queue)
         /\ cur' = s /\ jProgress' = s
         /\ queue' = queue \ {s}
    /\ UNCHANGED <<mode, life, lastAccepted, journalFailed, fatal, stopReq, stopStatus,
                   jPackets, jStopped, jDead, delivered, acked, verdicts, stopAnswers, counts>>

\* The shutdown flag is tested before the queue is.
Take ==
    /\ life = "running"
    /\ Steps("waiting", "pushing")
    /\ \E s \in queue :
         /\ IsLeast(s, queue)
         /\ cur' = s
         /\ queue' = queue \ {s}
    /\ UNCHANGED <<mode, life, lastAccepted, journalFailed, fatal, stopReq, stopStatus,
                   disk, delivered, acked, verdicts, stopAnswers, counts>>

\* Queue empty and a stop asked for: the drain barrier.
BeginDrain ==
    /\ life = "running" /\ queue = {} /\ stopReq
    /\ Steps("waiting", "flushing")
    /\ UNCHANGED <<mode, life, cur, queue, lastAccepted, journalFailed, fatal, stopReq, stopStatus,
                   disk, delivered, acked, verdicts, stopAnswers, counts>>

\* Interrupted, not over: no Stopped record is written.
SeeShutdown ==
    /\ life = "closing"
    /\ Steps("waiting", "exited")
    /\ stopStatus' = "unavailable"
    /\ UNCHANGED <<mode, life, cur, queue, lastAccepted, journalFailed, fatal, stopReq,
                   disk, delivered, acked, verdicts, stopAnswers, counts>>

Consume == delivered' = Append(delivered, cur)

\* The tier answered OK - or, in record_only, the archive has the audio.
Answered ==
    /\ Steps("pushing", "answered")
    /\ Consume
    /\ UNCHANGED <<mode, life, cur, queue, lastAccepted, journalFailed, fatal, stopReq, stopStatus,
                   disk, acked, verdicts, stopAnswers, counts>>

CountUnanswered ==
    /\ unanswered < MaxUnanswered
    /\ unanswered' = unanswered + 1
    /\ UNCHANGED <<restarts, crashes>>

\* A transport failure or a rejection may come after the tier used the audio.
PerhapsConsume ==
    \/ UNCHANGED <<delivered, counts>>
    \/ Consume /\ CountUnanswered

TransportFailure ==
    /\ mode = "s2t"
    /\ Steps("pushing", "pausing")
    /\ PerhapsConsume
    /\ UNCHANGED <<mode, life, cur, queue, lastAccepted, journalFailed, fatal, stopReq, stopStatus,
                   disk, acked, verdicts, stopAnswers>>

Rejection ==
    /\ mode = "s2t"
    /\ Steps("pushing", "rejected")
    /\ PerhapsConsume
    /\ UNCHANGED <<mode, life, cur, queue, lastAccepted, journalFailed, fatal, stopReq, stopStatus,
                   disk, acked, verdicts, stopAnswers>>

\* Reset the session, pause, and push the same packet again - unless the
\* process is shutting down, which ends the attempt.
RetryOrCancel ==
    /\ \/ life = "running" /\ Steps("pausing", "pushing")
       \/ life = "closing" /\ Steps("pausing", "cancelled")
    /\ UNCHANGED <<mode, life, cur, queue, lastAccepted, journalFailed, fatal, stopReq, stopStatus,
                   disk, delivered, acked, verdicts, stopAnswers, counts>>

\* The packet's local goes out of scope.
LetGo == cur' = 0

\* The Progress record, after the tier's answer; losing it is only a warning.
Recorded ==
    /\ Steps("answered", "waiting")
    /\ LetGo
    /\ \E landed \in Landing :
         jProgress' = IF landed /\ cur > jProgress THEN cur ELSE jProgress
    /\ UNCHANGED <<mode, life, queue, lastAccepted, journalFailed, fatal, stopReq, stopStatus,
                   jPackets, jStopped, jDead, delivered, acked, verdicts, stopAnswers, counts>>

\* forward() returned false: the failure becomes the session's, and the queue
\* is dropped.  Only a rejection is the meeting's end; a cancellation leaves
\* the packets to the journal and the next start.
SetFatal ==
    /\ fpc \in {"rejected", "cancelled"}
    /\ Steps(fpc, "waiting")
    /\ fatal' = fpc
    /\ LetGo
    /\ queue' = {}
    /\ IF fpc = "rejected"
         THEN /\ rejected' = rejected \cup {cur}
              /\ givenUp' = givenUp \cup queue \cup {cur}
         ELSE UNCHANGED verdicts
    /\ UNCHANGED <<mode, life, lastAccepted, journalFailed, stopReq, stopStatus,
                   disk, delivered, acked, stopAnswers, counts>>

\* BackendSession::finish and the archive's copy of the ending.
Flush ==
    /\ \/ Steps("flushing", "flushed")
       \/ mode = "s2t" /\ Steps("flushing", "flushFailed")
    /\ UNCHANGED <<mode, life, cur, queue, lastAccepted, journalFailed, fatal, stopReq, stopStatus,
                   disk, delivered, acked, verdicts, stopAnswers, counts>>

\* The stored stop answer and the Stopped record, in one critical section.
EndSession ==
    /\ fpc \in {"flushed", "flushFailed"}
    /\ Steps(fpc, "exited")
    /\ stopStatus' = IF fpc = "flushed" THEN "ok" ELSE "error"
    /\ \E landed \in Landing : jStopped' = landed
    /\ UNCHANGED <<mode, life, cur, queue, lastAccepted, journalFailed, fatal, stopReq,
                   jPackets, jProgress, jDead, delivered, acked, verdicts, stopAnswers, counts>>

-----------------------------------------------------------------------------
(* The process around the session: BufferHub and main().                   *)

\* BufferHub::shutdown: the session leaves the hub and its flag is set.
Shutdown ==
    /\ life = "running" /\ restarts < MaxRestart
    /\ life' = "closing"
    /\ restarts' = restarts + 1
    /\ UNCHANGED <<mode, memory, disk, delivered, acked, verdicts, stopAnswers, crashes, unanswered>>

LoseMemory ==
    /\ life' = "down"
    /\ fpc' = "exited" /\ cur' = 0 /\ queue' = {} /\ lastAccepted' = 0
    /\ journalFailed' = FALSE /\ fatal' = "none"
    /\ stopReq' = FALSE /\ stopStatus' = "none"
    /\ UNCHANGED <<mode, disk, delivered, acked, verdicts, stopAnswers, unanswered>>

\* The destructor joins the forwarder, or terminates it after 15 s.
Exit ==
    /\ life = "closing"
    /\ LoseMemory
    /\ crashes' = IF fpc = "exited" THEN crashes ELSE crashes + 1
    /\ UNCHANGED restarts

Crash ==
    /\ life = "running" /\ restarts < MaxRestart
    /\ LoseMemory
    /\ restarts' = restarts + 1
    /\ crashes' = crashes + 1

RemoveJournal ==
    /\ life' = "gone"
    /\ jPackets' = {} /\ jProgress' = 0 /\ jStopped' = FALSE /\ jDead' = FALSE

\* recoverSessions finds a Stopped record: the journal is removed.
RestartEnded ==
    /\ life = "down" /\ HadEnded
    /\ RemoveJournal
    /\ UNCHANGED <<mode, memory, delivered, acked, verdicts, stopAnswers, counts>>

\* The recovery constructor: queue and watermark back from disk, and a new
\* segment to append to.  If that segment cannot be opened the backlog is
\* still delivered, but nothing new is accepted.
RestartRecovers(reopened) ==
    /\ life = "down" /\ ~HadEnded
    /\ reopened \/ "disk" \in Faults
    /\ life' = "running"
    /\ fpc' = "opening"
    /\ queue' = Backlog
    /\ \E m \in 0..MaxSeq : IsHighest(m, jPackets) /\ lastAccepted' = m
    /\ journalFailed' = ~reopened
    /\ jDead' \in IF reopened THEN {FALSE} ELSE BOOLEAN
    /\ UNCHANGED <<mode, cur, fatal, stopReq, stopStatus, jPackets, jProgress, jStopped,
                   delivered, acked, verdicts, stopAnswers, counts>>

\* BufferHub::forget, some time after the session finished.
Forget ==
    /\ life = "running" /\ Finished
    /\ RemoveJournal
    /\ fpc' = "exited" /\ cur' = 0 /\ queue' = {} /\ lastAccepted' = 0
    /\ journalFailed' = FALSE /\ fatal' = "none"
    /\ stopReq' = FALSE /\ stopStatus' = "none"
    /\ UNCHANGED <<mode, delivered, acked, verdicts, stopAnswers, counts>>

\* Nothing is left to happen to a meeting whose journal is gone.
Gone == life = "gone" /\ UNCHANGED vars

-----------------------------------------------------------------------------
\* SessionWorker: one packet at a time, the next seq only after an OK; a
\* duplicate of an old request may still arrive on a connection it gave up on.
ClientMayPush(s) == 1..(s - 1) \subseteq acked

Push(s) ==
    \/ PushReplay(s)
    \/ \E ackArrives \in BOOLEAN : PushAccept(s, ackArrives)
    \/ \E landed, dead \in BOOLEAN : PushJournalFails(s, landed, dead)

Forwarder ==
    \/ OpenStream \/ Take \/ BeginDrain \/ SeeShutdown
    \/ Answered \/ TransportFailure \/ Rejection \/ RetryOrCancel
    \/ Recorded \/ SetFatal \/ Flush \/ EndSession

Restart == RestartEnded \/ \E reopened \in BOOLEAN : RestartRecovers(reopened)

Process == Shutdown \/ Exit \/ Crash \/ Restart \/ Forget

Next ==
    \/ \E s \in Seqs : ClientMayPush(s) /\ Push(s)
    \/ RequestStop \/ StopReply
    \/ Forwarder
    \/ Process
    \/ Gone

Spec == Init /\ [][Next]_vars

\* The forwarder thread runs; the tier is not away for ever, so a packet tried
\* again and again is at last answered; a process that went down is started
\* again, and one that is closing ends.
Fairness ==
    /\ WF_vars(Forwarder)
    /\ SF_vars(Answered \/ Rejection)
    /\ WF_vars(Restart)
    /\ WF_vars(Exit)

FairSpec == Spec /\ Fairness

-----------------------------------------------------------------------------
(* Properties.                                                             *)

\* Every variable has its type: the queue and the journal hold packets the
\* client may send, the forwarder holds one exactly while it is forwarding,
\* and a process that is down has no forwarder.
TypeOK ==
    /\ mode \in Modes
    /\ life \in Lives
    /\ fpc \in ForwarderStates
    /\ cur \in 0..MaxSeq
    /\ (cur # 0) <=> (fpc \in Holding)
    /\ Up \/ fpc = "exited"
    /\ queue \subseteq Seqs
    /\ lastAccepted \in 0..MaxSeq
    /\ journalFailed \in BOOLEAN
    /\ fatal \in {"none", "rejected", "cancelled"}
    /\ stopReq \in BOOLEAN
    /\ stopStatus \in Statuses
    /\ jPackets \subseteq Seqs
    /\ jProgress \in 0..MaxSeq
    /\ jStopped \in BOOLEAN
    /\ jDead \in BOOLEAN
    /\ delivered \in Seq(Seqs)
    /\ acked \subseteq Seqs
    /\ givenUp \subseteq Seqs
    /\ rejected \subseteq Seqs
    /\ stopAnswers \subseteq Statuses
    /\ restarts \in 0..MaxRestart
    /\ crashes \in Nat
    /\ unanswered \in 0..MaxUnanswered

\* "ACK means durably in this buffer": at every moment, crashed or not, an
\* acknowledged packet has been heard, was dropped by a rejection the client
\* was told of, or is in the part of the journal a restart puts back.
AckedIsKept == acked \subseteq Heard \cup givenUp \cup Backlog

\* No packet is heard for the first time before an earlier one: across
\* retries, restarts, lost ACKs and rejections the tier never sees a hole.
HeardInOrder ==
    \A i \in DOMAIN delivered : \A s \in 1..(delivered[i] - 1) :
        \E k \in 1..(i - 1) : delivered[k] = s

\* The drain barrier of stop_session: when the ending is stored, every ACKed
\* packet was heard or given up, and no later one can have been ACKed.
DrainBarrier == stopStatus \in Endings => acked \subseteq Heard \cup givenUp

\* Words are repeated at most once per crash between the tier's answer and the
\* Progress record, or per packet the tier used without answering OK; a
\* graceful restart repeats none.
RepeatsAreAccounted ==
    Len(delivered) - Cardinality(Heard) <= crashes + unanswered

\* The queue in memory and the backlog a crash would recover are the same
\* packets, the one being forwarded included, so a restart resumes exactly here;
\* and whatever restarts, cancellations and rejections built it up, the backlog
\* is bounded as the queue is (SessionBuffer::push, jrn::store::recover).
QueueMirrorsJournal ==
    /\ life = "running" /\ fatal = "none" /\ ~Finished
        => Backlog = queue \cup (IF cur = 0 THEN {} ELSE {cur})
    /\ Cardinality(Backlog) <= Capacity + 1

\* A packet the tier rejected for good is never pushed again.
RejectedIsNotRetried == [][cur' # cur /\ cur' # 0 => cur' \notin rejected]_vars

\* Every ACKed packet is at last heard or given up.
EveryAckIsSettled == \A s \in Seqs : s \in acked ~> s \in Heard \cup givenUp

\* The queue, the journal and the forwarder together implement the promise.
Promise == INSTANCE RelayPromise WITH
    promised <- acked, heard <- Heard, lost <- givenUp,
    closed <- stopAnswers \cap Endings # {}

ImplementsPromise == Promise!Spec
=============================================================================
