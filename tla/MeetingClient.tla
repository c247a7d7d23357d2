--------------------------- MODULE MeetingClient ---------------------------
(***************************************************************************)
(* The desktop client around its session workers: the controller on the    *)
(* GUI thread with its event queue, the capture thread with its command    *)
(* queue, the bounded audio queue between capture and worker, one worker   *)
(* thread per meeting, and the state poller.  The buffer server is only    *)
(* what its answers are.  A meeting is the number of its worker.           *)
(***************************************************************************)
EXTENDS Integers, Sequences, SequencesExt

CONSTANTS
    MaxMeetings, \* bound: sessions the operator starts
    MaxFrames,   \* bound: frames the microphone hands over
    Capacity,    \* of the AudioQueue, in frames
    Packet,      \* frames of a full transport packet
    MaxFaults,   \* bound: faults of the device and of the network
    Races        \* the races that may happen, see below

ASSUME ClientAssumption ==
    /\ {MaxMeetings, MaxFrames, Capacity, Packet} \subseteq Nat \ {0} /\ MaxFaults \in Nat
    /\ Races \subseteq {"tail", "stale", "pending", "retry", "click"}

VARIABLES
    worker,   \* SessionController::m_worker, 0 for none
    pending,  \* m_hasPendingSettings
    wanted,   \* m_captureWanted
    retry,    \* m_deviceRetry is running
    mic,      \* m_micStatus
    shown,    \* the meeting in the TranscriptModel
    events,   \* queued signals to the GUI thread
    cmds,     \* queued calls to the capture thread
    open,     \* AudioCapture::m_running
    present,  \* the device is plugged in
    device,   \* frames in the device's buffer
    queue,    \* AudioQueue::m_buffer
    silent,   \* AudioQueue::m_paused
    next,     \* workers made so far
    kind,     \* each one's source
    pc,       \* where each worker is
    buf,      \* the frames it has taken and not sent
    stop,     \* m_stopRequested
    paused,   \* m_paused
    dropped,  \* m_dropped > 0
    sent,     \* the frames the server acknowledged
    held,     \* what the server has of the meeting: "none", "open", "done"
    polled,   \* StatePoller::m_sessionId
    asking,   \* the meeting of the get_live_state in flight
    of,       \* history: the meeting each frame was captured for
    excused,  \* history: frames given up with a notice, or spoken after the stop
    faults    \* bounded

controller == <<worker, pending, wanted, retry, mic, shown>>
capture == <<open, present, device>>
audio == <<queue, silent>>
workers == <<next, kind, pc, buf, stop, paused, dropped, sent, held>>
poller == <<polled, asking>>
history == <<of, excused, faults>>
vars == <<controller, events, cmds, capture, audio, workers, poller, history>>

Meetings == 1..MaxMeetings
Fault == faults < MaxFaults /\ faults' = faults + 1
Post(e) == events' = Append(events, e)
Running == worker # 0

-----------------------------------------------------------------------------
(* The races, each of which an instance may leave out:                     *)
(*   tail     the worker empties the queue after a stop before the capture *)
(*            thread has handed over what the device still holds;          *)
(*   stale    a poll of the last meeting is answered after the next began; *)
(*   pending  a session is started while the microphone is being opened;   *)
(*   retry    the retry timer fires again before the last try has ended;   *)
(*   click    a session is started before the capture thread has run what  *)
(*            the end of the last one asked of it.                         *)

CaptureIsIdle ==
    cmds = <<>> /\ \A i \in 1..Len(events) : events[i][1] \notin {"opened", "failed", "lost"}
TailIsIn == "tail" \in Races \/ cmds = <<>>
NoStalePoll(w) == "stale" \in Races \/ asking \in {0, w}
NotPending == "pending" \in Races \/ ~pending
TryHasEnded == "retry" \in Races \/ CaptureIsIdle
Unhurried == "click" \in Races \/ pending \/ CaptureIsIdle

-----------------------------------------------------------------------------
Init ==
    /\ worker = 0 /\ pending = FALSE /\ wanted = FALSE /\ retry = FALSE
    /\ mic = "idle" /\ shown = 0
    /\ events = <<>> /\ cmds = <<>>
    /\ open = FALSE /\ present = TRUE /\ device = <<>>
    /\ queue = <<>> /\ silent = FALSE
    /\ next = 0 /\ kind = [w \in Meetings |-> "none"] /\ pc = [w \in Meetings |-> "none"]
    /\ buf = [w \in Meetings |-> <<>>] /\ sent = [w \in Meetings |-> <<>>]
    /\ stop = {} /\ paused = {} /\ dropped = {}
    /\ held = [w \in Meetings |-> "none"]
    /\ polled = 0 /\ asking = 0
    /\ of = <<>> /\ excused = {} /\ faults = 0

-----------------------------------------------------------------------------
(* The operator.                                                           *)

\* beginSession: the worker's thread starts.
Begin(k) ==
    /\ next' = next + 1 /\ worker' = next'
    /\ kind' = [kind EXCEPT ![next'] = k]
    /\ pc' = [pc EXCEPT ![next'] = "starting"]

\* AudioQueue::configure: nothing of the last meeting is left.
Configure == queue' = <<>> /\ silent' = FALSE

\* The microphone is opened before the meeting exists.
StartMicrophone ==
    /\ ~Running /\ NotPending /\ Unhurried /\ next < MaxMeetings
    /\ Configure
    /\ mic' = "starting" /\ pending' = TRUE /\ wanted' = TRUE
    /\ cmds' = Append(cmds, "start")
    /\ UNCHANGED <<worker, retry, shown, events, capture, workers, poller, history>>

StartFile ==
    /\ ~Running /\ NotPending /\ Unhurried /\ next < MaxMeetings
    /\ Begin("file")
    /\ wanted' = FALSE /\ mic' = "starting"
    /\ UNCHANGED <<pending, retry, shown, events, cmds, capture, audio, buf, stop, paused,
                   dropped, sent, held, poller, history>>

\* stop: the capture first, then the worker.
Stop ==
    /\ Running /\ worker \notin stop
    /\ wanted' = FALSE
    /\ retry' = (retry /\ ~wanted)
    /\ cmds' = IF wanted THEN Append(cmds, "stop") ELSE cmds
    /\ stop' = stop \cup {worker}
    /\ UNCHANGED <<worker, pending, mic, shown, events, capture, audio, next, kind, pc, buf,
                   paused, dropped, sent, held, poller, history>>

\* The button is enabled while recording or paused.
Pause ==
    /\ Running /\ mic = "recording"
    /\ paused' = paused \cup {worker}
    /\ mic' = "paused"
    /\ IF kind[worker] = "microphone"
         THEN /\ silent' = TRUE /\ queue' = <<>>
              /\ excused' = excused \cup ToSet(queue)
         ELSE UNCHANGED <<audio, excused>>
    /\ UNCHANGED <<worker, pending, wanted, retry, shown, events, cmds, capture, next, kind,
                   pc, buf, stop, dropped, sent, held, poller, of, faults>>

Resume ==
    /\ Running /\ mic = "paused"
    /\ paused' = paused \ {worker}
    /\ mic' = "recording"
    /\ silent' = IF kind[worker] = "microphone" THEN FALSE ELSE silent
    /\ UNCHANGED <<worker, pending, wanted, retry, shown, events, cmds, capture, queue, next,
                   kind, pc, buf, stop, dropped, sent, held, poller, history>>

\* retryDevice, every 500 ms.
RetryDevice ==
    /\ retry /\ TryHasEnded
    /\ retry' = (wanted /\ Running)
    /\ cmds' = IF retry' THEN Append(cmds, "start") ELSE cmds
    /\ Len(cmds) < 2   \* bound: tries waiting for the capture thread
    /\ UNCHANGED <<worker, pending, wanted, mic, shown, events, capture, audio, workers,
                   poller, history>>

-----------------------------------------------------------------------------
(* The capture thread.                                                     *)

Fits(frames) == Len(queue) + Len(frames) <= Capacity

\* AudioQueue::push from the capture thread, of what the device handed over:
\* discarded while paused; dropped, and counted on m_worker, when it does not fit.
PushQueue(frames) ==
    LET fits == Fits(frames)
        lost == frames # <<>> /\ ~silent /\ ~fits
    IN  /\ lost => Running   \* bound: the GUI answers "opened" before the queue is full
        /\ queue' = IF ~silent /\ fits THEN queue \o frames ELSE queue
        /\ dropped' = IF lost THEN dropped \cup {worker} ELSE dropped
        /\ excused' = IF lost \/ worker \in paused THEN excused \cup ToSet(frames)
                      ELSE excused

\* AudioCapture::start: no second device, and none that cannot be opened.
CaptureStart ==
    /\ cmds # <<>> /\ Head(cmds) = "start"
    /\ cmds' = Tail(cmds)
    /\ open' = (open \/ present)
    /\ Post(<<IF ~open /\ present THEN "opened" ELSE "failed">>)
    /\ UNCHANGED <<controller, present, device, audio, workers, poller, history>>

\* AudioCapture::stop drains the device first.
CaptureStop ==
    /\ cmds # <<>> /\ Head(cmds) = "stop"
    /\ cmds' = Tail(cmds)
    /\ open' = FALSE /\ device' = <<>>
    /\ PushQueue(device)
    /\ UNCHANGED <<controller, events, present, silent, next, kind, pc, buf, stop, paused,
                   sent, held, poller, of, faults>>

\* A frame arrives in the device's buffer.
For == IF Running THEN worker ELSE IF pending THEN next + 1 ELSE 0
Speak ==
    /\ open /\ present /\ Len(of) < MaxFrames
    /\ of' = Append(of, For)
    /\ device' = Append(device, Len(of) + 1)
    /\ excused' = IF For = 0 \/ For \in stop THEN excused \cup {Len(of) + 1} ELSE excused
    /\ UNCHANGED <<controller, events, cmds, open, present, audio, workers, poller, faults>>

\* onReadyRead, on the signal and every 20 ms.
Drain ==
    /\ open /\ device # <<>>
    /\ device' = <<>>
    /\ PushQueue(device)
    /\ UNCHANGED <<controller, events, cmds, open, present, silent, next, kind, pc, buf, stop,
                   paused, sent, held, poller, of, faults>>

\* checkHealth finds the device gone.
DeviceLost ==
    /\ open /\ ~present
    /\ open' = FALSE /\ device' = <<>>
    /\ excused' = excused \cup ToSet(device)
    /\ Post(<<"lost">>)
    /\ UNCHANGED <<controller, cmds, present, audio, workers, poller, of, faults>>

Unplug ==
    /\ present /\ Fault /\ present' = FALSE
    /\ UNCHANGED <<controller, events, cmds, open, device, audio, workers, poller, of, excused>>

Replug ==
    /\ ~present /\ present' = TRUE
    /\ UNCHANGED <<controller, events, cmds, open, device, audio, workers, poller, history>>

-----------------------------------------------------------------------------
(* A worker's thread.                                                      *)

Goes(w, to) == pc' = [pc EXCEPT ![w] = to]
Sends(w) == pc[w] \in {"push", "drain"}
Ready(w) == Len(buf[w]) >= IF pc[w] = "push" THEN Packet ELSE 1

StartOk(w) ==
    /\ pc[w] = "starting" /\ NoStalePoll(w)
    /\ held' = [held EXCEPT ![w] = "open"]
    /\ Goes(w, IF kind[w] = "file" THEN "drain" ELSE "loop")
    /\ Post(<<"recording", w>>)
    /\ UNCHANGED <<controller, cmds, capture, audio, next, kind, buf, stop, paused, dropped,
                   sent, poller, history>>

\* A redial is given up after a stop.
GivesUp(w) == pc[w] = "lost" /\ w \in stop

\* start_session, a packet, or stop_session is refused, the redial is given up, or
\* the queue was full.
Fails(w) ==
    /\ \/ pc[w] \in {"starting", "stopping"} /\ Fault
       \/ Sends(w) /\ Ready(w) /\ Fault
       \/ GivesUp(w) /\ UNCHANGED faults
       \/ pc[w] = "loop" /\ w \notin stop /\ w \in dropped /\ UNCHANGED faults
    /\ Goes(w, "failed")
    /\ Post(<<"error", w>>)
    /\ UNCHANGED <<controller, cmds, capture, audio, next, kind, buf, stop, paused, dropped,
                   sent, held, poller, of, excused>>

\* The loop of runMicrophone: paused, or take and split.
LoopPaused(w) ==
    /\ pc[w] = "loop" /\ w \notin stop \cup dropped /\ w \in paused /\ buf[w] # <<>>
    /\ buf' = [buf EXCEPT ![w] = <<>>]
    /\ excused' = excused \cup ToSet(buf[w])
    /\ UNCHANGED <<controller, events, cmds, capture, audio, next, kind, pc, stop, paused,
                   dropped, sent, held, poller, of, faults>>

LoopTake(w) ==
    /\ pc[w] = "loop" /\ w \notin stop \cup dropped \cup paused /\ queue # <<>>
    /\ buf' = [buf EXCEPT ![w] = @ \o queue] /\ queue' = <<>>
    /\ Goes(w, IF Len(buf'[w]) >= Packet THEN "push" ELSE "loop")
    /\ UNCHANGED <<controller, events, cmds, capture, silent, next, kind, stop, paused,
                   dropped, sent, held, poller, history>>

\* Stopped: one last look at the queue.  The mutant goes straight to the drain.
NoLastLook == <<>>
LastLook == queue

LoopStop(w) ==
    /\ pc[w] = "loop" /\ w \in stop /\ TailIsIn
    /\ buf' = [buf EXCEPT ![w] = @ \o LastLook] /\ queue' = <<>>
    /\ Goes(w, "drain")
    /\ UNCHANGED <<controller, events, cmds, capture, silent, next, kind, stop, paused,
                   dropped, sent, held, poller, history>>

\* One packet is acknowledged.
SendOk(w) ==
    /\ Sends(w) /\ Ready(w)
    /\ LET size == IF Len(buf[w]) < Packet THEN Len(buf[w]) ELSE Packet
       IN  /\ sent' = [sent EXCEPT ![w] = @ \o SubSeq(buf[w], 1, size)]
           /\ buf' = [buf EXCEPT ![w] = SubSeq(@, size + 1, Len(@))]
    /\ Goes(w, IF pc[w] = "push" /\ Len(buf'[w]) < Packet THEN "loop" ELSE pc[w])
    /\ UNCHANGED <<controller, events, cmds, capture, audio, next, kind, stop, paused,
                   dropped, held, poller, history>>

\* A transport failure: the same packet again, until the network is back.
SendLost(w) ==
    /\ Sends(w) /\ Ready(w) /\ Fault
    /\ Goes(w, "lost")
    /\ Post(<<"network", w>>)
    /\ UNCHANGED <<controller, cmds, capture, audio, next, kind, buf, stop, paused, dropped,
                   sent, held, poller, of, excused>>

SendBack(w) ==
    /\ pc[w] = "lost" /\ w \notin stop
    /\ Goes(w, "push")
    /\ Post(<<IF w \in paused THEN "back paused" ELSE "back", w>>)
    /\ UNCHANGED <<controller, cmds, capture, audio, next, kind, buf, stop, paused, dropped,
                   sent, held, poller, history>>

\* The tail is out: stop_session, and the last signals.
StopSession(w) ==
    /\ pc[w] = "drain" /\ buf[w] = <<>>
    /\ kind[w] = "file" \/ w \in stop
    /\ Goes(w, "stopping")
    /\ Post(<<"finalizing", w>>)
    /\ UNCHANGED <<controller, cmds, capture, audio, next, kind, buf, stop, paused, dropped,
                   sent, held, poller, history>>

StopOk(w) ==
    /\ pc[w] = "stopping"
    /\ held' = [held EXCEPT ![w] = "done"]
    /\ Goes(w, "finished")
    /\ Post(<<"finished", w>>)
    /\ UNCHANGED <<controller, cmds, capture, audio, next, kind, buf, stop, paused, dropped,
                   sent, poller, history>>

-----------------------------------------------------------------------------
(* The poller's thread.                                                    *)

PollAsk ==
    /\ polled # 0 /\ asking = 0
    /\ \A i \in 1..Len(events) : events[i][1] # "state"   \* bound: states not handled yet
    /\ asking' = polled
    /\ UNCHANGED <<controller, events, cmds, capture, audio, workers, polled, history>>

\* A poll that fails is only told; the loop goes on.
PollAnswer ==
    /\ asking # 0
    /\ asking' = 0
    /\ Post(<<"state", asking, held[asking] = "done">>) \/ UNCHANGED events
    /\ UNCHANGED <<controller, cmds, capture, audio, workers, polled, history>>

-----------------------------------------------------------------------------
(* The slots of the controller, one event after another.                   *)

Event(kinds) == events # <<>> /\ Head(events)[1] \in kinds /\ events' = Tail(events)
Who == Head(events)[2]

OnCaptureStarted ==
    /\ Event({"opened"})
    /\ retry' = FALSE /\ pending' = FALSE
    /\ IF pending
         THEN Begin("microphone") /\ UNCHANGED mic
         ELSE /\ mic' = IF Running /\ mic = "reconnecting"
                          THEN IF worker \in paused THEN "paused" ELSE "recording"
                          ELSE mic
              /\ UNCHANGED <<worker, next, kind, pc>>
    /\ UNCHANGED <<wanted, shown, cmds, capture, audio, buf, stop, paused, dropped, sent, held,
                   poller, history>>

OnCaptureFailed ==
    /\ Event({"failed"})
    /\ pending' = FALSE
    /\ wanted' = (wanted /\ ~pending)
    /\ retry' = IF pending THEN FALSE ELSE retry \/ (wanted /\ Running)
    /\ mic' = IF ~pending /\ wanted /\ Running THEN "reconnecting" ELSE "error"
    /\ UNCHANGED <<worker, shown, cmds, capture, audio, workers, poller, history>>

\* The mutant waits for the operator instead of retrying.
NoRetry == retry
RetryAfterLoss == retry \/ wanted

OnDeviceLost ==
    /\ Event({"lost"})
    /\ excused' = excused \cup ToSet(queue) /\ queue' = <<>>
    /\ mic' = "reconnecting"
    /\ retry' = RetryAfterLoss
    /\ UNCHANGED <<worker, pending, wanted, shown, cmds, capture, silent, workers, poller,
                   of, faults>>

\* onSessionStarted; the poller follows.  The mutant leaves it where it was.
NotFollowed(w) == polled
Followed(w) == w

OnSessionStarted ==
    /\ Event({"recording"})
    /\ shown' = Who /\ polled' = Followed(Who)
    /\ mic' = IF mic = "reconnecting" THEN mic ELSE "recording"
    /\ UNCHANGED <<worker, pending, wanted, retry, cmds, capture, audio, workers, asking, history>>

\* onWorkerStatus: a lost device outranks a worker that is recording.
OnWorkerStatus ==
    /\ Event({"network", "back", "back paused", "finalizing"})
    /\ mic' = CASE Head(events)[1] = "back" -> IF mic = "reconnecting" THEN mic ELSE "recording"
                [] Head(events)[1] = "back paused" -> "paused"
                [] OTHER -> Head(events)[1]
    /\ UNCHANGED <<worker, pending, wanted, retry, shown, cmds, capture, audio, workers, poller,
                   history>>

\* onWorkerFinished, onWorkerFailed: teardownWorker parks the poller and closes
\* the microphone.  The mutant leaves the microphone to the next start.
LeavesOpen == UNCHANGED <<cmds, wanted, retry>>
ClosesMicrophone ==
    /\ cmds' = IF wanted THEN Append(cmds, "stop") ELSE cmds
    /\ wanted' = FALSE /\ retry' = (retry /\ ~wanted)

Teardown ==
    /\ Event({"finished", "error"})
    /\ mic' = IF Head(events)[1] = "error" THEN "error" ELSE "stopped"
    /\ polled' = 0 /\ worker' = 0
    /\ stop' = IF Running THEN stop \cup {worker} ELSE stop
    /\ ClosesMicrophone
    /\ UNCHANGED <<pending, shown, capture, audio, next, kind, pc, buf, paused, dropped, sent,
                   held, asking, history>>

\* onLiveState: done parks the poller, whichever meeting it was said of.
OnLiveState ==
    /\ Event({"state"})
    /\ shown' = Who
    /\ polled' = IF Head(events)[3] THEN 0 ELSE polled
    /\ UNCHANGED <<worker, pending, wanted, retry, mic, cmds, capture, audio, workers, asking,
                   history>>

-----------------------------------------------------------------------------
Operator == StartMicrophone \/ StartFile \/ Stop \/ Pause \/ Resume
Capture == CaptureStart \/ CaptureStop \/ Drain \/ DeviceLost
Environment == Speak \/ Unplug \/ Replug \/ \E w \in Meetings : SendBack(w)
Worker(w) ==
    \/ StartOk(w) \/ Fails(w) \/ LoopPaused(w) \/ LoopTake(w) \/ LoopStop(w)
    \/ SendOk(w) \/ SendLost(w) \/ StopSession(w) \/ StopOk(w)
Poll == PollAsk \/ PollAnswer
Slot ==
    OnCaptureStarted \/ OnCaptureFailed \/ OnDeviceLost \/ OnSessionStarted \/ OnWorkerStatus
      \/ Teardown \/ OnLiveState

Next ==
    \/ Operator \/ Capture \/ Environment \/ RetryDevice \/ Poll \/ Slot
    \/ \E w \in Meetings : Worker(w)

Spec == Init /\ [][Next]_vars

\* Every thread runs, the event loop delivers, the timer fires.  The operator,
\* the microphone and the network owe nothing.
FairSpec ==
    /\ Spec
    /\ WF_vars(Slot) /\ WF_vars(Capture) /\ WF_vars(RetryDevice) /\ WF_vars(Poll)
    /\ \A w \in Meetings : WF_vars(Worker(w))

-----------------------------------------------------------------------------
(* Properties.                                                             *)

WorkerKinds == {"recording", "network", "back", "back paused", "finalizing", "finished", "error"}
CaptureKinds == {"opened", "failed", "lost"}
Messages ==
    {<<k>> : k \in CaptureKinds} \cup (WorkerKinds \X Meetings) \cup ({"state"} \X Meetings \X BOOLEAN)

TypeOK ==
    /\ worker \in 0..MaxMeetings /\ shown \in 0..MaxMeetings /\ polled \in 0..MaxMeetings
    /\ {pending, wanted, retry, open, present, silent} \subseteq BOOLEAN
    /\ mic \in {"idle", "starting", "recording", "paused", "network", "reconnecting",
                "finalizing", "stopped", "error"}
    /\ events \in Seq(Messages) /\ cmds \in Seq({"start", "stop"}) /\ next \in 0..MaxMeetings
    /\ device \in Seq(1..MaxFrames) /\ queue \in Seq(1..MaxFrames) /\ Len(queue) <= Capacity
    /\ kind \in [Meetings -> {"none", "microphone", "file"}]
    /\ pc \in [Meetings -> {"none", "starting", "loop", "push", "drain", "lost", "stopping",
                            "finished", "failed"}]
    /\ buf \in [Meetings -> Seq(1..MaxFrames)] /\ sent \in [Meetings -> Seq(1..MaxFrames)]
    /\ stop \cup paused \cup dropped \subseteq Meetings
    /\ held \in [Meetings -> {"none", "open", "done"}] /\ asking \in 0..MaxMeetings
    /\ of \in Seq(0..MaxMeetings) /\ excused \subseteq 1..MaxFrames /\ faults \in 0..MaxFaults

\* What a meeting has is its own audio, in order and once: nothing of the meeting
\* before it, which ended with the queue full or paused.  And a meeting that ends
\* well has every frame that was spoken in it, from the opening of the microphone
\* to the click of Stop, except those the operator was told of: paused, lost with
\* the device, or dropped by a full queue (SessionController::stop,
\* SessionWorker::runMicrophone, AudioCapture::stop, AudioQueue::configure).
SpokenIsSent ==
    \A w \in Meetings :
        /\ \A i \in 1..Len(sent[w]) : of[sent[w][i]] = w
        /\ \A i, j \in 1..Len(sent[w]) : i < j => sent[w][i] < sent[w][j]
        /\ pc[w] = "finished" =>
             \A f \in 1..Len(of) : of[f] = w => f \in ToSet(sent[w]) \cup excused

\* The microphone is open, or about to be, only for a session that runs or is
\* about to (SessionController::teardownWorker, stop, onCaptureFailed).
MicrophoneIsReleased ==
    ~Running /\ ~pending /\ CaptureIsIdle => ~open

\* The meeting that runs is the one that is polled and shown, until the server
\* says it is done (SessionController::onSessionStarted, onLiveState).
RunningIsFollowed ==
    Running /\ held[worker] = "open" /\ (\A i \in 1..Len(events) : events[i] # <<"recording", worker>>)
        => polled = worker /\ shown = worker

\* The client gets out of every wait.  A microphone that was unplugged and is
\* back is recording again, and said to be (SessionController::onDeviceLost,
\* retryDevice, onCaptureStarted); a session whose Stop was clicked is torn down,
\* whatever it was waiting for (SessionWorker::pushPacket, drainAndStop; the
\* 120 s of the stop are a step).
WaitsEnd ==
    /\ (wanted /\ mic = "reconnecting") ~> (~wanted \/ ~present \/ mic # "reconnecting")
    /\ \A w \in Meetings : w \in stop /\ worker = w ~> worker # w
=============================================================================
