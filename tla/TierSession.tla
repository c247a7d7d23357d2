---------------------------- MODULE TierSession ----------------------------
(***************************************************************************)
(* One meeting's BackendSession between the forwarder and the tier.  With  *)
(* Riva it is one bidirectional stream on one connection (ClientStream):   *)
(* a push sends its packet and takes whatever answers have arrived.  With  *)
(* Triton a push is a unary infer, and the tier keeps the state.  forward  *)
(* holds a packet until a push of it is answered OK or rejected, calling   *)
(* reset after a transport failure.                                        *)
(***************************************************************************)
EXTENDS Integers, Sequences, SequencesExt

CONSTANTS
    N,          \* packets of the meeting
    Ticks,      \* kFlushTicks
    MaxFaults,  \* bound: faults of the link and of the tier
    Faults      \* the kinds that happen: the link "break"s, or breaks in an "outage";
                \* the tier "reject"s a Triton chunk, "end"s Riva's stream with an error,
                \* "garble"s an answer, ends the stream OK too "early"

ASSUME TierAssumption ==
    /\ N \in Nat \ {0} /\ Ticks \in Nat /\ MaxFaults \in Nat
    /\ Faults \subseteq {"break", "outage", "reject", "end", "garble", "early"}

VARIABLES
    backend,   \* which tier the server was configured for
    pc,        \* of the forwarder
    at,        \* the packet in hand; N + 1 is the stop
    link,      \* whether the tier can be dialled
    live,      \* whether the session's connection still carries anything
    active,    \* ClientStream::m_active
    half,      \* StreamState::sendClosed
    opening,   \* StreamState::headers: "none", "come", "checked" (m_checkedHeaders)
    ended,     \* StreamState::recvClosed
    buffer,    \* StreamState::buffer: answers read from the socket and not taken
    sent,      \* the packets sent on this stream
    since,     \* history: the packet in hand when this stream was opened
    heard,     \* what the tier has heard on it; for Triton, since the last reset=1
    answered,  \* how many of those Riva has answered
    coming,    \* its answers not yet read from the socket
    closing,   \* grpc-status it ended the stream with: "none" yet, "ok", one that is a
               \* "transport" failure to forward, any other "error"
    taken,     \* answers in the response that push or finish is filling
    applied,   \* packets whose answer was folded into the transcript
    first,     \* TritonSession::m_first
    tick,      \* silent ticks sent by finish
    verdict,   \* who ended the meeting's audio: "none", a rejection's origin
    stopped,   \* the status finish returned
    faults     \* bounded

reading == <<opening, ended, buffer>>
tier == <<heard, answered, coming, closing>>
stream == <<live, active, half, reading, sent, since, tier>>
triton == <<first, tick>>
vars == <<backend, pc, at, link, stream, taken, applied, triton, verdict, stopped, faults>>

Riva == backend = "riva"
Triton == backend = "triton"
Packets == 1..N
May(kind) == kind \in Faults /\ faults < MaxFaults
Fault == faults' = faults + 1

-----------------------------------------------------------------------------
(* Both sessions are open: start_session waited for that.  Triton may still *)
(* hold what a meeting of this stream id left before a restart.            *)

Init ==
    /\ backend \in {"riva", "triton"}
    /\ pc = "push" /\ at = 1 /\ link = TRUE
    /\ live = TRUE /\ active = Riva /\ half = FALSE
    /\ opening = "none" /\ ended = FALSE /\ buffer = <<>>
    /\ sent = <<>> /\ since = 1
    /\ heard \in IF Riva THEN {<<>>} ELSE {<<>>, <<0>>}
    /\ answered = 0 /\ coming = <<>> /\ closing = "none"
    /\ taken = {} /\ applied = {}
    /\ first = TRUE /\ tick = 0 /\ verdict = "none" /\ stopped = "none"
    /\ faults = 0

-----------------------------------------------------------------------------
(* The network and the tier.                                               *)

\* The connection dies, or the tier sends RST_STREAM or GOAWAY, on which the client
\* closes it; with an outage the tier cannot be dialled for a while.
LinkBreaks ==
    /\ live /\ \/ May("break") /\ link' = link
               \/ May("outage") /\ link' = FALSE
    /\ live' = FALSE /\ Fault
    /\ UNCHANGED <<backend, pc, at, active, half, reading, sent, since, tier, taken, applied,
                   triton, verdict, stopped>>

LinkReturns ==
    /\ ~link /\ link' = TRUE
    /\ UNCHANGED <<backend, pc, at, stream, taken, applied, triton, verdict, stopped, faults>>

Serves == Riva /\ live /\ closing = "none"

\* Riva hears the next packet of its stream.
RivaHears ==
    /\ Serves /\ Len(heard) < Len(sent)
    /\ heard' = Append(heard, sent[Len(heard) + 1])
    /\ UNCHANGED <<backend, pc, at, link, live, active, half, reading, sent, since, answered,
                   coming, closing, taken, applied, triton, verdict, stopped, faults>>

\* It answers in order, when it likes.
RivaAnswers ==
    /\ Serves /\ answered < Len(heard)
    /\ answered' = answered + 1
    /\ coming' = Append(coming, heard[answered + 1])
    /\ UNCHANGED <<backend, pc, at, link, live, active, half, reading, sent, since, heard,
                   closing, taken, applied, triton, verdict, stopped, faults>>

EndsWith(status) ==
    /\ closing' = status
    /\ UNCHANGED <<backend, pc, at, link, live, active, half, reading, sent, since, heard,
                   answered, coming, taken, applied, triton, verdict, stopped>>

\* It ends the stream with OK when it has been told that there is no more audio
\* and has heard and answered all of it.
RivaEnds ==
    /\ Serves /\ half /\ heard = sent /\ answered = Len(heard)
    /\ EndsWith("ok") /\ UNCHANGED faults

\* It ends it at any time with an error, in its trailers or, when nothing went
\* before, in the only headers; "early", with OK.
RivaEndsEarly ==
    /\ Serves /\ Fault
    /\ \/ May("end") /\ \E status \in {"transport", "error"} : EndsWith(status)
       \/ May("early") /\ EndsWith("ok")

-----------------------------------------------------------------------------
(* ClientStream: reading.                                                  *)

\* A frame of the stream is absorbed: by the pump of receive, and by a send that
\* waits for flow-control credit, whose mutant loses the answers it meets.
DroppedInSend(answer) == IF pc = "push" THEN buffer ELSE Append(buffer, answer)
Absorbed(answer) == Append(buffer, answer)

Absorb ==
    /\ Riva /\ active /\ ~ended /\ pc \in {"push", "collect", "drain"}
    /\ \/ /\ coming # <<>>
          /\ buffer' = Absorbed(Head(coming)) /\ coming' = Tail(coming)
          /\ UNCHANGED ended
       \/ /\ coming = <<>> /\ closing # "none"
          /\ ended' = TRUE
          /\ UNCHANGED <<buffer, coming>>
    /\ opening' = IF opening = "none" THEN "come" ELSE opening
    /\ UNCHANGED <<backend, pc, at, link, live, active, half, sent, since, heard, answered,
                   closing, taken, applied, triton, verdict, stopped, faults>>

Collecting == Riva /\ pc \in {"collect", "drain"}

\* collect fails without the connection: what it had taken goes with its response,
\* forward ends the meeting's audio or sends the packet again, finish gives up.
CollectFailsWith(status) ==
    /\ taken' = {}
    /\ \/ pc = "collect" /\ status = "transport" /\ pc' = "reset"
          /\ UNCHANGED <<verdict, stopped>>
       \/ pc = "collect" /\ status = "error" /\ pc' = "finish" /\ verdict' = "tier"
          /\ UNCHANGED stopped
       \/ pc = "drain" /\ pc' = "done" /\ stopped' = "failed"
          /\ UNCHANGED verdict

\* headerStatus looks once, when the first headers have come.  It sees an error
\* only if the stream has ended by then; one in a later trailer is not looked for.
HeadersRefuse == ended /\ closing # "ok"

CheckHeaders ==
    /\ Collecting /\ opening = "come" /\ ~HeadersRefuse
    /\ opening' = "checked"
    /\ UNCHANGED <<backend, pc, at, link, live, active, half, ended, buffer, sent, since, tier,
                   taken, applied, triton, verdict, stopped, faults>>

RefusedByHeaders ==
    /\ Collecting /\ opening = "come" /\ HeadersRefuse
    /\ opening' = "checked" /\ active' = FALSE /\ buffer' = <<>>
    /\ CollectFailsWith(closing)
    /\ UNCHANGED <<backend, at, link, live, half, ended, sent, since, tier, applied, triton, faults>>

\* receive takes one complete message after another.
Take ==
    /\ Collecting /\ buffer # <<>>
    /\ taken' = taken \cup {Head(buffer)}
    /\ buffer' = Tail(buffer)
    /\ UNCHANGED <<backend, pc, at, link, live, active, half, opening, ended, sent, since, tier,
                   applied, triton, verdict, stopped, faults>>

\* INTERNAL: framing that cannot be followed cancels the stream, a response that
\* does not parse leaves it open.
Undecodable ==
    /\ Collecting /\ buffer # <<>> /\ May("garble") /\ Fault
    /\ \/ active' = FALSE /\ buffer' = <<>>
       \/ active' = active /\ buffer' = Tail(buffer)
    /\ CollectFailsWith("error")
    /\ UNCHANGED <<backend, at, link, live, half, opening, ended, sent, since, tier, applied,
                   triton>>

-----------------------------------------------------------------------------
(* RivaSession::push.                                                      *)

\* The stream takes the packet; so does the socket of a connection that is dead
\* and a stream the tier has ended.
RivaSend ==
    /\ Riva /\ pc = "push" /\ at <= N /\ active
    /\ sent' = IF Serves THEN Append(sent, at) ELSE sent
    /\ pc' = "collect"
    /\ UNCHANGED <<backend, at, link, live, active, half, reading, since, tier, taken, applied,
                   triton, verdict, stopped, faults>>

\* The write fails, or the flow-control credit runs out.
RivaSendFails ==
    /\ Riva /\ pc = "push" /\ at <= N /\ active /\ ~Serves
    /\ active' = FALSE /\ pc' = "reset"
    /\ UNCHANGED <<backend, at, link, live, half, reading, sent, since, tier, taken, applied,
                   triton, verdict, stopped, faults>>

\* "the stream is not open" is FAILED_PRECONDITION, which is not a transport
\* failure: forward does not retry.
RivaNotOpen ==
    /\ Riva /\ pc = "push" /\ at <= N /\ ~active
    /\ pc' = "finish" /\ verdict' = "stream"
    /\ UNCHANGED <<backend, at, link, stream, taken, applied, triton, stopped, faults>>

\* A push is OK when nothing more is buffered, whether or not its own packet was
\* answered, or the stream has ended, whatever its trailers say.
PushOk ==
    /\ Riva /\ pc = "collect" /\ buffer = <<>> /\ opening # "come"
    /\ applied' = applied \cup taken /\ taken' = {}
    /\ at' = at + 1
    /\ pc' = IF at = N THEN "finish" ELSE "push"
    /\ UNCHANGED <<backend, link, stream, triton, verdict, stopped, faults>>

\* The socket is found closed.
CollectFails ==
    /\ Riva /\ pc = "collect" /\ ~live /\ ~ended
    /\ active' = FALSE
    /\ CollectFailsWith("transport")
    /\ UNCHANGED <<backend, at, link, live, half, reading, sent, since, tier, applied, triton, faults>>

\* reset: cancel, drop the connection, begin again.  cancel leaves no answer of
\* the old stream behind; the mutant's does.
KeepAnswers == buffer
LeftAfterCancel == <<>>

RivaReset ==
    /\ Riva /\ pc = "reset"
    /\ active' = link /\ live' = link
    /\ half' = FALSE /\ opening' = "none" /\ ended' = FALSE /\ buffer' = LeftAfterCancel
    /\ sent' = <<>> /\ since' = at
    /\ heard' = <<>> /\ answered' = 0 /\ coming' = <<>> /\ closing' = "none"
    /\ pc' = "push"
    /\ UNCHANGED <<backend, at, link, taken, applied, triton, verdict, stopped, faults>>

-----------------------------------------------------------------------------
(* RivaSession::finish.                                                    *)

\* A stream that is already torn down finishes OK.
FinishTornDown ==
    /\ Riva /\ pc = "finish" /\ ~active
    /\ stopped' = "torn" /\ pc' = "done"
    /\ UNCHANGED <<backend, at, link, stream, taken, applied, triton, verdict, faults>>

CloseSend ==
    /\ Riva /\ pc = "finish" /\ active
    /\ half' = TRUE /\ pc' = "drain"
    /\ UNCHANGED <<backend, at, link, live, active, reading, sent, since, tier, taken, applied,
                   triton, verdict, stopped, faults>>

CloseSendFails ==
    /\ Riva /\ pc = "finish" /\ active /\ ~live
    /\ active' = FALSE /\ stopped' = "failed" /\ pc' = "done"
    /\ UNCHANGED <<backend, at, link, live, half, reading, sent, since, tier, taken, applied,
                   triton, verdict, faults>>

\* ended: END_STREAM has come and nothing is left in the buffer.
Ended == ended /\ buffer = <<>>

\* The drain is over: the status in the trailers decides, and only an OK has its
\* tail folded in.  The mutant takes the end of the stream for an OK.
OkWhenEnded == "ok"
TrailingStatus == IF closing = "ok" THEN "ok" ELSE "failed"

Drained ==
    /\ Riva /\ pc = "drain" /\ Ended
    /\ stopped' = TrailingStatus
    /\ applied' = IF stopped' = "ok" THEN applied \cup taken ELSE applied
    /\ taken' = {} /\ active' = FALSE /\ pc' = "done"
    /\ UNCHANGED <<backend, at, link, live, half, reading, sent, since, tier, triton, verdict,
                   faults>>

\* The socket is closed, or kDrainMs is over.  The mutant has no such deadline.
DrainHasNoEnd == FALSE
DrainIsOver == ~Ended

DrainFails ==
    /\ Riva /\ pc = "drain" /\ DrainIsOver
    /\ stopped' = "failed" /\ taken' = {} /\ active' = FALSE /\ pc' = "done"
    /\ UNCHANGED <<backend, at, link, live, half, reading, sent, since, tier, applied, triton,
                   verdict, faults>>

-----------------------------------------------------------------------------
(* TritonSession: infer.                                                   *)

\* reset=1 goes with every infer until one has been answered.  The mutant's flag
\* is dropped with the first one sent.
FirstUntilSent(ok) == FALSE
FirstAfter(ok) == first /\ ~ok

rivaSide == <<active, half, reading, sent, since, answered, coming, closing>>
TritonConsumes(p) == heard' = IF first THEN <<p>> ELSE Append(heard, p)

InferOk ==
    /\ Triton /\ pc = "push" /\ at <= N /\ link
    /\ TritonConsumes(at)
    /\ applied' = applied \cup {at} /\ first' = FirstAfter(TRUE) /\ at' = at + 1
    /\ live' = TRUE
    /\ pc' = IF at = N THEN "finish" ELSE "push"
    /\ UNCHANGED <<backend, link, rivaSide, taken, tick, verdict, stopped, faults>>

\* UNAVAILABLE or DEADLINE_EXCEEDED: the tier may have consumed the chunk.
InferFails ==
    /\ Triton /\ pc = "push" /\ at <= N
    /\ \/ link /\ May("break") /\ Fault /\ (TritonConsumes(at) \/ UNCHANGED heard)
       \/ ~link /\ UNCHANGED <<heard, faults>>
    /\ first' = FirstAfter(FALSE)
    /\ pc' = "reset"
    /\ UNCHANGED <<backend, at, link, live, rivaSide, taken, applied, tick, verdict, stopped>>

Rejects ==
    /\ pc = "push" /\ at <= N /\ Triton /\ link /\ May("reject") /\ Fault
    /\ TritonConsumes(at) \/ UNCHANGED heard
    /\ pc' = "finish" /\ verdict' = "tier"
    /\ UNCHANGED <<backend, at, link, live, rivaSide, taken, applied, triton, stopped>>

TritonReset ==
    /\ Triton /\ pc = "reset" /\ pc' = "push"
    /\ UNCHANGED <<backend, at, link, stream, taken, applied, triton, verdict, stopped, faults>>

\* finish: the ticks of silence, then is_final.  The first one that fails ends it.
Silence ==
    /\ Triton /\ pc = "finish" /\ tick < Ticks /\ link
    /\ TritonConsumes(0)
    /\ tick' = tick + 1 /\ first' = FirstAfter(TRUE)
    /\ UNCHANGED <<backend, pc, at, link, live, rivaSide, taken, applied, verdict, stopped, faults>>

Final ==
    /\ Triton /\ pc = "finish" /\ tick = Ticks /\ link
    /\ TritonConsumes(N + 1)
    /\ stopped' = "ok" /\ pc' = "done" /\ first' = FirstAfter(TRUE)
    /\ UNCHANGED <<backend, at, link, live, rivaSide, taken, applied, tick, verdict, faults>>

FinishFails ==
    /\ Triton /\ pc = "finish"
    /\ \/ ~link /\ UNCHANGED faults
       \/ May("break") /\ Fault
    /\ stopped' = "failed" /\ pc' = "done"
    /\ UNCHANGED <<backend, at, link, stream, taken, applied, triton, verdict>>

\* Nothing more to do, or a collect that finds nothing to read.
AtRest == pc \in {"drain", "done"} /\ UNCHANGED vars

-----------------------------------------------------------------------------
RivaClient ==
    \/ RivaSend \/ RivaSendFails \/ RivaNotOpen \/ PushOk \/ CollectFails \/ RivaReset
    \/ Absorb \/ CheckHeaders \/ RefusedByHeaders \/ Take \/ Undecodable
    \/ FinishTornDown \/ CloseSend \/ CloseSendFails \/ Drained \/ DrainFails
TritonClient == InferOk \/ InferFails \/ Rejects \/ TritonReset \/ Silence \/ Final \/ FinishFails
RivaServer == RivaHears \/ RivaAnswers \/ RivaEnds \/ RivaEndsEarly

Next == RivaClient \/ TritonClient \/ RivaServer \/ LinkBreaks \/ LinkReturns \/ AtRest
Spec == Init /\ [][Next]_vars

\* The forwarder's thread goes on, and an outage ends.  Nothing is asked of the tier.
FairSpec ==
    Spec /\ WF_vars(RivaClient) /\ WF_vars(TritonClient) /\ WF_vars(LinkReturns)

-----------------------------------------------------------------------------
(* Properties.                                                             *)

TypeOK ==
    /\ backend \in {"riva", "triton"}
    /\ pc \in {"push", "collect", "reset", "finish", "drain", "done"}
    /\ at \in 1..(N + 1) /\ link \in BOOLEAN /\ live \in BOOLEAN /\ active \in BOOLEAN
    /\ half \in BOOLEAN /\ opening \in {"none", "come", "checked"} /\ ended \in BOOLEAN
    /\ sent \in Seq(Packets) /\ buffer \in Seq(Packets) /\ coming \in Seq(Packets)
    /\ heard \in Seq(0..(N + 1)) /\ since \in Packets /\ answered \in Nat
    /\ closing \in {"none", "ok", "transport", "error"}
    /\ taken \subseteq Packets /\ applied \subseteq Packets
    /\ first \in BOOLEAN /\ tick \in 0..Ticks /\ verdict \in {"none", "stream", "tier"}
    /\ stopped \in {"none", "ok", "torn", "failed"} /\ faults \in 0..MaxFaults

\* Every answer that is folded into the transcript is the answer to audio of the
\* stream that is open: cancel and reset leave nothing of the one before it, and
\* a stream carries consecutive packets (ClientStream::cancel, RivaSession::reset).
AnswersAreOfThisStream ==
    /\ taken \cup ToSet(buffer) \cup ToSet(coming) \subseteq ToSet(sent)
    /\ \A i \in 1..(Len(sent) - 1) : sent[i + 1] = sent[i] + 1

\* Whatever was lost and retried, what Triton has heard since the reset=1 that
\* opened its stream is the meeting from its first packet, each packet in its
\* place, a retried one perhaps more than once (TritonSession::infer, m_first);
\* and when finish answers OK it has had all of them, the silence and one
\* is_final (TritonSession::finish).
TritonHasWholeMeeting ==
    Triton =>
        /\ at > 1 /\ verdict = "none" =>
            /\ heard[1] = 1
            /\ \A i \in 1..(Len(heard) - 1) :
                   heard[i] \in Packets /\ heard[i + 1] \in Packets =>
                       heard[i + 1] \in {heard[i], heard[i] + 1}
            /\ 1..(at - 1) \subseteq ToSet(heard)
        /\ stopped = "ok" =>
            /\ tick = Ticks /\ Last(heard) = N + 1
            /\ verdict = "none" => Packets \subseteq ToSet(heard)

\* finish is the far end of the drain barrier.  When it answers OK over a Riva that
\* says OK only to a half-closed stream it has heard and answered: every packet from
\* the one in hand when the stream was opened to the meeting's last was heard, and
\* its answer is in the transcript, whichever call's read it came in by
\* (ClientStream::finish, headerStatus, awaitSendWindow, RivaSession::finish).
DrainedIsWhole ==
    Riva /\ stopped = "ok" /\ verdict = "none" => since..N \subseteq ToSet(heard) \cap applied

\* What a finish that is answered OK stands for, of either tier.
TierHasWholeMeeting == TritonHasWholeMeeting /\ DrainedIsWhole

\* The forwarder gets to the end of the meeting once the tier is back, and its
\* stop is answered (SessionBuffer::forward, run).
MeetingEnds == <>(pc = "done")

\* SessionBuffer.cpp holds the packet and redials when the tier is away: only the
\* tier rejects a packet.
OutageIsWaitedOut == verdict # "stream"

\* "On the meeting's timeline, not the stream's": a stream opened within the
\* meeting counts its time from zero, so it is the meeting's only from packet 1.
OnMeetingTimeline == Riva /\ taken # {} => \A p \in taken : Head(sent) = 1
=============================================================================
