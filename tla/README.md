# Verification of s2t_qt

`s2t_qt` carries the sound of a meeting from a Qt client to a speech-to-text
tier and a transcript back.  Between the two stands `s2t-qt-server`, which ACKs
a packet of audio before the tier has heard it.  That ACK is a promise, and this
project is about whether it is kept: through retries, lost answers, a tier that
goes away, a disk that fails, and a server that is killed or restarted.  It is
also about what comes back: whether the transcript, and what people corrected in
it, is still there after all of these; and about the parts around the promise:
the client that records, the transport, the tier's streams, the voices and the
windows in which people read.

## 1. The system

```
 client process                     server process                       tier
 AudioCapture -> AudioQueue         connection threads   forwarder threads
   -> SessionWorker ---gRPC--->  BufferService -> BufferHub
 SessionController, StatePoller        -> SessionBuffer --> BackendSession --> Triton/Riva
   -> TranscriptModel                       |   \-> LiveTranscript -> SessionStore (SQLite)
 ReviewPanel, TraceWindow                   \-> Journal (segment files)
```

| Part | State it keeps | Operations | Correct when | Module |
|---|---|---|---|---|
| `SessionBuffer` (one per meeting) | queue, last accepted seq, fatal status, stop flag, stored stop answer | `push`, `stop`, `requestStop`, the forwarder, `shutdown`, recovery | an ACK is kept, packets are heard in order, a stop is answered only behind the drained queue | `SessionBuffer` |
| `jrn::Journal`, `jrn::store` | segment files, the open file, the highest seq of each | `create`, `reopen`, `append*`, rotation, retirement, `recover`, `remove` | recovery returns exactly what was accepted and not forwarded | `SessionJournal` |
| `BufferHub` | table of sessions, archive lock | `startSession`, `find`, `forget`, `reap`, `recoverSessions`, `shutdown`, edits of archived meetings | a started meeting is kept, a deleted one stays deleted, shutdown ends | `MeetingDirectory`, `TranscriptArchive` |
| `BufferService` | none | one handler for each RPC | errors keep their kind; handlers beside each other do no harm | with what they call |
| `SessionWorker` (client thread) | next seq, stop flag, connection | `pushPacket`, `drainAndStop`, the microphone and file loops | one packet at a time, the same seq after a transport error, it always ends | `MeetingRelay`, `MeetingClient` |
| `SessionController`, `StatePoller`, `AudioQueue`, `AudioCapture` | worker, pending settings, device retry, queue, polled session | start, stop, pause, device and worker slots | what was spoken is sent, the microphone is released, the running meeting is shown | `MeetingClient` |
| Triton and Riva `BackendSession`, `ClientStream` | one stream to the tier | `push`, `collect`, `finish`, `reset`, `cancel` | answers belong to the open stream, an OK only for audio that was heard | `TierSession` |
| `LiveTranscript`, `SessionStore::saveState` | rows, edits, revision; the stored row | apply, edit, rename, snapshot, save, restore | an answered edit is kept, nobody edits what he did not see | `TranscriptArchive` |
| speaker registry, CAM++ | names, evidence, publish status | rename, publish, delete, staging at the end | only vouched voices are shared | `SpeakerBook` |
| `SessionStore` lists and trace, `TraceWindow` | rows, `m_traceSeq`, cursors | list, trace, follow, page | a cursor misses nothing | `SessionListing`, `TraceFeed` |
| `ReviewPanel` | rows, revision, a load under way | load window by window, refresh, edit | a transcript is shown whole | `ReviewWindows` |
| `TranscriptModel` | lanes, locks, the last state | poll answers, edits, renames, filter | it holds still and hides nothing newer | `TranscriptView` |
| HTTP/2 (`shared/grpc`) | streams, windows, GOAWAY | client and server halves | credit is conserved, outcomes are true | `Http2` |
| HPACK, gRPC framing, `ProtoWire`, messages | the header table | encode, decode | both sides agree | `Hpack`, `GrpcFraming`, `WireContract` |
| configuration, self-test, logging, decoders, other windows | little or none | - | - | - |

How they interact.  A connection thread runs a handler to its end, so `push` and
`stop` run concurrently with each other, with the meeting's forwarder thread,
with the reaper's timer and with shutdown; they share the `SessionBuffer` under
`m_mutex`.  The forwarder releases that mutex for every round trip to the tier.
The journal is written under the mutex.  The client and the server share only
gRPC messages, and the client retries `UNAVAILABLE`, `DEADLINE_EXCEEDED` and
`CANCELLED` (`GrpcChannel.h:49-52`) on a new connection.  Inside the client the
GUI, capture, worker and poller threads talk by queued calls and queued signals,
which arrive in order for each pair of threads and in any order otherwise.

What is hard is listed line by line under "hazards" in `PROJECT.json`.  The
kinds that matter most here: a crash between two durable steps; an answer lost
after the work was done; a retry arriving late; state read before an unlock or a
call and used after it; a queue or a window at its limit; a cursor over what
changes; a write that half succeeds; and the end of a meeting, on which client,
reaper, forwarder, tier and shutdown all have a say.

## 2. The modules

| Module | Models | Composed in |
|---|---|---|
| `RelayPromise` | what the relay promises about one meeting, abstractly | refined by `SessionBuffer` |
| `SessionBuffer` | one meeting in the server: queue, forwarder, journal seen as sets, process life | `MeetingRelay`, `SessionBufferProofs` |
| `SessionJournal` | the segment files behind those sets | - |
| `MeetingRelay` | client worker + network + hub + `SessionBuffer` | refines `SessionBuffer` |
| `MeetingDirectory` | the table of meetings, its handlers, reaper, shutdown and recovery | - |
| `TranscriptArchive` | the transcript in memory and in the store, and all who write them | - |
| `TierSession` | the stream to either tier | - |
| `SpeakerBook` | names, registry, shared voices | - |
| `MeetingClient` | the client's threads over several meetings | - |
| `TranscriptView` | the client's timeline | `MCContract` |
| `Http2` | both ends of the transport with the frames between them | - |
| `Hpack`, `GrpcFraming`, `WireContract` | encodings, as operators | `MCContract` |
| `SessionListing`, `TraceFeed`, `ReviewWindows` | a list, a trace and a transcript read page by page | `StoreReaders` |
| `StoreReaders` | the three together: what reads the store while it changes | `MCContract`, `TranscriptArchiveProofs` |
| `MC*` | names for the choices of the runs | the `.cfg` files |
| `SessionBufferProofs` | theorems about `SessionBuffer` and their proofs | `MeetingRelayProofs` |
| `SessionJournalProofs`, `MeetingRelayProofs`, `MeetingDirectoryProofs`, `SpeakerBookProofs` | the same for the module in their name | - |
| `TransportProofs` | the same for the two network sessions, `TierSession` and `Http2` | - |
| `MeetingClientProofs` | the same for the client, `MeetingClient` and `TranscriptView` | - |
| `TranscriptArchiveProofs` | the same for the store, `TranscriptArchive` and `StoreReaders` | - |

`TypeOK` (`HttpTypeOK`), where a module has it, is there for its proofs and not in a run.  Some further properties are defined and in no run; sections 3 and 6 have them.

**Races.**  The code has interleavings that break its own promises (section 6).
A module that has any names each with a word in its constant `Races`
(`ViewRaces`, `TraceRaces`, `ReviewRaces`, `HeaderRaces`).  The passing runs have none of the words, so what they
claim is: apart from exactly these, the property holds.  A word guards one
conjunct, with a comment that says what it excludes; put the word in the
`.cfg` and TLC prints the interleaving.  Every one of them was seen to do so.

| Module | Word | What happens then | Violates |
|---|---|---|---|
| `TranscriptArchive` | `snapshots` | `saveState` writes an older snapshot over a newer (`SessionBuffer.cpp:805`) | `AnsweredEditIsStored` |
| | `closing` | an edit during shutdown goes to the archive beside a live forwarder (`BufferHub.cpp:605`) | `AnsweredEditIsStored` |
| | `copies` | two handlers, one in memory, one in the archive (`BufferService.cpp:206`) | `AnsweredEditIsStored` |
| | `restart` | revisions are handed out again (`LiveTranscript.cpp:848`) | `EditsReplaceWhatWasSeen` |
| `MeetingDirectory` | `late` | a start registers after `shutdown` took the list (`BufferHub.cpp:312`) | `NoForwarderOutlivesBackend` |
| | `unlisted` | a meeting is deleted while it has a buffer or a journal that the table does not show: during a shutdown, before it is inserted, after a start that failed | `KeptIsListed` |
| | `taken` | the reaper or a shutdown takes the meeting from the table under its deletion, which leaves the journal to them | `KeptIsListed` |
| | `edit` | a meeting is deleted under a running edit, which writes its row back (`BufferService.cpp:259`) | `KeptIsListed` |
| `MeetingClient` | `tail` | the worker's last look comes before capture has stopped (`SessionWorker.cpp:375`) | `SpokenIsSent` |
| | `click` | Start before the capture thread has done what the end of the last meeting asked of it | `SpokenIsSent`, `MicrophoneIsReleased` |
| | `stale` | a poll of the last meeting answered in the next (`SessionController.cpp:735`) | `RunningIsFollowed` |
| | `pending` | Start again while the microphone is being opened (`SessionController.cpp:248`) | `MicrophoneIsReleased`, `SpokenIsSent` |
| | `retry` | the retry timer fires again before the last try has ended | `WaitsEnd` |
| `TranscriptView` | `restart` | the revision goes back under a display lock | `NewestIsShown` |
| | `toggle` | the threshold is switched over a stale answer | `NewestIsShown` |
| `SpeakerBook` | `copy` | a rename between the copy of the names and its use (`SessionBuffer.cpp:841`) | `NamesReachTheBook` |
| | `restart` | names wait in memory only | `NamesReachTheBook` |
| | `publishers`, `late`, `record` | two publishers; a post served after its timeout; a crash before the row | `PublishedIsShared` |
| | `streams` | a recovered meeting's new stream reuses slots and voices of the old one (`SessionBuffer.cpp:200`) | `OnlyVouchedIsShared` |
| `TierSession` | `early` in `Faults` | Riva ends a stream with OK that was not half-closed, or before it answered everything | `TierHasWholeMeeting` |
| `MCContract` | `raise` in `HeaderRaces` | a peer raises the limit of its header table again (`Hpack.cpp:440`) | `SizeUpdatesAreTaken`, `HeadersAgree` |
| `TraceFeed` | `restart`, `stage` | `m_traceSeq` starts again (`SessionBuffer.cpp:763`); the filter runs after LIMIT (`SessionStore.cpp:721`) | `FeedIsComplete` |
| `ReviewWindows` | `straddle`, `reload`, `editor` | a row over a window's edge; a second load; another operator's change (`ReviewPanel.cpp:236-272`) | `PanelIsWhole` |
| | `failure` | the timer or the table goes on with what a failed load left (`ReviewPanel.cpp:263-266`, `:325-340`) | `PanelIsWhole` |

### SessionBuffer

A packet is its seq.  `push` only queues seqs above `m_lastAcceptedSeq` and
recovery sorts, so the queue is ascending and a set describes it.  Packets have
one size, so `capacityBytes` is a number of packets.

| Variable | Code |
|---|---|
| `mode` | `m_config.recordOnly` |
| `life` | the process (`running`, `closing`, `down`) and whether the session was forgotten (`gone`) |
| `fpc`, `cur` | the forwarder's program counter and the `packet` local it holds |
| `queue`, `lastAccepted`, `journalFailed` | `m_queue`, `m_lastAcceptedSeq`, `m_journalFailed` |
| `fatal` | `m_haveFatal` with `m_fatal`, by kind: `rejected` by the tier, `cancelled` by shutdown |
| `stopReq`, `stopStatus` | `m_stopRequested`; `m_stopDone`/`m_finished` with `m_stopStatus` |
| `jPackets`, `jProgress`, `jStopped` | what `store::recover` would read now |
| `jDead` | later records would not be read: the journal is closed, or behind a tear |
| the rest | history the properties speak of, and the counters of the bounds |

One critical section of `m_mutex` is one action, and so is one round trip to the
tier.  `PushAccept`, `PushReplay` and `PushJournalFails` are `push`; a refusal
changes nothing and is no action.  `RequestStop` and `StopReply` are the two
halves of `stop` around its wait, and `RequestStop` is the reaper's call too.
`Open` .. `EndSession` are the forwarder, in the order of `run`: take, forward
(`Answered`, `TransportFailure`, `Rejection`, then `RetryOrCancel`, `Recorded`
or `SetFatal`), drain, flush, end.  `Shutdown`, `Exit`, `Crash`, `Restart*` and
`Forget` are the process.  A `record_only` meeting has the same steps without a
tier: its packets go to the archive and cannot fail.

`SetFatal` is an action of its own because the code leaves the mutex between
`forward` returning false and `m_haveFatal`: pushes ACKed in between are part of
what it clears.

### SessionJournal

Files are functions from segment index to records; a record is a kind and a
seq, and `Torn` stands for whatever fails its CRC.  `unwritten` is the write
buffer of `QFile` (outside the repository): `Journal::write` is `write` and
`flush`, and when the flush fails the part that did not reach the disk stays in
the buffer, so the next append first completes the record the failure cut in
half.  That is assumed of Qt, and it matters: a failed Progress record is only a warning,
so a Packet record is appended behind it, and were it left torn it would hide
that packet from recovery.  A failed write leaves any prefix (`HalfWritten`); a crash inside a
write leaves any prefix of it (`CrashRemains`) and no buffer.

The module's caller is `SessionBuffer` reduced to the order of its calls.  It
establishes what `SessionBuffer` assumes of its journal: that recovery returns
what was appended (`RecoveryIsExact`, `AcceptedIsRecoverable`), so that
`jPackets` and `jProgress` may be a set and a number, and that after a failed
append a record may or may not turn up (`Landing`, `PushJournalFails`).  This
step is an argument, not a checked refinement.

### MeetingRelay

The client's `SessionWorker`, one action per outcome of a call: answered, not
heard (lost on the way there, lost on the way back, or past the deadline), or
refused with a code that is not a transport code.  A request on a connection
the client gave up on stays in `late` and may arrive at any later time until the
process goes down.  `claimed` is `awaitingClient` negated: only a packet that is
queued claims a recovered session (`SessionBuffer.cpp`, `push`), which the
reaper's rule reads.  Its `NoSuchSession` is true during shutdown, because
`BufferHub::shutdown` empties its table first.

`SessionBuffer` restricts its client by `ClientMayPush`; `ImplementsBuffer`
(`B!Spec` as a property) shows that the client of the code, its retries and its
late duplicates stay inside that restriction, so that everything shown of
`SessionBuffer` - including the theorems - holds behind the real client.

### TranscriptArchive

The transcript of one meeting is text in places: one place for the span of each
packet the tier answered, and `Name` for the speakers' names.  What stands in a
place is `"gap"` (nothing yet), `"guess"` (the provisional lane), `"machine"`
(corrected by the tier) or the editor who wrote it last.  Rows, lanes, word
timings and formatting are abstracted to that.

| Variable | Code |
|---|---|
| `live`, `manual` | `m_live` (text, boundary, revision, done) and its `m_manualSpans` |
| `unsaved` | `m_live.version()` differs from `m_lastSavedVersion` |
| `store` | the meeting's row in the `transcripts` table |
| `offset`, `heard` | `m_streamTimeOffsetSec`, and the journal's Progress it is recovered from |
| `fpc`, `fsnap` | the forwarder, and the snapshot it took under `m_stateMutex` and has yet to write |
| `ed` | each editor's request (place, base revision), handler and snapshot; what was seen and who edited later is history |
| `phase`, `stopped` | the session in its hub and the process; `m_finished` with its Stopped record |

`Push`, `Answer`, `TierAway` and `SaveNotDue` are one round of `run`, with the
answer applied by `LiveTranscript::apply`; `SaveSnapshot` and `SaveWrite` are
`saveState(false)` before and after its unlock; `BeginFlush`, `Flush`,
`FinalSave` and `Finish` are the end of `run`.  An editor reads (`Read`), and
the handler of its edit finds the session (`Find`), edits and saves it
(`EditLive`, `EditSnapshot`, `EditWrite`) or edits the archived row
(`EditArchived`, `EditWrite`).  `Forget`, `Shutdown`, `Down` and `Restart` are
hub and process.  What a correction covers is a choice of the tier: any
prefix of the stream's words that reaches beyond its start.  A rename has no base
revision, as in the code.

### MeetingDirectory

| Variable | Code |
|---|---|
| `table`, `buffer`, `asked` | `m_sessions`; each buffer with its forwarder; the ones told to shut down |
| `journal`, `row`, `audio`, `text` | what is on disk of a meeting: journal, `sessions` row, audio file, `transcripts` row |
| `starting`, `deleting`, `editing`, `dropped` | the handlers of `start_session`, `delete_session` and an edit, and `forget` between take and unlink |
| `phase` | the process from `shutdown` to `~BufferHub` and back |

A handler has one action for each of its critical sections: `StartCheck` ..
`StartAnswer` or `StartFail`, `DeleteCheck`, `DeleteForget`, `DeleteUnlink`,
`DeleteFiles`, `EditFind`, `EditSave`.  `deleteSession` of the store removes the
audio and then the rows, and a crash may come between any two of the steps.
The forwarder is reduced to `Opens`, `CannotOpen`, `Archive`, `Finish` and
`Interrupted`; what it does between them is `SessionBuffer`.

### TierSession

The two sessions share the forwarder's side (`at` is the packet in hand) and
differ in the stream.  Riva's is a bidirectional gRPC stream:

| Variable | Code |
|---|---|
| `active`, `half` | `ClientStream::m_active`, `StreamState::sendClosed` |
| `opening`, `ended`, `buffer` | what has been read from the socket: the first headers and whether `headerStatus` has looked at them, END_STREAM, answers not taken |
| `taken`, `applied` | answers in the response being filled, and in the transcript |
| `heard`, `answered`, `coming`, `closing` | the far end (external): what it heard and answered, answers on their way, the grpc-status it ended the stream with |
| `sent`, `since` | the packets sent on the stream, and the packet in hand when it was opened (history) |

The end of a stream has the status the server gave it (`closing`), and the code
decides by that status alone: `Drained` answers what the trailers say
(`TrailingStatus`), whatever was heard.  `Absorb` is the one place where frames
are read; it is taken by the pump of `receive` and also by a `send` that waits
for flow-control credit, which must not lose the answers it meets.  `collect` fails
without a broken connection too: when the first headers to come are found to carry an error
(`RefusedByHeaders`; `headerStatus` looks once, so this is a trailers-only answer or
an end that had come by then), and when a response does not parse
or its framing cannot be followed (`Undecodable`).  What such a call had taken
goes with its response, and `forward` retries a `"transport"` status and ends the
meeting's audio on any other.  An error in trailers that come after the headers were looked
at is seen by no push: pushes on the ended stream stay OK until the
flow-control credit runs out or the connection is found closed, and `finish` reports the status.

What Riva does is restricted in one place: it says OK only to a stream that was
half-closed and that it has heard and answered whole (`RivaEnds`).
`GrpcChannel.h:131-132` has it as the contract of the call ("the far side answers what is
still outstanding and then ends the stream").  The Riva half of `TierHasWholeMeeting`,
`DrainedIsWhole`, is what the client makes of that contract, over retries, redials and every place an answer may be
read in; the word `early` lifts it, and then the property fails, since the code
checks nothing but the status.

Triton's stream is a sequence of unary infers with one `stream_id`, and `first`
is `m_first`, which asks for `reset=1`.  `Faults` names what the link and the
tier may do.  The run leaves `"outage"` in, so a redial may fail; a push on the torn-down
stream is then answered `FAILED_PRECONDITION`, which is the end of the meeting's
audio, and the properties hold of what was answered before.

### SpeakerBook

| Variable | Code |
|---|---|
| `stream`, `tier` | the tier's stream, and which voice it gives each slot of each stream (external) |
| `heard` | the words of the transcript by the slot they are filed under: what one stream heard in one slot is one piece |
| `reviewerNames`, `copied` | `m_reviewerNames`, in memory, and the copy of it that is used |
| `rows` | the name a reviewer gave last to the rows of a slot |
| `book` | the registry's rows in the store with their slots, evidence and publish status |
| `shared`, `deleted` | the voice database behind CAM++ (external) |
| `op`, `late` | one publishing handler for each operator, and posts nobody waits for any more |

`Rename` is the whole of `renameSpeaker`: a rename from one slot to another files
the rows and words of the first under the second, and `moved` remembers, for the
property only, that a person did so.  `Sync`, `Copy`, `Stage` and `End` are
`publishSpeakerRegistry` with the gap between `m_mutex` and `m_stateMutex`; a post may be
served, refused, time out, or be served after it timed out.

A `Crash` before the end is followed by a recovery: `LiveTranscript::restore`
keeps the rows and words under their slots, the names that waited are
gone, and the tier is given a new stream with its own slots and voices.  Slots are
numbered per stream and so are voices; that a new stream gives numbers which the
restored rows or the registry have already is the race `streams`.  It is not rare: a tier
that counts from zero does it whenever it hears anybody.  The code then pins two
people's words as one voice's evidence (run `streams`), so the passing run and the
theorem speak of recoveries in which the new stream is silent or has
numbers of its own, and of everything that comes after the end.  What is left for `OnlyVouchedIsShared` is
the interplay of merges, renames, staging, deletion and publishing.

Left out: that the tier's own names overwrite `m_nameBySlot` between two renames, and that
rows of one slot may show different names after a merge; `rows` is the name given last.

### MeetingClient

The GUI thread's queue of signals is `events`, the capture thread's queue of calls
`cmds`; a slot is one action.  A frame has the number it was spoken under, so
that the whole way from `device` over `queue` and `buf` to `sent` can be
compared with what was spoken; `of` and `excused` remember for which meeting it was
and which frames the operator was told are lost.  The worker is `StartOk` or `Fails`, its loop
(`LoopTake`, `LoopPaused`, `LoopStop` with the last look), one push (`SendOk`, `SendLost`,
`GivesUp`) and the ending (`StopSession`, `StopOk`).  The server is what it answers.  `MeetingRelay` has the detail of one push; here it is one step, with
retries and the end of the retry budget as its outcomes.

### TranscriptView

A place has a text (letters and a mark: the upgrade rule asks whether the change is
only punctuation), a speaker and a name, and is absent, provisional or committed.
The server side is what `LiveTranscript::snapshot` delivers; `answers` are the poll, an
edit's and a rename's answer on their way, which overtake one another.
`laneLock` and `displayLock` are `m_laneLocks` and `m_displayLocks`, each with its own
bound (`LaneLockMax` for `kLaneLockMax`, 6000 in the code, and `DisplayLockMax` for
`kDisplayLockMax`, 8000) and the eviction at it; `lanes` is what `Rebuild` draws.
`newest`, the history `NewestIsShown` compares with, forgets a place only when it is
neither on screen nor locked.

### Http2

A connection is two sequences of frames.  `cl` is `Http2Connection` with the one call that is on it,
`srv` a connection thread of `Http2Server` with its streams.  A unit of body is one DATA
frame, so windows are counted in frames; SETTINGS raise the initial window, after which
both ends adjust.  `sendBody` reads only when it has no credit,
`receiveUnary` only when it waits, and the server reads credit while it sends:
that is why `CallsEnd` is a question.  What is on the wire of a kind is a set (`Units`: a
frame and one of its units), so an amount is a cardinality and not a sum.  Calls are unary, one at a time on a connection, as the
channel's lock has it.

### The contract: WireContract, Hpack, GrpcFraming, SessionListing, TraceFeed, ReviewWindows

`WireContract` has, for every message, the field table its `serialize` writes and
the one its `parse` reads, each transcribed from its own function, and the operators that apply a table
(the groups `...Written` and `...Read`; the AsrSession messages the two programs exchange are
grouped by who writes them).  A oneof has a kind of its own: its flag is the sub-message, and
reading one half clears the other.
A value is what its kind distinguishes: absent or default, small, at the edge of the width.
Varints have three bits to a group and eight to a number rather than seven and sixty-four; a varint whose last allowed
byte has bits above the width is truncated and not refused, as in `readVarint`, and no writer makes one.
`Hpack` and `GrpcFraming` are operators too, with `RECURSIVE` where the code loops over
input; no theorem is stated about them.  The peer of `HeadersAgree` (external) compresses as RFC 7541 lets it,
but without `raise` it only ever lowers the limit of its table.  `MCContract` enumerates messages, numbers, strings,
header blocks and frame boundaries in the initial states and lets the three readers of
`StoreReaders`, and the timeline of `TranscriptView`, run beside:

- `SessionListing`: `listSessions` with its cursor of time and id, and its default and greatest
  page.  `rows` are the sessions, `walk` is the caller: its cursor, what it was shown, and what
  was there when it began and still is.  Meetings begin (at a clock that may go back) and are
  deleted at any time.
- `TraceFeed`: `drainTrace` and `appendTrace` write, `traceHistory` reads a page, and the window
  follows or walks through pages.  `feed` is `TraceWindow` with the question under way in each
  mode; an answer carries, as history, what it left behind.
- `ReviewWindows`: the panel's walk through windows of a growing transcript, its tail refresh and
  its edits.  A word is one second; `seen` is how many a meeting has, and each row says
  which it holds.

`ORDER BY` with `LIMIT n` is said without a sort: a row is among the first `n` if fewer than `n` are
before it.

## 3. The runs

| Run | Properties | Bounds |
|---|---|---|
| `buffer` | `AckedIsKept`, `HeardInOrder`, `DrainBarrier`, `RepeatsAreAccounted`, `QueueMirrorsJournal`, `ImplementsPromise`, `EveryAckIsSettled` | 3 packets, queue of 1, 2 restarts, 1 unanswered packet, both modes |
| `journal` | `AcceptedIsRecoverable`, `RecoveryIsExact` | 4 packets, 3 records to a segment, 2 crashes, 1 failed write |
| `relay` | `StoppedMeansHeard`, `ImplementsBuffer`, `StopEndsTheWorker` | 2 packets, queue of 1, 1 restart, disk faults and refused streams |
| `archive` | `AnsweredEditIsStored`, `FinishedIsStored`, `OnlyPeopleReplaceEdits`, `EditsReplaceWhatWasSeen` | 2 editors, 2 packets, 1 restart |
| `directory` | `StartedIsKept`, `KeptIsListed`, `DeletedStaysDeleted`, `ShutdownEnds` | 2 meetings, 1 restart |
| `tier` | `AnswersAreOfThisStream`, `TierHasWholeMeeting`, `MeetingEnds` | 3 packets, 2 silent ticks, 2 faults of 5 kinds, both tiers |
| `client` | `SpokenIsSent`, `MicrophoneIsReleased`, `RunningIsFollowed`, `WaitsEnd` | 2 meetings, 2 frames, queue of 1, packets of 2 frames, 2 faults |
| `http2` | `CreditIsConserved`, `OutcomeIsTrue`, `CallsEnd` | 2 calls, bodies of up to 3 frames, window 1 raised by 1, 2 connections, 1 served, 1 fault |
| `contract` | `MessagesAgree`, `EncodingsAreExact`, `HeadersAgree`, `CursorsLoseNothing`, `PanelIsWhole`, `NewestIsShown`, `HoldsStill` | all message tables; 4 meetings at 2 times in pages of 1 or 2; 5 trace events of 2 stages in batches of 2, 2 kept of a stage, pages of 1, 2 cards; 5 s of transcript in up to 3 windows of 2 s, 2 edits; a timeline of 2 places, 2 slots, 1 name, lane locks bounded at 1 and display locks at 2, 3 revisions, 1 guess |
| `speakers` | `OnlyVouchedIsShared`, `NamesReachTheBook`, `PublishedIsShared` | 2 voices, 2 slots, 2 names, 2 operators, 2 renames, 2 publishes, 1 deletion, 1 crash; voices, slots, names and operators are symmetric |
| `buffer_forgets_backlog` (violation) | `AckedIsKept` | 2 packets, 1 restart, the tier may refuse a stream |
| `streams` (violation) | `OnlyVouchedIsShared` | 2 voices, 2 slots, 1 rename, 1 publish, 1 crash, a new stream may reuse numbers |

Why the bounds are enough.  Three packets are a packet heard, one in the
forwarder's hands and one waiting; a fourth only repeats one of those places.  A
queue of one is full while the forwarder holds a packet, so refusal at the
limit, and its retry, happen.  Two restarts let a restart happen to what a
restart recovered: a backlog of a backlog.  Three records to a segment hold Meta,
one Packet and one Progress, so four packets rotate, retire and leave segments
with packets, without packets, and with both.  In `TranscriptArchive` two editors
are enough for one to overtake the other, in memory, in the archive and across
both; two packets give a word before and one after the boundary.  Two meetings are enough for a table
and for a client whose second session meets what the first left behind.  A queue of one
frame and a packet of two give an overflow, a partial packet and a tail.  Bodies of
three frames against a window of one, raised to two, stall on each side.  A lock table of one
evicts as soon as two words are on screen.  Windows of two seconds in five give a first, a middle
and a last window, and `MaxWindows` is reached.  A list of four read by one or two makes
every boundary of a page occur, two meetings of one instant across it included.  Five events with
two kept of a stage are trimmed under the cursor, and two cards are pushed out by a third.

The properties.  `AckedIsKept` is the invariant at the centre: an ACKed packet
was heard, was dropped by a rejection, or is in the part of the journal a
restart puts back.  `HeardInOrder` excludes reordering and holes, `DrainBarrier` is
the end of a meeting, `QueueMirrorsJournal` ties memory to disk, and
`RepeatsAreAccounted` counts duplicates: at most one for each crash and one for
each packet the tier used without saying so.  `AnsweredEditIsStored` follows an
edit to the end: once its editor was answered it is in the store, or somebody
edited the same place later.  `EditsReplaceWhatWasSeen` is optimistic
concurrency itself.  `KeptIsListed` and `DeletedStaysDeleted` relate four kinds of
remains on disk across handlers and crashes.  `TierHasWholeMeeting` is the far end of the drain
barrier, of Triton and of Riva.  `SpokenIsSent` compares what was spoken with what the server has, meeting by
meeting.  `CreditIsConserved` is a sum over both ends and the wire.  `HoldsStill` and
`NewestIsShown` pull against each other: either is easy without the other.
`PanelIsWhole` includes that a revision shown belongs to the text shown, which is all the
server checks before it takes a correction.

`NoForwarderOutlivesBackend` of `MeetingDirectory`, `SegmentsTrackQueue` of
`SessionJournal` and `EveryWordIsSaved` of `TranscriptArchive` (under `FairSpec`, one
editor) hold in these instances too and are in no run.

Deadlock is checked in `buffer`, `journal`, `archive`, `directory` and `tier`, which end
in a stuttering action for what is over.  The others say `CHECK_DEADLOCK FALSE`: a client,
a panel or a program may simply stop when the operator does, when the bounds of
calls, revisions or events are used up; and in `relay` a worker that is stopped
while it waits to reconnect never calls `stop_session`, and the session waits for its
client for ever, on purpose (`BufferHub.cpp:561-566`).

### Fairness

| Assumed | Because |
|---|---|
| WF of the forwarder | it is a thread; its waits are timed and its calls have deadlines |
| SF of `Answered \/ Rejection` | the tier is not away for ever: of endless attempts one is answered. Weak fairness would not do, since each failure disables the attempt |
| WF of `Restart`, `Exit` (`SessionBuffer`) | the service manager starts a process that ended; the destructor's join has a 15 s limit |
| WF of the worker, SF of `GiveUpStop` (`MeetingRelay`) | a thread, with deadlines; the retry budget of `drainAndStop` is wall-clock time and runs out however the retries alternate |
| WF of the reaper | a `QTimer` |
| WF of the shutdown's steps, of handlers and of the forwarder's reaction to its flag (`MeetingDirectory`) | the main thread goes on; every wait in a handler is bounded; `run` looks at the flag between packets |
| WF of both clients and of the link's return (`TierSession`) | the forwarder's thread, whose calls have deadlines; an outage ends. Nothing is asked of the tier: the drain has its deadline |
| WF of slots, capture, device timer, workers and poller (`MeetingClient`) | four threads and their event loops |
| WF of the caller and of each connection thread (`Http2`) | threads; the deadline is not fair, since no call may need it |

No fairness is put on the operator, on pushes, on the microphone, on the network
or on crashes: those need not happen.  `TranscriptArchive` has a `FairSpec` for `EveryWordIsSaved`
(the forwarder's timed saves), which no run uses.

## 4. Proofs

Eight modules hold theorems: one beside the module in its name, or beside the two or
more it extends (section 2).  A theorem speaks of every value of the constants - any number of packets, meetings,
editors, voices, crashes, faults - from the assumptions on the constants that
the module declares (`BoundsAssumption`, `ChoicesAssumption`,
`JournalAssumption` and so on: counts are natural numbers, choices are among the
words the module knows) and from the hypothesis in the table, where there is one.

| Theorem | What always holds | Hypothesis |
|---|---|---|
| `SessionBufferProofs`: `TypeCorrect` | `TypeOK` | - |
| `AcksAreKept` | `AckedIsKept` | `"open" \notin Faults` |
| `OrderIsKept` | `HeardInOrder` | - |
| `DrainIsABarrier` | `DrainBarrier` | - |
| `BufferKeepsItsPromise` | `ImplementsPromise` | `"disk" \notin Faults` |
| `JournalMirrorsQueue` | `QueueMirrorsJournal` | `"disk" \notin Faults` |
| `RepeatsAreBounded` | `RepeatsAreAccounted` | `"disk" \notin Faults` |
| `SessionJournalProofs`: `JournalTypeCorrect` | `TypeOK` | - |
| `AcceptedCanBeRecovered` | `AcceptedIsRecoverable` | - |
| `RecoveryFindsTheMemory` | `RecoveryIsExact` | - |
| `MeetingRelayProofs`: `RelayTypeCorrect` | `TypeOK` | - |
| `RelayImplementsBuffer` | `ImplementsBuffer` | - |
| `StopIsTruthful` | `StoppedMeansHeard` | - |
| `MeetingDirectoryProofs`: `DirectoryTypeCorrect` | `TypeOK` | - |
| `StartedMeetingsAreKept` | `StartedIsKept` | - |
| `KeptMeetingsAreListed` | `KeptIsListed` | `Races \subseteq {"late"}` |
| `DeletionIsFinal` | `DeletedStaysDeleted` | `Races \subseteq {"late"}` |
| `BackendIsFreedLast` | `NoForwarderOutlivesBackend` | `"late" \notin Races` |
| `TransportProofs`: `TierTypeCorrect` | `TypeOK` | - |
| `TierAnswersAreOfThisStream` | `AnswersAreOfThisStream` | - |
| `TritonHearsWholeMeeting` | `TritonHasWholeMeeting` | - |
| `TierDrainsWhole` | `DrainedIsWhole` (Riva) | `"early" \notin Faults` |
| `TierHearsWholeMeeting` | `TierHasWholeMeeting`, which is both | `"early" \notin Faults` |
| `HttpTypeCorrect` | `HttpTypeOK` | - |
| `CreditIsNeverLost` | `CreditIsConserved` | - |
| `OutcomesAreTrue` | `OutcomeIsTrue` | - |
| `TranscriptArchiveProofs`: `ArchiveTypeCorrect` | `TypeOK` | - |
| `TierReplacesNoEdit` | `OnlyPeopleReplaceEdits` | - |
| `FinishedMeetingIsStored` | `FinishedIsStored` | `"snapshots" \notin Races` |
| `AnsweredEditsSurvive` | `AnsweredEditIsStored` | none of `snapshots`, `copies`, `closing` |
| `NobodyOverwritesUnseen` | `EditsReplaceWhatWasSeen` | `Races = {}` |
| `WalkLosesNothing` | `WalkIsComplete` | - |
| `FeedLosesNothing` | `FeedIsComplete` | `TraceRaces = {}` |
| `CursorsAreComplete` | `CursorsLoseNothing`, which is both | `TraceRaces = {}` |
| `PanelShowsTheWhole` | `PanelIsWhole` | `ReviewRaces = {}`, `Length <= MaxWindows * Window + 1` |
| `SpeakerBookProofs`: `SharedVoicesAreVouchedFor` | `OnlyVouchedIsShared` | `"streams" \notin Races` |
| `SharedMeansShared` | `PublishedIsShared` | none of `publishers`, `late`, `record` |
| `GivenNamesReachTheBook` | `NamesReachTheBook` | none of `copy`, `restart`, `streams` |
| `MeetingClientProofs`: `ClientTypeCorrect` | `TypeOK` | `"pending" \notin Races` |
| `RunningMeetingIsFollowed` | `RunningIsFollowed` | none of `pending`, `stale` |
| `MicrophoneIsAlwaysReleased` | `MicrophoneIsReleased` | none of `pending`, `click` |
| `SpokenAudioIsSent` | `SpokenIsSent` | none of `pending`, `click`, `tail` |
| `NewestWordIsShown` | `NewestIsShown` | `ViewRaces = {}` |
| `TimelineHoldsStill` | `HoldsStill` | - |

The hypotheses are the races and faults of section 2.  A dash means that no
race and no fault of the module can break the property.  Where words are
excluded they are excluded because TLC breaks the property with them, not for the
proof's sake: `buffer_forgets_backlog` is the counterexample to `AcksAreKept`
with `open`, the three that exclude `disk` fail when a record may not reach it,
and the table of races names the others.  `EditsReplaceWhatWasSeen`
falls to each of its four words (`closing` and `restart` with two editors,
`copies` and `snapshots` with three), and `MicrophoneIsReleased` to `click` with
two faults: a start that failed for the last meeting is taken for the next one's.
With `pending` the client makes a second worker over the first, which is
one more than the model counts; that is why it is excluded everywhere.  The length in
`PanelShowsTheWhole` is what the panel can walk through: it gives up after `kMaxWindows` windows of
`kWindowSec`, 33 hours of meeting (`ReviewPanel.cpp:32`).

None of these properties is inductive alone.  What each proof carries besides:

- **SessionBuffer.** `IInv`: `JournalHasNoHole` (the journal has every ACKed packet
  and every packet below one it has), `MemoryIsOnDisk` (what is queued or held was
  journalled; what is at or below the recorded progress was heard),
  `HoldsTheOldest`, `WatermarkIsHigh`, `NothingSlipsAway` (an accepted packet is
  heard, queued, held, or given up after a rejection), `FatalIsFinal` and
  `EndingIsSettled`.  `AckedIsKept` follows: an ACKed packet is in the journal, so
  above the progress and in `Backlog`, or at most the progress and heard.  The
  refinement adds `EndingIsOnRecord`, without which a restart could reopen what was
  closed; `StepsRefine` maps each action to a step of `RelayPromise` or a stutter.
  `JournalMirrorsQueue` adds `BacklogIsQueue`: what a restart would recover is the
  queue with the packet in hand, and only the oldest of it can have been heard.
  `RepeatsAreBounded` adds `RepeatsArePaid`, an account: a packet that was heard and
  is still in the backlog costs one repeat, which a crash or an unanswered call has
  paid for.
- **SessionJournal.** `Typed` includes `Segments`: a file is whole records and at most
  half a record at its end, and in the open file only while the rest is in the write
  buffer.  `Marks` says that the `high` kept of a segment bounds its packets, which
  is what makes retirement safe; `Durable` that what is accepted and not forwarded
  is on disk and every Progress mark is behind it; `Exact` the equality with
  memory while no write has failed.  A step of the disk is summed up as `Gains`
  (what records appear, in which segment) before it meets the invariant.
- **MeetingRelay.** `SentIsAcked`: the worker goes on only from an ACK.  That is enough
  for every step to be one of `SessionBuffer`, whose theorems are then used through
  `INSTANCE`: `StopIsTruthful` is `DrainIsABarrier` seen from the client.
- **MeetingDirectory.** Three invariants, because the properties rest on different
  things: `KeepInv` for what is never lost (a start that is not answered is in no list;
  what leaves the list is over), `DeleteInv` for deletion (`AliveIsListed`,
  `OneHandler`, `DeletionHolds`: what each step of a deletion may rely on) and
  `JoinInv` for the shutdown (`AliveIsOwned`: whose a live forwarder is in each phase).
- **TierSession.** For Riva `OneStream` (consecutive packets from the one in hand when the
  stream was opened; a prefix of them is heard, and answered; the end is read after the answers),
  `KeepsUp` (a stream that still serves has every packet the forwarder has let go of),
  `NoneLost` (an answer of an open stream is on its way, in the buffer, taken or
  applied) and `OkIsTrue` (the contract at `early`, carried over the wire); for
  Triton `FromTheFirst` (consecutive from the first infer that was answered, with
  repetitions of the last packet only).  `StopIsWhole` joins them where the stop is answered.
- **Http2.** `HttpInv` is a statement about one connection (`ConnOn`), about the client (`ClientOn`), and
  two that tie connections together: `Apart` (a call was asked on one connection only) and
  `Outcomes`.  `ConnOn` says in which order the frames of both directions come and what they
  can still be followed by (`RequestOn`, `SettingsUp`, `SettingsDown`), that a request which
  ends on the wire is whole there or in the thread's hands (`WholeOn`), that a request not yet
  taken has not run (`PendingOn`), that an answer under way belongs to the call that waits for
  it (`LiveOn`, `AnswerOn`, `SentOn`), and the credit equations (`CreditOn`).  The equations are
  kept where the connection is no longer up too, since its other end may not know that yet.
  Lemma `Step` reduces a step of the protocol to the one connection it touches; the wire enters
  the equations as a cardinality, which changes by one with each frame sent or taken.
- **TranscriptArchive.** `Bounded` (nothing stands ahead of the sound), `Mine` (an edit is out of
  the reach of corrections), `OneSaving`/`OneSnapshot`, `UpToDate` (a saved version is the
  current text), `Stored` (an answered edit is in every copy that can still be
  written), `Ordered` and `Based` (what an editor was shown is what any copy with that
  revision holds, apart from words not heard yet).
- **SpeakerBook.** `Lineage` (no slot and no voice is of two streams, and words are under another
  slot only by a merge), on which `Vouching` rests (evidence is the voice's own speech
  wherever it is: registry, handler, late post, shared database); `OnePublisher` and
  `Recorded` for what is called shared; `RowsAreTrue` (a registry row has the slots the tier gave its
  voice, and nothing pinned before the end), `Waiting` and `Naming` for names.
- **MeetingClient.** `OneAtATime` and `EndsAreLast` (the queued signals of workers are the
  running one's, and its end is the last of them), on which all else rests;
  `Following` for the poller; `Microphone` (while capture is not wanted, it is closed or the
  last queued call closes it); and for the audio `InOrder`, `OwnAudio`, `Drained`,
  `Silence`, `Counted`, `Kept`.  `AudioMoves` sums up what a step can do to the audio
  under way - eight kinds of step - so that each invariant meets eight cases and not thirty
  actions.
- **TranscriptView.** For `TimelineHoldsStill` types and `DrawnOn` are enough: what is drawn of a
  place is exactly what its two locks hold, so it holds still where the locks do, whatever
  the server answers.  `ViewInv` adds what makes the locks hold the newest: a revision
  says what is committed (`Determined`), of the two channels at most one is late (`OneLate`),
  what is on screen is of the model's revision (`ModelOn`, `RevOn`), what the newest answer had is
  locked and whatever comes late is below the lock (`HeldOn`), and what may still come wins against
  the lock or says the same (`NextOn`).  All steps of the server are one case (`Says`), and a
  rebuild is taken place by place (`Rebuilt`).
- **SessionListing.** `WalkInv`: nothing shown is after the cursor, and what was there all along was
  shown or is after it.  A page is the newest rows found (`PageIsNewest`), so the cursor moves over
  nothing that it does not show.
- **TraceFeed.** `FeedInv`: `StoreOK` (numbers are unique, and what waits to be written is above all that
  is written), `Passed` (a cursor is above nothing that may still be written: this is what a
  restart breaks), `TraceAnswerOK` (an answer that will be taken has every event between the
  cursor and where it will stand, and one that says there is no more left nothing behind) and
  `CardsOK` (the cards are the events up to the cursor but for those pushed out).  The
  last event written is never trimmed, without which the cursor could stand above an empty trace.
- **ReviewWindows.** `ReviewInv`: `MeetingsInv` (each word so far is in exactly one row), `LoadingInv` (the
  answer under way has all of its window that the meeting had, its rows are cut on neither side of the
  cursor, and the panel has every word below the cursor already) and `ShownInv` (while
  the meeting runs, every word below the boundary, in the meeting's rows; after its end, each
  word once, and in the meeting's rows as long as the revisions agree).  `Continues` sums up
  all that a meeting can do while it is being read.

Some definitions were written for the proofs without changing what they mean:
`SessionJournal` says `WithFile` for an update of its file function, `TypeOK`
of `MeetingClient` types the signals, `Http2` counts the wire as the cardinality of a set, and
`TranscriptView` and the three readers say with sets and functions of places what the
code says with sorted lists.

The proofs corrected two of the models.  `TranscriptView` had one bound for both lock
tables, and its history of the newest answer forgot too late: beyond the bounds of the run the
property was false for reasons that are not the code's.  `ReviewWindows` announced the end of a
load between two of its windows, and let its tail refresh run whether or not the timer did;
the refresh after a failed load, which the code does have, became the race `failure`.

Model-checked only, and why:

- Liveness and fairness: `EveryAckIsSettled`, `StopEndsTheWorker`, `ShutdownEnds`, `MeetingEnds`,
  `WaitsEnd`, `CallsEnd`.  Beyond the prover.
- `MessagesAgree`, `EncodingsAreExact` and `HeadersAgree` of `MCContract`: `Hpack`, `GrpcFraming` and
  `WireContract` loop over their input, with `RECURSIVE` operators and folds.  What those compute on
  every input needs induction over data, which the installed provers cannot apply.  `MessagesAgree` is
  besides a statement about finite tables, which TLC checks whole.
- Every other invariant and action property of the runs is proved.

## 5. Not modelled

- seq 0: the worker numbers packets from 1 (`SessionWorker.cpp:182`).
- The bytes of a record, its CRC and its codec: a record is readable or torn.
- Power loss below the file system (`Durability::Fsync` against `Os`).  A crash
  is the end of the process.
- The journal being off, or failing when the session starts: the session then
  lives in memory and promises nothing across a restart.
- A store whose writes fail (`SessionStore.cpp:333` logs it and goes on) and short
  writes of the audio file (`:469-501`), after which all later audio is shifted: the code makes no
  promise there that could be checked.  The audit table: appended, never read by the server.
- `RpcLane` and the upstream probe: a pool of channels each used under its lock, and a number for display.
- Of the transport: TLS, PING, PRIORITY, padding.
- Word timings and diarization except as places, slots and owners; `record_only`
  meetings have no transcript.
- Settings, the self-test, logging, media decoding and resampling, `EvidenceWindow`,
  the enrolment and other dialogs: widgets over single requests, or functions without state.

## 6. Findings

With a run of its own:

1. **A refused stream at recovery discards the backlog** (`SessionBuffer.cpp:1187`,
   run `buffer_forgets_backlog`).  A recovered session whose stream cannot be
   opened is finished with its queue full of ACKed packets, and forgetting it
   removes the journal.

2. **A recovered meeting mixes voices** (`SessionBuffer.cpp:861`, run `streams`).  The new
   stream of a recovered meeting counts its slots from zero, `LiveTranscript::restore` keeps the
   rows of the old one under the same numbers, and the evidence of a slot
   (`LiveTranscript.cpp:651-726`) is taken from both.  Two people's speech is pinned under one name,
   and a publish shares it with every later meeting.  `LiveTranscript.cpp:130-131` says why turns of another
   stream must not be carried over, and `SessionBuffer.cpp:824-825` that evidence comes
   "only from the diarization slots that voice actually owns".

Beside the races of section 2, TLC shows these when the named property is checked:

3. **The keep-alive does not go out** (`RivaAsr.cpp:171`; `KeepAliveGoesOut` in `Contract.cfg`).  The comment above it says that an
   audio message with an empty payload is meaningful and "the flag decides, not the size"; `putBytes`
   drops an empty value (`ProtoWire.cpp:122-125`).  No caller sends one today.
4. **A table limit may not rise again** (`Hpack.cpp:440`; `SizeUpdatesAreTaken` in
   `Contract.cfg` with `HeaderRaces = {"raise"}`).  A size update is compared with
   the limit the last one left, not with the value of SETTINGS the comment above it names, so
   a peer that shrinks its table and raises it again is refused.
5. **A rejected packet is retried after a restart** (`SessionBuffer.cpp:1237`;
   `RejectedIsNotRetried` in `Buffer.cfg`).  The verdict is in memory only, while
   `luong-hoat-dong.md:702-704` says it is never retried.
6. **A graceful restart is visible** (`main.cpp:260`; `RestartIsInvisible` in
   `Relay.cfg`).  For as long as the hub is empty and the port open, `push_audio` answers
   `NOT_FOUND`, which ends the meeting on the client, against `luong-hoat-dong.md:774-776`.
7. **Segments from before a restart stay** (`SessionJournal.cpp:316`;
   `HoldsOneOrTwoSegments` in `Journal.cfg`) until the session is forgotten, against
   `SessionJournal.h:56-57`.  `SegmentsTrackQueue` is what does hold.
8. **An outage of Riva ends the meeting** (`RivaBackend.cpp:93-108`; `OutageIsWaitedOut` in
   `Tier.cfg` with `Faults = {"outage"}`).  When the redial of `reset` fails, the next push is answered
   `FAILED_PRECONDITION`, which the forwarder takes for a rejection, against the comment
   at `RivaBackend.cpp:152-156`.
9. **A re-opened Riva stream counts from zero** (`SessionBuffer.cpp:919-923`, "On the meeting's
   timeline, not the stream's"; `OnMeetingTimeline`): the offset moves only at a recovery.
   Answers in flight at a reset are lost, `finish` on a torn-down stream answers OK, and Triton's `finish` is not retried.
10. **A start can outlive the hub** (`BufferHub.cpp:312`; race `late`): its forwarder uses the freed backend.
   A start whose stream cannot be opened leaves a journal with only Meta, recovered as a meeting that
   never began (`:304`).

Of the races of section 2, these contradict a comment or a document:

- `snapshots`, `closing`, `copies`: `SessionBuffer.cpp:579-582` (an edit goes "Down to the
  store now") and `huong-dan-su-dung.md:484-486` (nobody's work is silently overwritten).
- `straddle`: `ReviewPanel.cpp:28-31` says windows overlap "by the server's own +-12 s margin";
  `LiveTranscript::snapshot` has none and clips, so the second, clipped copy of a row replaces the first under the same id,
  and its beginning disappears.
- `restart` of the trace: `SessionBuffer.cpp:758-762` says the cursor "has to keep rising across that";
  the counter starts at 0 after a restart of the server.
- `stage`: `has_more` is "an observation rather than a guess", but of rows before the filter.
- `failure`: `ReviewPanel.cpp:336-337` refreshes from the commit boundary because "Only rows past the
  commit boundary can still change".  When a running meeting is opened again and that load fails
  half way (`:263-266`), the timer of the first load is still running; the next refresh begins one window
  before the boundary, and its end announces what the panel has as the transcript (`rev=`, rows), without
  the windows the failed load never reached.
- `tail`: `SessionController::stop` stops capture by a queued call, and `SessionWorker.cpp:375-377` relies on
  its having happened.

Read while modelling, in no property: the HTTP/2 client adds a
WINDOW_UPDATE of any stream to its current one, and does not credit back DATA of another; the caller's
deadline does not stop the handler; pausing a file replay pauses nothing; punctuation-only upgrades
in `TranscriptModel` look at no revision; renaming a speaker that has a name does not move its words.
"Everything the client sent is now upstream" (`SessionBuffer.cpp:1229-1230`) does not hold after a rejection, when
the queue is empty because it was cleared: `DrainBarrier` therefore says "heard or given up".
The comments of `SessionJournal.h:26-27` and `luong-hoat-dong.md` 7b.7 still say the tier's seq idempotency
absorbs duplicates; the note at `SessionBuffer.cpp:933-940` says it does not, and the model follows the note.

## 7. Plan

What is left open:

1. That `SessionJournal` implements the sets `SessionBuffer` keeps of it (section 2, `SessionJournal`),
   which is an argument so far.
2. `SegmentsTrackQueue` of `SessionJournal`, from `Durable` and `Marks`.
3. The encodings for every input, which waits for a prover that can apply induction to an
   operator, and liveness, which waits for one that knows fairness.
