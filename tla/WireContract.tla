---------------------------- MODULE WireContract ----------------------------
(***************************************************************************)
(* The contract every process speaks: the proto3 wire format of ProtoWire  *)
(* and the field tables of each message, of the recogniser's sessions, of  *)
(* the speaker registry, of the two inference tiers and of the buffer's    *)
(* administration.                                                         *)
(*                                                                         *)
(* The code has no schema compiler.  serialize and parse of a message are  *)
(* two hand-written lists of numbers and types, and nothing but a run      *)
(* against a live peer compares them.  A table gives, for each message,    *)
(* its fields with the number and the kind the list uses; ...Written is    *)
(* what serialize emits, ...Read what parse takes.                         *)
(*                                                                         *)
(* An encoded message is the sequence of its entries: number, wire type,   *)
(* payload.  A scalar, a string or a nested message is one small number,   *)
(* 0 its default or empty value; what is nested is encoded by its own      *)
(* table.                                                                  *)
(***************************************************************************)
EXTENDS Integers, Sequences, FiniteSets, TLC, SequencesExt, FiniteSetsExt

CONSTANT Garbled  \* what no field holds

Str(n) == <<n, "string">>
Bin(n) == <<n, "bytes">>
Bool(n) == <<n, "bool">>
Enum(n) == <<n, "enum">>
U32(n) == <<n, "uint32">>
U64(n) == <<n, "uint64">>
I32(n) == <<n, "int32">>
I64(n) == <<n, "int64">>
Flt(n) == <<n, "float">>
Dbl(n) == <<n, "double">>
Strs(n) == <<n, "strings">>
Bins(n) == <<n, "blobs">>
Msgs(n) == <<n, "messages">>
Map(n) == <<n, "map">>
FltP(n) == <<n, "floats">>
I32P(n) == <<n, "int32s">>
I64P(n) == <<n, "int64s">>
\* A nested message: always written, only when it holds something, with
\* explicit presence; an optional scalar.
Sub(n) == <<n, "message">>
SubIf(n) == <<n, "message if any">>
OptSub(n) == <<n, "optional message">>
OptI(n) == <<n, "optional int32">>
OptF(n) == <<n, "optional float">>
\* The half of a oneof that its nested message, when it is set, leaves out.
Half(n) == <<n, "half of a oneof">>
Empty == <<>>

----------------------------------------------------------------------------
(* The tables *)

\* The client writes calls ...
AsrCallsWritten == [
    StartSessionRequest |-> [configJson |-> Str(1)],
    PushAudioRequest |-> [sessionId |-> Str(1), pcm |-> Bin(2), sampleRate |-> U32(3),
        channels |-> U32(4), audioFormat |-> Str(5), reset |-> Bool(6),
        vadChunkMs |-> U32(7), seq |-> U64(8)],
    SessionRequest |-> [sessionId |-> Str(1)],
    ReviewRequest |-> [sessionId |-> Str(1), hasViewStartSec |-> Bool(2),
        viewStartSec |-> Dbl(3), hasViewEndSec |-> Bool(4), viewEndSec |-> Dbl(5)],
    AudioRangeRequest |-> [sessionId |-> Str(1), startSec |-> Dbl(2), endSec |-> Dbl(3)],
    Word |-> [w |-> Str(1), c |-> Flt(2), startSec |-> Dbl(3), endSec |-> Dbl(4),
        speaker |-> Str(5)],
    TextEditRequest |-> [sessionId |-> Str(1), baseRevision |-> U64(2), startSec |-> Dbl(3),
        endSec |-> Dbl(4), replacementWords |-> Msgs(5), editorId |-> Str(6),
        note |-> Str(7)],
    ListSessionsRequest |-> [limit |-> U32(1), cursor |-> Str(2)],
    DeleteSessionRequest |-> [sessionId |-> Str(1), editorId |-> Str(2)],
    DeleteSessionResponse |-> [sessionId |-> Str(1), bytesRemoved |-> U64(2),
        deletedAt |-> Dbl(3)],
    RenameSpeakerRequest |-> [sessionId |-> Str(1), fromSpeaker |-> Str(2),
        toSpeaker |-> Str(3), verifiedName |-> Str(4), editorId |-> Str(5), note |-> Str(6)],
    PipelineTraceRequest |-> [sessionId |-> Str(1), afterSeq |-> U64(2), limit |-> U32(3),
        stages |-> Strs(4)],
    AuditHistoryRequest |-> [sessionId |-> Str(1), limit |-> U32(2)]
]

\* ... the server reads them,
AsrCallsRead == [
    StartSessionRequest |-> [configJson |-> Str(1)],
    PushAudioRequest |-> [sessionId |-> Str(1), pcm |-> Bin(2), sampleRate |-> U32(3),
        channels |-> U32(4), audioFormat |-> Str(5), reset |-> Bool(6),
        vadChunkMs |-> U32(7), seq |-> U64(8)],
    SessionRequest |-> [sessionId |-> Str(1)],
    ReviewRequest |-> [sessionId |-> Str(1), hasViewStartSec |-> Bool(2),
        viewStartSec |-> Dbl(3), hasViewEndSec |-> Bool(4), viewEndSec |-> Dbl(5)],
    AudioRangeRequest |-> [sessionId |-> Str(1), startSec |-> Dbl(2), endSec |-> Dbl(3)],
    TextEditRequest |-> [sessionId |-> Str(1), baseRevision |-> U64(2), startSec |-> Dbl(3),
        endSec |-> Dbl(4), replacementWords |-> Msgs(5), editorId |-> Str(6),
        note |-> Str(7)],
    ListSessionsRequest |-> [limit |-> U32(1), cursor |-> Str(2)],
    DeleteSessionRequest |-> [sessionId |-> Str(1), editorId |-> Str(2)]
]

AsrEditsRead == [
    DeleteSessionResponse |-> [sessionId |-> Str(1), bytesRemoved |-> U64(2),
        deletedAt |-> Dbl(3)],
    RenameSpeakerRequest |-> [sessionId |-> Str(1), fromSpeaker |-> Str(2),
        toSpeaker |-> Str(3), verifiedName |-> Str(4), editorId |-> Str(5), note |-> Str(6)],
    PipelineTraceRequest |-> [sessionId |-> Str(1), afterSeq |-> U64(2), limit |-> U32(3),
        stages |-> Strs(4)],
    AuditHistoryRequest |-> [sessionId |-> Str(1), limit |-> U32(2)]
]

\* ... writes its answers,
AsrViewWritten == [
    AudioRangeResponse |-> [sessionId |-> Str(1), pcm |-> Bin(2), sampleRate |-> U32(3),
        channels |-> U32(4), audioFormat |-> Str(5), startSec |-> Dbl(6), endSec |-> Dbl(7),
        totalSec |-> Dbl(8)],
    Phrase |-> [text |-> Str(1), avgConf |-> Flt(2), isLowConf |-> Bool(3),
        startSec |-> Dbl(4), endSec |-> Dbl(5), words |-> Msgs(6)],
    DisplayRow |-> [rowId |-> Str(1), speaker |-> Str(2), speakerProb |-> Flt(3),
        verifiedName |-> Str(4), startSec |-> Dbl(5), endSec |-> Dbl(6),
        mergedText |-> Str(8), updatingText |-> Str(10), stableTokenCount |-> U32(11),
        isProvisional |-> Bool(12), phrases |-> Msgs(13), displayTokens |-> Msgs(14),
        updatingTokens |-> Msgs(15)],
    Highlight |-> [startSec |-> Dbl(1), speaker |-> Str(2), text |-> Str(3),
        confPct |-> U32(4)],
    LatencyClient |-> [prepareP50 |-> Dbl(1), prepareP95 |-> Dbl(2), waitP50 |-> Dbl(3),
        waitP95 |-> Dbl(4), parseP50 |-> Dbl(5), parseP95 |-> Dbl(6), e2eP50 |-> Dbl(7),
        e2eP95 |-> Dbl(8), overheadVsServerSumP50 |-> Dbl(9),
        overheadVsServerSumP95 |-> Dbl(10)],
    LatencyServer |-> [asrP50 |-> Dbl(1), asrP95 |-> Dbl(2), diarP50 |-> Dbl(3),
        diarP95 |-> Dbl(4), verifyP50 |-> Dbl(5), verifyP95 |-> Dbl(6), itnP50 |-> Dbl(7),
        itnP95 |-> Dbl(8), vadP50 |-> Dbl(9), vadP95 |-> Dbl(10), denoiseP50 |-> Dbl(11),
        denoiseP95 |-> Dbl(12), sumP50 |-> Dbl(13), sumP95 |-> Dbl(14)],
    LatencyUi |-> [onChunkTotalP50 |-> Dbl(1), onChunkTotalP95 |-> Dbl(2)],
    LatencySummary |-> [client |-> Sub(1), server |-> Sub(2), ui |-> Sub(3)],
    SessionState |-> [title |-> Str(1), confThresholdPct |-> U32(2), rows |-> Msgs(3),
        provisionalRows |-> Msgs(4), speakerIds |-> Strs(5), highlights |-> Msgs(6),
        nPhrases |-> U32(7), nLow |-> U32(8), ampTrace |-> FltP(9),
        ampTraceStepSec |-> Dbl(10), sourceTotalSec |-> Dbl(11), sourceSeenSec |-> Dbl(12),
        speechSeenSec |-> Dbl(13), wallElapsedSec |-> Dbl(14), playheadRatio |-> Dbl(15),
        done |-> Bool(16), ts |-> Dbl(17), lastAsrChunkMs |-> U32(18),
        inferP50Ms |-> Dbl(19), inferP95Ms |-> Dbl(20), latency |-> Sub(21)],
    EventFlags |-> [streaming |-> Bool(1), correction |-> Bool(2), final |-> Bool(3)]
]

AsrAnswersWritten == [
    Diarization |-> [flatScores |-> FltP(1), shape |-> I32P(2), subframeStartMs |-> I64P(3),
        subframeEndMs |-> I64P(4)],
    CorrectionUpdate |-> [text |-> Str(1), fullText |-> Str(2), committedText |-> Str(3),
        tailText |-> Str(4), mergedWords |-> Msgs(5), updatedIndices |-> I32P(6),
        updateStartSec |-> Dbl(7), updateEndSec |-> Dbl(8), commitBoundarySec |-> Dbl(9),
        numCommitted |-> U32(10), numTail |-> U32(11), itnMs |-> Dbl(12),
        mergeMs |-> Dbl(13)],
    Timing |-> [clientPrepareMs |-> Dbl(1), clientWaitMs |-> Dbl(2), asrMs |-> Dbl(3),
        diarMs |-> Dbl(4), verifyMs |-> Dbl(5), itnMs |-> Dbl(6), vadMs |-> Dbl(7),
        denoiseMs |-> Dbl(8)],
    StartSessionResponse |-> [sessionId |-> Str(1), streamId |-> I64(2),
        stateVersion |-> U64(3), state |-> Sub(4)],
    PushAudioResponse |-> [sessionId |-> Str(1), streamId |-> I64(2),
        stateVersion |-> U64(3), events |-> Sub(4), sourceSeenSec |-> Dbl(5),
        speechSeenSec |-> Dbl(6), streamingText |-> Str(7), text |-> Str(8),
        itnText |-> Str(9), itnFullText |-> Str(10), itnCorrectionText |-> Str(11),
        asrWords |-> Msgs(12), asrConfidence |-> Flt(13), asrWordConfidence |-> FltP(14),
        speaker |-> Str(15), speakerProb |-> Flt(16), verifiedName |-> Str(17),
        verifyScore |-> Flt(18), chunkStartMs |-> I64(19), chunkStartSec |-> Dbl(20),
        chunkEndSec |-> Dbl(21), diarization |-> Sub(22), correction |-> Sub(23),
        timing |-> Sub(24)],
    StateResponse |-> [sessionId |-> Str(1), streamId |-> I64(2), stateVersion |-> U64(3),
        state |-> Sub(4), transcriptRevision |-> U64(5), transcriptFinal |-> Bool(6),
        commitBoundarySec |-> Dbl(7)],
    StopSessionResponse |-> [sessionId |-> Str(1), streamId |-> I64(2),
        stateVersion |-> U64(3), events |-> Sub(4), result |-> Sub(5), state |-> Sub(6)],
    CanonicalTranscript |-> [revision |-> U64(1), final |-> Bool(2),
        commitBoundarySec |-> Dbl(3), text |-> Str(4), words |-> Msgs(5)],
    ReviewEditResponse |-> [sessionId |-> Str(1), transcript |-> Sub(2), state |-> Sub(3)],
    SessionSummary |-> [sessionId |-> Str(1), title |-> Str(2), createdAt |-> Dbl(3),
        updatedAt |-> Dbl(4), durationSec |-> Dbl(5), final |-> Bool(6),
        running |-> Bool(7), participants |-> Strs(8), securityLevel |-> Str(9),
        mode |-> Str(10)]
]

AsrHistoryWritten == [
    ListSessionsResponse |-> [sessions |-> Msgs(1), nextCursor |-> Str(2)],
    PipelineTraceEvent |-> [seq |-> U64(1), ts |-> Dbl(2), stage |-> Str(3),
        event |-> Str(4), audioStartSec |-> Dbl(5), audioEndSec |-> Dbl(6),
        payloadJson |-> Str(7)],
    PipelineTraceResponse |-> [sessionId |-> Str(1), events |-> Msgs(2), nextSeq |-> U64(3),
        hasMore |-> Bool(4), enabled |-> Bool(5), truncated |-> Bool(6),
        maxBytes |-> U64(7)],
    AuditEvent |-> [ts |-> Dbl(1), event |-> Str(2), payloadJson |-> Str(3)],
    AuditHistoryResponse |-> [sessionId |-> Str(1), events |-> Msgs(2)],
    ModelStatusEntry |-> [name |-> Str(1), version |-> Str(2), state |-> Str(3)],
    ModelStatusResponse |-> [models |-> Msgs(1)]
]

\* ... and the client reads them.
AsrViewRead == [
    AudioRangeResponse |-> [sessionId |-> Str(1), pcm |-> Bin(2), sampleRate |-> U32(3),
        channels |-> U32(4), audioFormat |-> Str(5), startSec |-> Dbl(6), endSec |-> Dbl(7),
        totalSec |-> Dbl(8)],
    Word |-> [w |-> Str(1), c |-> Flt(2), startSec |-> Dbl(3), endSec |-> Dbl(4),
        speaker |-> Str(5)],
    Phrase |-> [text |-> Str(1), avgConf |-> Flt(2), isLowConf |-> Bool(3),
        startSec |-> Dbl(4), endSec |-> Dbl(5), words |-> Msgs(6)],
    DisplayRow |-> [rowId |-> Str(1), speaker |-> Str(2), speakerProb |-> Flt(3),
        verifiedName |-> Str(4), startSec |-> Dbl(5), endSec |-> Dbl(6),
        mergedText |-> Str(8), updatingText |-> Str(10), stableTokenCount |-> U32(11),
        isProvisional |-> Bool(12), phrases |-> Msgs(13), displayTokens |-> Msgs(14),
        updatingTokens |-> Msgs(15)],
    Highlight |-> [startSec |-> Dbl(1), speaker |-> Str(2), text |-> Str(3),
        confPct |-> U32(4)],
    LatencyClient |-> [prepareP50 |-> Dbl(1), prepareP95 |-> Dbl(2), waitP50 |-> Dbl(3),
        waitP95 |-> Dbl(4), parseP50 |-> Dbl(5), parseP95 |-> Dbl(6), e2eP50 |-> Dbl(7),
        e2eP95 |-> Dbl(8), overheadVsServerSumP50 |-> Dbl(9),
        overheadVsServerSumP95 |-> Dbl(10)],
    LatencyServer |-> [asrP50 |-> Dbl(1), asrP95 |-> Dbl(2), diarP50 |-> Dbl(3),
        diarP95 |-> Dbl(4), verifyP50 |-> Dbl(5), verifyP95 |-> Dbl(6), itnP50 |-> Dbl(7),
        itnP95 |-> Dbl(8), vadP50 |-> Dbl(9), vadP95 |-> Dbl(10), denoiseP50 |-> Dbl(11),
        denoiseP95 |-> Dbl(12), sumP50 |-> Dbl(13), sumP95 |-> Dbl(14)]
]

AsrStateRead == [
    LatencyUi |-> [onChunkTotalP50 |-> Dbl(1), onChunkTotalP95 |-> Dbl(2)],
    LatencySummary |-> [client |-> Sub(1), server |-> Sub(2), ui |-> Sub(3)],
    SessionState |-> [title |-> Str(1), confThresholdPct |-> U32(2), rows |-> Msgs(3),
        provisionalRows |-> Msgs(4), speakerIds |-> Strs(5), highlights |-> Msgs(6),
        nPhrases |-> U32(7), nLow |-> U32(8), ampTrace |-> FltP(9),
        ampTraceStepSec |-> Dbl(10), sourceTotalSec |-> Dbl(11), sourceSeenSec |-> Dbl(12),
        speechSeenSec |-> Dbl(13), wallElapsedSec |-> Dbl(14), playheadRatio |-> Dbl(15),
        done |-> Bool(16), ts |-> Dbl(17), lastAsrChunkMs |-> U32(18),
        inferP50Ms |-> Dbl(19), inferP95Ms |-> Dbl(20), latency |-> Sub(21)],
    EventFlags |-> [streaming |-> Bool(1), correction |-> Bool(2), final |-> Bool(3)],
    Diarization |-> [flatScores |-> FltP(1), shape |-> I32P(2), subframeStartMs |-> I64P(3),
        subframeEndMs |-> I64P(4)],
    CorrectionUpdate |-> [text |-> Str(1), fullText |-> Str(2), committedText |-> Str(3),
        tailText |-> Str(4), mergedWords |-> Msgs(5), updatedIndices |-> I32P(6),
        updateStartSec |-> Dbl(7), updateEndSec |-> Dbl(8), commitBoundarySec |-> Dbl(9),
        numCommitted |-> U32(10), numTail |-> U32(11), itnMs |-> Dbl(12),
        mergeMs |-> Dbl(13)],
    Timing |-> [clientPrepareMs |-> Dbl(1), clientWaitMs |-> Dbl(2), asrMs |-> Dbl(3),
        diarMs |-> Dbl(4), verifyMs |-> Dbl(5), itnMs |-> Dbl(6), vadMs |-> Dbl(7),
        denoiseMs |-> Dbl(8)],
    StartSessionResponse |-> [sessionId |-> Str(1), streamId |-> I64(2),
        stateVersion |-> U64(3), state |-> Sub(4)]
]

AsrAnswersRead == [
    PushAudioResponse |-> [sessionId |-> Str(1), streamId |-> I64(2),
        stateVersion |-> U64(3), events |-> Sub(4), sourceSeenSec |-> Dbl(5),
        speechSeenSec |-> Dbl(6), streamingText |-> Str(7), text |-> Str(8),
        itnText |-> Str(9), itnFullText |-> Str(10), itnCorrectionText |-> Str(11),
        asrWords |-> Msgs(12), asrConfidence |-> Flt(13), asrWordConfidence |-> FltP(14),
        speaker |-> Str(15), speakerProb |-> Flt(16), verifiedName |-> Str(17),
        verifyScore |-> Flt(18), chunkStartMs |-> I64(19), chunkStartSec |-> Dbl(20),
        chunkEndSec |-> Dbl(21), diarization |-> Sub(22), correction |-> Sub(23),
        timing |-> Sub(24)],
    StateResponse |-> [sessionId |-> Str(1), streamId |-> I64(2), stateVersion |-> U64(3),
        state |-> Sub(4), transcriptRevision |-> U64(5), transcriptFinal |-> Bool(6),
        commitBoundarySec |-> Dbl(7)],
    StopSessionResponse |-> [sessionId |-> Str(1), streamId |-> I64(2),
        stateVersion |-> U64(3), events |-> Sub(4), result |-> Sub(5), state |-> Sub(6)],
    CanonicalTranscript |-> [revision |-> U64(1), final |-> Bool(2),
        commitBoundarySec |-> Dbl(3), text |-> Str(4), words |-> Msgs(5)],
    ReviewEditResponse |-> [sessionId |-> Str(1), transcript |-> Sub(2), state |-> Sub(3)],
    SessionSummary |-> [sessionId |-> Str(1), title |-> Str(2), createdAt |-> Dbl(3),
        updatedAt |-> Dbl(4), durationSec |-> Dbl(5), final |-> Bool(6),
        running |-> Bool(7), participants |-> Strs(8), securityLevel |-> Str(9),
        mode |-> Str(10)],
    ListSessionsResponse |-> [sessions |-> Msgs(1), nextCursor |-> Str(2)]
]

AsrHistoryRead == [
    PipelineTraceEvent |-> [seq |-> U64(1), ts |-> Dbl(2), stage |-> Str(3),
        event |-> Str(4), audioStartSec |-> Dbl(5), audioEndSec |-> Dbl(6),
        payloadJson |-> Str(7)],
    PipelineTraceResponse |-> [sessionId |-> Str(1), events |-> Msgs(2), nextSeq |-> U64(3),
        hasMore |-> Bool(4), enabled |-> Bool(5), truncated |-> Bool(6),
        maxBytes |-> U64(7)],
    AuditEvent |-> [ts |-> Dbl(1), event |-> Str(2), payloadJson |-> Str(3)],
    AuditHistoryResponse |-> [sessionId |-> Str(1), events |-> Msgs(2)],
    ModelStatusEntry |-> [name |-> Str(1), version |-> Str(2), state |-> Str(3)],
    ModelStatusResponse |-> [models |-> Msgs(1)]
]

\* The speaker registry, written twice in the same way.
RegistryCallsWritten == [
    EnrollSpeakerRequest |-> [displayName |-> Str(1), wav |-> Bin(2), editorId |-> Str(3),
        note |-> Str(4), allowBelowPolicy |-> Bool(5)],
    ListSessionSpeakersRequest |-> [sessionId |-> Str(1)],
    SpeakerSelection |-> [sessionSpeakerId |-> Str(1), destination |-> Enum(2),
        globalName |-> Str(3)],
    SaveSessionSpeakersRequest |-> [sessionId |-> Str(1), selections |-> Msgs(2),
        editorId |-> Str(3)],
    GetSpeakerRegistryStatusRequest |-> [sessionId |-> Str(1)]
]

RegistryCallsRead == [
    EnrollSpeakerRequest |-> [displayName |-> Str(1), wav |-> Bin(2), editorId |-> Str(3),
        note |-> Str(4), allowBelowPolicy |-> Bool(5)],
    ListSessionSpeakersRequest |-> [sessionId |-> Str(1)],
    SpeakerSelection |-> [sessionSpeakerId |-> Str(1), destination |-> Enum(2),
        globalName |-> Str(3)],
    SaveSessionSpeakersRequest |-> [sessionId |-> Str(1), selections |-> Msgs(2),
        editorId |-> Str(3)],
    GetSpeakerRegistryStatusRequest |-> [sessionId |-> Str(1)]
]

RegistryAnswersWritten == [
    GetEnrollmentScriptResponse |-> [scriptText |-> Str(1), sampleRate |-> U32(2),
        recommendedDurationSec |-> Dbl(3), targetSegments |-> U32(4)],
    EnrollSpeakerResponse |-> [ok |-> Bool(1), error |-> Str(2), speakerId |-> Str(3),
        rawSeconds |-> Dbl(4), speechSecondsAfterVad |-> Dbl(5),
        segmentsEnrolled |-> U32(6), targetSegments |-> U32(7), warning |-> Str(8),
        dbMtime |-> Dbl(9)],
    SessionSpeakerEvidence |-> [totalSpeechSec |-> Dbl(1), spanCount |-> U32(2),
        stagedAt |-> Dbl(3), sourceVerifiedName |-> Str(4)],
    SessionSpeakerEntry |-> [sessionSpeakerId |-> Str(1), diarSlots |-> Strs(2),
        verifiedName |-> Str(3), score |-> Dbl(4), windows |-> U32(5), createdAt |-> Dbl(6),
        updatedAt |-> Dbl(7), status |-> Str(8), hasEvidence |-> Bool(9),
        evidence |-> Sub(10), publishedName |-> Str(11), publishedAt |-> Dbl(12),
        publishError |-> Str(13)],
    ListSessionSpeakersResponse |-> [sessionId |-> Str(1), speakers |-> Msgs(2)],
    SaveSpeakerResult |-> [sessionSpeakerId |-> Str(1), ok |-> Bool(2), status |-> Str(3),
        error |-> Str(4), segmentsEnrolled |-> U32(5)],
    SaveSessionSpeakersResponse |-> [sessionId |-> Str(1), results |-> Msgs(2)],
    SpeakerBelowPolicy |-> [spkId |-> Str(1), spkName |-> Str(2), sampleCount |-> U32(3),
        longestSampleSec |-> Dbl(4), reason |-> Str(5), kind |-> Str(6)],
    GetSpeakerRegistryStatusResponse |-> [globalDbMtime |-> Dbl(1),
        globalDbRevision |-> Str(2), globalSpeakerCount |-> U32(3),
        sidecarReachable |-> Bool(4), sessionId |-> Str(5), sessionPendingCount |-> U32(6),
        sessionPublishedCount |-> U32(7), sessionFailedCount |-> U32(8),
        globalSpeakerNames |-> Strs(9), speakersBelowPolicy |-> Msgs(10)]
]

RegistryAnswersRead == [
    GetEnrollmentScriptResponse |-> [scriptText |-> Str(1), sampleRate |-> U32(2),
        recommendedDurationSec |-> Dbl(3), targetSegments |-> U32(4)],
    EnrollSpeakerResponse |-> [ok |-> Bool(1), error |-> Str(2), speakerId |-> Str(3),
        rawSeconds |-> Dbl(4), speechSecondsAfterVad |-> Dbl(5),
        segmentsEnrolled |-> U32(6), targetSegments |-> U32(7), warning |-> Str(8),
        dbMtime |-> Dbl(9)],
    SessionSpeakerEvidence |-> [totalSpeechSec |-> Dbl(1), spanCount |-> U32(2),
        stagedAt |-> Dbl(3), sourceVerifiedName |-> Str(4)],
    SessionSpeakerEntry |-> [sessionSpeakerId |-> Str(1), diarSlots |-> Strs(2),
        verifiedName |-> Str(3), score |-> Dbl(4), windows |-> U32(5), createdAt |-> Dbl(6),
        updatedAt |-> Dbl(7), status |-> Str(8), hasEvidence |-> Bool(9),
        evidence |-> Sub(10), publishedName |-> Str(11), publishedAt |-> Dbl(12),
        publishError |-> Str(13)],
    ListSessionSpeakersResponse |-> [sessionId |-> Str(1), speakers |-> Msgs(2)],
    SaveSpeakerResult |-> [sessionSpeakerId |-> Str(1), ok |-> Bool(2), status |-> Str(3),
        error |-> Str(4), segmentsEnrolled |-> U32(5)],
    SaveSessionSpeakersResponse |-> [sessionId |-> Str(1), results |-> Msgs(2)],
    SpeakerBelowPolicy |-> [spkId |-> Str(1), spkName |-> Str(2), sampleCount |-> U32(3),
        longestSampleSec |-> Dbl(4), reason |-> Str(5), kind |-> Str(6)],
    GetSpeakerRegistryStatusResponse |-> [globalDbMtime |-> Dbl(1),
        globalDbRevision |-> Str(2), globalSpeakerCount |-> U32(3),
        sidecarReachable |-> Bool(4), sessionId |-> Str(5), sessionPendingCount |-> U32(6),
        sessionPublishedCount |-> U32(7), sessionFailedCount |-> U32(8),
        globalSpeakerNames |-> Strs(9), speakersBelowPolicy |-> Msgs(10)]
]

\* Here and below serialize and parse of a message stand side by side.
RegistryPreviewWritten == [
    PreviewEnrollmentRequest |-> [displayName |-> Str(1), wav |-> Bin(2),
        allowBelowPolicy |-> Bool(3)],
    PreviewEnrollmentResponse |-> [ok |-> Bool(1), error |-> Str(2), speakerId |-> Str(3),
        rawSeconds |-> Dbl(4), speechSecondsAfterVad |-> Dbl(5), policyCompliant |-> Bool(6),
        warning |-> Str(7), trimmedWav |-> Bin(8)],
    GlobalSpeakerEntry |-> [spkId |-> Str(1), spkName |-> Str(2), status |-> Str(3),
        sampleCount |-> U32(4), usableSampleCount |-> U32(5), createdAt |-> Str(6),
        lastUpdated |-> Str(7), reviewedBy |-> Str(8), reviewReason |-> Str(9)]
]

RegistryPreviewRead == [
    PreviewEnrollmentRequest |-> [displayName |-> Str(1), wav |-> Bin(2),
        allowBelowPolicy |-> Bool(3)],
    PreviewEnrollmentResponse |-> [ok |-> Bool(1), error |-> Str(2), speakerId |-> Str(3),
        rawSeconds |-> Dbl(4), speechSecondsAfterVad |-> Dbl(5), policyCompliant |-> Bool(6),
        warning |-> Str(7), trimmedWav |-> Bin(8)],
    GlobalSpeakerEntry |-> [spkId |-> Str(1), spkName |-> Str(2), status |-> Str(3),
        sampleCount |-> U32(4), usableSampleCount |-> U32(5), createdAt |-> Str(6),
        lastUpdated |-> Str(7), reviewedBy |-> Str(8), reviewReason |-> Str(9)]
]

RegistryProfilesWritten == [
    ListGlobalSpeakersResponse |-> [speakers |-> Msgs(1)],
    GlobalSpeakerActionRequest |-> [spkId |-> Str(1), editorId |-> Str(2), reason |-> Str(3)],
    GlobalSpeakerActionResponse |-> [ok |-> Bool(1), error |-> Str(2), changed |-> Bool(3),
        spkId |-> Str(4), spkName |-> Str(5), status |-> Str(6), samplesRetired |-> U32(7),
        deleteEventsReleased |-> U32(8), deleteDispatch |-> Str(9), message |-> Str(10)]
]

RegistryProfilesRead == [
    ListGlobalSpeakersResponse |-> [speakers |-> Msgs(1)],
    GlobalSpeakerActionRequest |-> [spkId |-> Str(1), editorId |-> Str(2), reason |-> Str(3)],
    GlobalSpeakerActionResponse |-> [ok |-> Bool(1), error |-> Str(2), changed |-> Bool(3),
        spkId |-> Str(4), spkName |-> Str(5), status |-> Str(6), samplesRetired |-> U32(7),
        deleteEventsReleased |-> U32(8), deleteDispatch |-> Str(9), message |-> Str(10)]
]

\* The inference tiers, read and written by servers that are not this program.
TritonControlWritten == [
    ServerLiveResponse |-> [live |-> Bool(1)],
    ServerReadyResponse |-> [ready |-> Bool(1)],
    ModelReadyRequest |-> [name |-> Str(1), version |-> Str(2)],
    ModelReadyResponse |-> [ready |-> Bool(1)],
    RepositoryIndexRequest |-> [repositoryName |-> Str(1), ready |-> Bool(2)],
    ModelIndex |-> [name |-> Str(1), version |-> Str(2), state |-> Str(3), reason |-> Str(4)],
    RepositoryIndexResponse |-> [models |-> Msgs(1)]
]

TritonControlRead == [
    ServerLiveResponse |-> [live |-> Bool(1)],
    ServerReadyResponse |-> [ready |-> Bool(1)],
    ModelReadyRequest |-> [name |-> Str(1), version |-> Str(2)],
    ModelReadyResponse |-> [ready |-> Bool(1)],
    RepositoryIndexRequest |-> [repositoryName |-> Str(1), ready |-> Bool(2)],
    ModelIndex |-> [name |-> Str(1), version |-> Str(2), state |-> Str(3), reason |-> Str(4)],
    RepositoryIndexResponse |-> [models |-> Msgs(1)]
]

TritonInferWritten == [
    InferTensorContents |-> [intContents |-> I32P(2), int64Contents |-> I64P(3),
        fp32Contents |-> FltP(6), bytesContents |-> Bins(8)],
    InferInputTensor |-> [name |-> Str(1), datatype |-> Str(2), shape |-> I64P(3),
        contents |-> SubIf(5)],
    InferRequestedOutputTensor |-> [name |-> Str(1)],
    ModelInferRequest |-> [modelName |-> Str(1), modelVersion |-> Str(2), id |-> Str(3),
        inputs |-> Msgs(5), outputs |-> Msgs(6), rawInputContents |-> Bins(7)],
    InferOutputTensor |-> [name |-> Str(1), datatype |-> Str(2), shape |-> I64P(3),
        contents |-> SubIf(5)],
    ModelInferResponse |-> [modelName |-> Str(1), modelVersion |-> Str(2), id |-> Str(3),
        outputs |-> Msgs(5), rawOutputContents |-> Bins(6)]
]

TritonInferRead == [
    InferTensorContents |-> [intContents |-> I32P(2), int64Contents |-> I64P(3),
        fp32Contents |-> FltP(6), bytesContents |-> Bins(8)],
    InferInputTensor |-> [name |-> Str(1), datatype |-> Str(2), shape |-> I64P(3),
        contents |-> Sub(5)],
    InferRequestedOutputTensor |-> [name |-> Str(1)],
    ModelInferRequest |-> [modelName |-> Str(1), modelVersion |-> Str(2), id |-> Str(3),
        inputs |-> Msgs(5), outputs |-> Msgs(6), rawInputContents |-> Bins(7)],
    InferOutputTensor |-> [name |-> Str(1), datatype |-> Str(2), shape |-> I64P(3),
        contents |-> Sub(5)],
    ModelInferResponse |-> [modelName |-> Str(1), modelVersion |-> Str(2), id |-> Str(3),
        outputs |-> Msgs(5), rawOutputContents |-> Bins(6)]
]

RivaConfigWritten == [
    SpeechContext |-> [phrases |-> Strs(1), boost |-> Flt(4)],
    SpeakerDiarizationConfig |-> [enableSpeakerDiarization |-> Bool(1),
        maxSpeakerCount |-> I32(2)],
    EndpointingConfig |-> [startHistory |-> OptI(1), startThreshold |-> OptF(2),
        stopHistory |-> OptI(3), stopThreshold |-> OptF(4), stopHistoryEou |-> OptI(5),
        stopThresholdEou |-> OptF(6)],
    RecognitionConfig |-> [encoding |-> Enum(1), sampleRateHertz |-> I32(2),
        languageCode |-> Str(3), maxAlternatives |-> I32(4), profanityFilter |-> Bool(5),
        speechContexts |-> Msgs(6), audioChannelCount |-> I32(7),
        enableWordTimeOffsets |-> Bool(8), enableAutomaticPunctuation |-> Bool(11),
        enableSeparateRecognitionPerChannel |-> Bool(12), model |-> Str(13),
        verbatimTranscripts |-> Bool(14), diarizationConfig |-> SubIf(19),
        customConfiguration |-> Map(24), endpointingConfig |-> SubIf(25)]
]

RivaConfigRead == [
    SpeechContext |-> [phrases |-> Strs(1), boost |-> Flt(4)],
    SpeakerDiarizationConfig |-> [enableSpeakerDiarization |-> Bool(1),
        maxSpeakerCount |-> I32(2)],
    EndpointingConfig |-> [startHistory |-> OptI(1), startThreshold |-> OptF(2),
        stopHistory |-> OptI(3), stopThreshold |-> OptF(4), stopHistoryEou |-> OptI(5),
        stopThresholdEou |-> OptF(6)],
    RecognitionConfig |-> [encoding |-> Enum(1), sampleRateHertz |-> I32(2),
        languageCode |-> Str(3), maxAlternatives |-> I32(4), profanityFilter |-> Bool(5),
        speechContexts |-> Msgs(6), audioChannelCount |-> I32(7),
        enableWordTimeOffsets |-> Bool(8), enableAutomaticPunctuation |-> Bool(11),
        enableSeparateRecognitionPerChannel |-> Bool(12), model |-> Str(13),
        verbatimTranscripts |-> Bool(14), diarizationConfig |-> Sub(19),
        customConfiguration |-> Map(24), endpointingConfig |-> Sub(25)]
]

RivaStreamWritten == [
    StreamingRecognitionConfig |-> [config |-> Sub(1), interimResults |-> Bool(2)],
    StreamingRecognizeRequest |-> [streamingConfig |-> OptSub(1), audioContent |-> Half(2),
        runtimeConfig |-> Map(3)],
    WordInfo |-> [startTime |-> I32(1), endTime |-> I32(2), word |-> Str(3),
        confidence |-> Flt(4), speakerTag |-> I32(5), languageCode |-> Str(6)],
    SpeechRecognitionAlternative |-> [transcript |-> Str(1), confidence |-> Flt(2),
        words |-> Msgs(3), languageCode |-> Strs(4)],
    PipelineStates |-> [vadProbabilities |-> FltP(1)],
    StreamingRecognitionResult |-> [alternatives |-> Msgs(1), isFinal |-> Bool(2),
        stability |-> Flt(3), channelTag |-> I32(5), audioProcessed |-> Flt(6),
        pipelineStates |-> OptSub(7)]
]

RivaStreamRead == [
    StreamingRecognitionConfig |-> [config |-> Sub(1), interimResults |-> Bool(2)],
    StreamingRecognizeRequest |-> [streamingConfig |-> OptSub(1), audioContent |-> Half(2),
        runtimeConfig |-> Map(3)],
    WordInfo |-> [startTime |-> I32(1), endTime |-> I32(2), word |-> Str(3),
        confidence |-> Flt(4), speakerTag |-> I32(5), languageCode |-> Str(6)],
    SpeechRecognitionAlternative |-> [transcript |-> Str(1), confidence |-> Flt(2),
        words |-> Msgs(3), languageCode |-> Strs(4)],
    PipelineStates |-> [vadProbabilities |-> FltP(1)],
    StreamingRecognitionResult |-> [alternatives |-> Msgs(1), isFinal |-> Bool(2),
        stability |-> Flt(3), channelTag |-> I32(5), audioProcessed |-> Flt(6),
        pipelineStates |-> OptSub(7)]
]

RivaAnswersWritten == [
    StreamingRecognizeResponse |-> [results |-> Msgs(1)],
    SpeechRecognitionResult |-> [alternatives |-> Msgs(1), channelTag |-> I32(2),
        audioProcessed |-> Flt(3)],
    RecognizeRequest |-> [config |-> Sub(1), audio |-> Bin(2)],
    RecognizeResponse |-> [results |-> Msgs(1)],
    RivaSpeechRecognitionConfigRequest |-> [modelName |-> Str(1)],
    ModelConfig |-> [modelName |-> Str(1), parameters |-> Map(2)],
    RivaSpeechRecognitionConfigResponse |-> [modelConfig |-> Msgs(1)]
]

RivaAnswersRead == [
    StreamingRecognizeResponse |-> [results |-> Msgs(1)],
    SpeechRecognitionResult |-> [alternatives |-> Msgs(1), channelTag |-> I32(2),
        audioProcessed |-> Flt(3)],
    RecognizeRequest |-> [config |-> Sub(1), audio |-> Bin(2)],
    RecognizeResponse |-> [results |-> Msgs(1)],
    RivaSpeechRecognitionConfigRequest |-> [modelName |-> Str(1)],
    ModelConfig |-> [modelName |-> Str(1), parameters |-> Map(2)],
    RivaSpeechRecognitionConfigResponse |-> [modelConfig |-> Msgs(1)]
]

\* The buffer's own administration.
AdminSessionsWritten == [
    PingRequest |-> [clientTs |-> Dbl(1)],
    PingResponse |-> [clientTs |-> Dbl(1), serverTs |-> Dbl(2), serverVersion |-> Str(3),
        upstreamReady |-> Bool(4)],
    UpstreamStatus |-> [target |-> Str(1), reachable |-> Bool(2), latencyMs |-> Dbl(3),
        detail |-> Str(4), checkedAt |-> Dbl(5), consecutiveFailures |-> U64(6)],
    BufferedSession |-> [sessionId |-> Str(1), client |-> Str(2), title |-> Str(3),
        startedAt |-> Dbl(4), updatedAt |-> Dbl(5), running |-> Bool(6),
        acceptedPackets |-> U64(7), acceptedBytes |-> U64(8), forwardedPackets |-> U64(9),
        forwardedBytes |-> U64(10), pendingPackets |-> U64(11), pendingBytes |-> U64(12),
        spooledBytes |-> U64(13), droppedPackets |-> U64(14), retries |-> U64(15),
        lagSec |-> Dbl(16), forwardP50Ms |-> Dbl(17), forwardP95Ms |-> Dbl(18),
        lastError |-> Str(19), lastErrorAt |-> Dbl(20), statePolls |-> U64(21),
        stateAgeSec |-> Dbl(22), stateReaders |-> U64(23)]
]

AdminSessionsRead == [
    PingRequest |-> [clientTs |-> Dbl(1)],
    PingResponse |-> [clientTs |-> Dbl(1), serverTs |-> Dbl(2), serverVersion |-> Str(3),
        upstreamReady |-> Bool(4)],
    UpstreamStatus |-> [target |-> Str(1), reachable |-> Bool(2), latencyMs |-> Dbl(3),
        detail |-> Str(4), checkedAt |-> Dbl(5), consecutiveFailures |-> U64(6)],
    BufferedSession |-> [sessionId |-> Str(1), client |-> Str(2), title |-> Str(3),
        startedAt |-> Dbl(4), updatedAt |-> Dbl(5), running |-> Bool(6),
        acceptedPackets |-> U64(7), acceptedBytes |-> U64(8), forwardedPackets |-> U64(9),
        forwardedBytes |-> U64(10), pendingPackets |-> U64(11), pendingBytes |-> U64(12),
        spooledBytes |-> U64(13), droppedPackets |-> U64(14), retries |-> U64(15),
        lagSec |-> Dbl(16), forwardP50Ms |-> Dbl(17), forwardP95Ms |-> Dbl(18),
        lastError |-> Str(19), lastErrorAt |-> Dbl(20), statePolls |-> U64(21),
        stateAgeSec |-> Dbl(22), stateReaders |-> U64(23)]
]

AdminStatusWritten == [
    BufferStatusRequest |-> [sessionId |-> Str(1)],
    BufferStatusResponse |-> [serverVersion |-> Str(1), uptimeSec |-> Dbl(2),
        upstream |-> Sub(3), activeConnections |-> U32(4), totalConnections |-> U64(5),
        totalCalls |-> U64(6), rejectedCalls |-> U64(7), queueCapacityBytes |-> U64(8),
        queueUsedBytes |-> U64(9), spoolDir |-> Str(10), spoolEnabled |-> Bool(11),
        sessions |-> Msgs(12)],
    BufferSessionsRequest |-> [limit |-> U32(1), includeFinished |-> Bool(2)],
    BufferSessionsResponse |-> [sessions |-> Msgs(1)]
]

AdminStatusRead == [
    BufferStatusRequest |-> [sessionId |-> Str(1)],
    BufferStatusResponse |-> [serverVersion |-> Str(1), uptimeSec |-> Dbl(2),
        upstream |-> Sub(3), activeConnections |-> U32(4), totalConnections |-> U64(5),
        totalCalls |-> U64(6), rejectedCalls |-> U64(7), queueCapacityBytes |-> U64(8),
        queueUsedBytes |-> U64(9), spoolDir |-> Str(10), spoolEnabled |-> Bool(11),
        sessions |-> Msgs(12)],
    BufferSessionsRequest |-> [limit |-> U32(1), includeFinished |-> Bool(2)],
    BufferSessionsResponse |-> [sessions |-> Msgs(1)]
]

Written == AsrCallsWritten @@ AsrViewWritten @@ AsrAnswersWritten @@ AsrHistoryWritten
           @@ RegistryCallsWritten @@ RegistryAnswersWritten @@ RegistryPreviewWritten
           @@ RegistryProfilesWritten @@ TritonControlWritten @@ TritonInferWritten
           @@ RivaConfigWritten @@ RivaStreamWritten @@ RivaAnswersWritten
           @@ AdminSessionsWritten @@ AdminStatusWritten
Read == AsrCallsRead @@ AsrEditsRead @@ AsrViewRead @@ AsrStateRead @@ AsrAnswersRead
        @@ AsrHistoryRead @@ RegistryCallsRead @@ RegistryAnswersRead @@ RegistryPreviewRead
        @@ RegistryProfilesRead @@ TritonControlRead @@ TritonInferRead @@ RivaConfigRead
        @@ RivaStreamRead @@ RivaAnswersRead @@ AdminSessionsRead @@ AdminStatusRead

----------------------------------------------------------------------------
(* The codec *)

Wire(kind) ==
    CASE kind \in {"bool", "enum", "uint32", "uint64", "int32", "int64", "optional int32"} -> "varint"
      [] kind \in {"float", "optional float"} -> "fixed32"
      [] kind = "double" -> "fixed64"
      [] OTHER -> "length"

Optional == {"optional message", "optional int32", "optional float"}
Packed == {"floats", "int32s", "int64s"}
Repeated == {"strings", "blobs", "messages", "map"}

Default(kind) == IF kind \in Optional \union Packed \union Repeated THEN <<>> ELSE 0

Entry(n, kind, payload) == [number |-> n, wire |-> Wire(kind), payload |-> payload]

\* putRepeated...: every element, an empty one too, for its position counts.
SkipsEmpty(n, kind, v) == [i \in 1..Len(SelectSeq(v, LAMBDA x : x /= 0)) |-> Entry(n, kind, 1)]
EachElement(n, kind, v) == [i \in 1..Len(v) |-> Entry(n, kind, v[i])]

\* put...: a singular field that holds its default is not written, a nested
\* message is, an optional one when it is set.
PutField(n, kind, v) ==
    CASE kind \in Repeated -> EachElement(n, kind, v)
      [] kind \in Packed -> IF v = <<>> THEN <<>> ELSE <<Entry(n, kind, v)>>
      [] kind \in Optional -> [i \in 1..Len(v) |-> Entry(n, kind, v[i])]
      [] kind = "message" -> <<Entry(n, kind, v)>>
      [] OTHER -> IF v = 0 THEN <<>> ELSE <<Entry(n, kind, v)>>

\* A flag says which half of a oneof is set; to read one half clears it.
IsHalf(table, f) == table[f][2] = "half of a oneof"
OtherHalf(table) == {g \in DOMAIN table : table[g][2] = "optional message"}
LeftOut(table, msg, f) == IsHalf(table, f) /\ \E g \in OtherHalf(table) : msg[g] # <<>>

\* serialize, in the order of the numbers.
Highest == 30
Serialize(table, msg) ==
    FoldLeft(LAMBDA out, n : out \o
                 LET here == {f \in DOMAIN table : table[f][1] = n /\ ~LeftOut(table, msg, f)}
                 IN  IF here = {} THEN <<>>
                     ELSE LET f == CHOOSE g \in here : TRUE
                          IN  PutField(n, table[f][2], msg[f]),
             <<>>, [n \in 1..Highest |-> n])

\* What a read of one kind makes of an entry: a narrow one drops the bits
\* above its width, and one of another wire type reads something else, Garbled.
WideValue == 2
Narrow(kind, x) == IF kind \in {"uint32", "int32", "enum"} /\ x = WideValue THEN 0 ELSE x

\* The packed kinds are read in either shape.
Take(kind, old, e) ==
    CASE kind \in Packed -> IF e.wire = "length" THEN old \o e.payload ELSE Append(old, e.payload)
      [] kind \in Repeated -> Append(old, e.payload)
      [] kind \in Optional -> <<e.payload>>
      [] OTHER -> Narrow(kind, e.payload)

Unpacked(kind) == IF kind = "floats" THEN "fixed32" ELSE "varint"
Fits(kind, e) == e.wire = Wire(kind) \/ (kind \in Packed /\ e.wire = Unpacked(kind))

\* nextField and the switch of parse: a known number is read by its kind, the
\* last one wins; an unknown one is skipped by its wire type.
Unknown(msg, e) == msg
Field(table, msg, e) ==
    LET known == {f \in DOMAIN table : table[f][1] = e.number}
    IN  IF known = {} THEN Unknown(msg, e)
        ELSE LET f == CHOOSE g \in known : TRUE
                 kind == table[f][2]
                 one == IF IsHalf(table, f)
                        THEN [g \in OtherHalf(table) |-> <<>>] @@ msg ELSE msg
             IN  [one EXCEPT ![f] = IF Fits(kind, e) THEN Take(kind, @, e) ELSE Garbled]

Blank(table) == [f \in DOMAIN table |-> Default(table[f][2])]
Parse(table, entries) ==
    FoldLeft(LAMBDA msg, e : Field(table, msg, e), Blank(table), entries)

----------------------------------------------------------------------------
(* Varints, with Group bits to a byte instead of 7 and Width bits to a      *)
(* number instead of 64: appendVarint and readVarint.                       *)

Group == 3
Width == 8
Pow(n) == 2 ^ n

Bytes(v) == CHOOSE n \in 1..Width : v < Pow(Group * n) /\ (n = 1 \/ v >= Pow(Group * (n - 1)))
AppendVarint(v) ==
    [i \in 1..Bytes(v) |-> [bits |-> (v \div Pow(Group * (i - 1))) % Pow(Group),
                            more |-> i < Bytes(v)]]

\* readVarint: a byte past the width means a corrupt buffer; so does the end
\* of the buffer before a byte without the mark.  The bits above the width
\* are lost.
TooLongByOne(i) == Group * i > Width - 1
TooLong(i) == Group * (i - 1) > Width - 1
ReadVarint(buf) ==
    LET ends == {i \in 1..Len(buf) : ~buf[i].more}
        last == IF ends = {} THEN 0 ELSE Min(ends)
    IN  IF last = 0 \/ TooLong(last) THEN -1
        ELSE FoldFunction(+, 0, [i \in 1..last |-> buf[i].bits * Pow(Group * (i - 1))]) % Pow(Width)

\* A negative int32 or int64 is written as the unsigned number of the full
\* width and read back through it.
SignedHalf == Pow(Width - 1)
ToUnsigned(v) == v % Pow(Width)
ToSigned(v) == IF v >= SignedHalf THEN v - Pow(Width) ELSE v
=============================================================================
