--------------------------- MODULE SessionJournal ---------------------------
(***************************************************************************)
(* One session's journal: the segment files jrn::Journal appends to and    *)
(* retires, what a crash leaves in them, and what store::recover reads     *)
(* back.  SessionBuffer sees a journal as two sets and a flag; this module *)
(* is why it may.                                                          *)
(*                                                                         *)
(* The caller is SessionBuffer, reduced to the order it keeps: packets are *)
(* appended in ascending seq, a packet is forwarded before its Progress is *)
(* written, and after a failed append no further packet is appended.       *)
(***************************************************************************)
EXTENDS Integers, Sequences, FiniteSets, FiniteSetsExt

CONSTANTS
    MaxSeq,          \* bound: packets appended
    SegmentRecords,  \* segmentBytes, in records: a full segment is rotated
    MaxCrash,        \* bound: crashes
    Keep,            \* "queue" or "session"
    MaxFailures      \* bound: writes that fail

ASSUME JournalAssumption ==
    /\ SegmentRecords \in Nat \ {0, 1}
    /\ Keep \in {"queue", "session"}
    /\ MaxSeq \in Nat /\ MaxCrash \in Nat /\ MaxFailures \in Nat

VARIABLES
    files,         \* the segments on disk: index -> sequence of records
    unwritten,     \* records in QFile's write buffer, not yet on disk
    isOpen,        \* m_file.isOpen()
    segment,       \* m_segment
    highs,         \* m_segmentHighSeq
    up,            \* the process is up and the session is in its hub
    failed,        \* SessionBuffer::m_journalFailed
    queue,         \* SessionBuffer::m_queue
    lastAccepted,  \* SessionBuffer::m_lastAcceptedSeq
    ended,         \* the session has ended (m_finished after a drain)
    failures,      \* bounded: writes that failed
    accepted,      \* history: packets whose append succeeded
    forwarded,     \* history: packets the tier took
    crashes        \* bounded

journal == <<files, unwritten, isOpen, segment, highs>>
vars == <<journal, up, failed, queue, lastAccepted, ended, failures, accepted, forwarded, crashes>>

Record(kind, seq) == [kind |-> kind, seq |-> seq]
Meta == Record("meta", 0)
Stopped == Record("stopped", 0)
Torn == Record("torn", 0)

-----------------------------------------------------------------------------
(* store::recover: every segment in order, each up to its first tear.      *)

Readable(f) == {f[i] : i \in {k \in DOMAIN f : \A n \in 1..k : f[n] # Torn}}

Records == UNION {Readable(files[i]) : i \in DOMAIN files}
SeqsOf(kind, records) == {r.seq : r \in {x \in records : x.kind = kind}}

RecoveredPackets == SeqsOf("packet", Records)
RecoveredLast == Max(RecoveredPackets \cup {0})
RecoveredProgress == Max(SeqsOf("progress", Records) \cup {0})

\* The mutant trusts the last packet rather than the last Progress record.
BacklogOfUnread == {s \in RecoveredPackets : s > RecoveredLast}
RecoveredBacklog == {s \in RecoveredPackets : s > RecoveredProgress}
RecoveredStopped == Stopped \in Records
RecoveredMeta == Meta \in Records

-----------------------------------------------------------------------------
(* Qt's buffered file.  A write that fails leaves what it could not put on *)
(* disk in the buffer, half a record perhaps on disk: the next write first *)
(* completes it.  Closing the file tries once more and then forgets it.    *)

\* The part of a file that stays when its buffer is written out: a half record
\* of the buffer's is completed.
Whole(f, buffer) ==
    IF buffer # <<>> /\ f # <<>> /\ f[Len(f)] = Torn THEN SubSeq(f, 1, Len(f) - 1) ELSE f

\* The file once the buffer and the record are out.
Written(f, buffer, record) == Append(Whole(f, buffer) \o buffer, record)

\* What a failed write leaves: a prefix of what was due, perhaps torn, on disk
\* and the rest in the buffer; all of it when only the fsync failed.
Cut(due, n, torn) == SubSeq(due, 1, n) \o (IF torn THEN <<Torn>> ELSE <<>>)
HalfWritten(f, buffer, record) ==
    LET due == Append(buffer, record)
    IN  {[file |-> Whole(f, buffer) \o Cut(due, n, n < Len(due) /\ torn),
          rest |-> SubSeq(due, n + 1, Len(due))] : n \in 0..Len(due), torn \in BOOLEAN}

DiskFails == failures < MaxFailures /\ failures' = failures + 1

\* openSegment creates the file.
WithFile(fs, index, f) == [i \in DOMAIN fs \cup {index} |-> IF i = index THEN f ELSE fs[i]]

Closed(f, buffer) == {Whole(f, buffer) \o buffer} \cup (IF buffer = <<>> THEN {} ELSE {f})

-----------------------------------------------------------------------------
(* jrn::Journal.                                                           *)

Init ==
    /\ files = [i \in {1} |-> <<Meta>>] /\ unwritten = <<>>
    /\ isOpen = TRUE /\ segment = 1
    /\ highs = <<[index |-> 1, high |-> 0]>>
    /\ up = TRUE /\ failed = FALSE
    /\ queue = {} /\ lastAccepted = 0 /\ ended = FALSE
    /\ failures = 0
    /\ accepted = {} /\ forwarded = {} /\ crashes = 0

\* openSegment: the Meta record is restated at the head of every segment.
SegmentHead == <<Meta>>
NewSegment(index) == [index |-> index, high |-> 0]

Full == Len(files[segment]) >= SegmentRecords

WithHigh(hs, s) == [hs EXCEPT ![Len(hs)].high = s]

AppendPacket(s) ==
    /\ up /\ ~ended /\ ~failed /\ isOpen
    /\ \/ /\ ~Full
          /\ files' = [files EXCEPT ![segment] = Written(@, unwritten, Record("packet", s))]
          /\ highs' = WithHigh(highs, s)
          /\ UNCHANGED segment
       \/ /\ Full
          /\ segment' = segment + 1
          /\ \E old \in Closed(files[segment], unwritten) :
               files' = WithFile([files EXCEPT ![segment] = old], segment + 1,
                                 Append(SegmentHead, Record("packet", s)))
          /\ highs' = WithHigh(Append(highs, NewSegment(segment + 1)), s)
    /\ unwritten' = <<>>
    /\ accepted' = accepted \cup {s}
    /\ queue' = queue \cup {s}
    /\ lastAccepted' = s
    /\ UNCHANGED <<isOpen, up, failed, ended, failures, forwarded, crashes>>

\* The next file cannot be opened, or its head cannot be written, or the
\* packet cannot.
CannotRotate ==
    /\ Full
    /\ segment' = segment + 1
    /\ \E old \in Closed(files[segment], unwritten) :
         LET closed == [files EXCEPT ![segment] = old]
         IN  \/ files' = closed /\ unwritten' = <<>> /\ isOpen' = FALSE /\ UNCHANGED highs
             \/ /\ \E half \in HalfWritten(<<>>, <<>>, Meta) :
                     /\ files' = WithFile(closed, segment + 1, half.file)
                     /\ unwritten' = half.rest
                /\ highs' = Append(highs, NewSegment(segment + 1))
                /\ UNCHANGED isOpen

CannotWrite(s) ==
    /\ ~Full
    /\ \E half \in HalfWritten(files[segment], unwritten, Record("packet", s)) :
         /\ files' = [files EXCEPT ![segment] = half.file]
         /\ unwritten' = half.rest
    /\ UNCHANGED <<isOpen, segment, highs>>

CannotWriteAfterRotating(s) ==
    /\ Full
    /\ segment' = segment + 1
    /\ \E old \in Closed(files[segment], unwritten) :
       \E half \in HalfWritten(SegmentHead, <<>>, Record("packet", s)) :
         /\ files' = WithFile([files EXCEPT ![segment] = old], segment + 1, half.file)
         /\ unwritten' = half.rest
    /\ highs' = Append(highs, NewSegment(segment + 1))
    /\ UNCHANGED isOpen

AppendPacketFails(s) ==
    /\ DiskFails /\ up /\ ~ended /\ ~failed /\ isOpen
    /\ failed' = TRUE
    /\ CannotRotate \/ CannotWrite(s) \/ CannotWriteAfterRotating(s)
    /\ UNCHANGED <<up, queue, lastAccepted, ended, accepted, forwarded, crashes>>

\* retireSegmentsBelow(seq): leading segments whose packets are all upstream,
\* but never the newest.
Retiring(s) ==
    IF Keep = "session" THEN 0
    ELSE Max({k \in 0..(Len(highs) - 1) : \A i \in 1..k : highs[i].high \in 1..s})

AppendProgress(s) ==
    LET gone == {highs[i].index : i \in 1..Retiring(s)}
        written == [files EXCEPT ![segment] = Written(@, unwritten, Record("progress", s))]
    IN  /\ files' = [i \in DOMAIN files \ gone |-> written[i]]
        /\ highs' = SubSeq(highs, Retiring(s) + 1, Len(highs))
        /\ unwritten' = <<>>

AppendFails(record) ==
    /\ DiskFails
    /\ \E half \in HalfWritten(files[segment], unwritten, record) :
         /\ files' = [files EXCEPT ![segment] = half.file]
         /\ unwritten' = half.rest

\* forward() got its OK for the packet at the head of the queue, and records
\* it if the journal is open; a failed Progress record is only a warning.
Forward(s) ==
    /\ up /\ ~ended
    /\ s \in queue /\ \A t \in queue : s <= t
    /\ queue' = queue \ {s}
    /\ forwarded' = forwarded \cup {s}
    /\ \/ isOpen /\ AppendProgress(s) /\ UNCHANGED failures
       \/ isOpen /\ AppendFails(Record("progress", s)) /\ UNCHANGED highs
       \/ ~isOpen /\ UNCHANGED <<files, unwritten, highs, failures>>
    /\ UNCHANGED <<isOpen, segment, up, failed, lastAccepted, ended, accepted, crashes>>

\* The end of the drain: the Stopped record, then close().
End ==
    /\ up /\ ~ended /\ queue = {}
    /\ ended' = TRUE
    /\ isOpen' = FALSE /\ unwritten' = <<>>
    /\ \/ isOpen /\ files' = [files EXCEPT ![segment] = Written(@, unwritten, Stopped)]
          /\ UNCHANGED failures
       \/ /\ isOpen /\ DiskFails
          /\ \E half \in HalfWritten(files[segment], unwritten, Stopped) :
             \E f \in Closed(half.file, half.rest) : files' = [files EXCEPT ![segment] = f]
       \/ ~isOpen /\ UNCHANGED <<files, failures>>
    /\ UNCHANGED <<segment, highs, up, failed, queue, lastAccepted,
                   accepted, forwarded, crashes>>

\* BufferHub::forget, for a session that is over.
Forget ==
    /\ up /\ ended /\ files' = <<>>
    /\ UNCHANGED <<unwritten, isOpen, segment, highs, up, failed, queue, lastAccepted, ended,
                   failures, accepted, forwarded, crashes>>

-----------------------------------------------------------------------------
(* The process dies, perhaps inside a write, and is started again.  Its    *)
(* write buffer dies with it.                                              *)

\* Half a record, a packet nobody was told of, or a fresh segment.
CrashRemains ==
    {files} \cup
    IF ~isOpen THEN {}
    ELSE {[files EXCEPT ![segment] = half.file] : half \in
              IF lastAccepted < MaxSeq
              THEN HalfWritten(files[segment], unwritten, Record("packet", lastAccepted + 1))
              ELSE {}}
         \cup {WithFile(files, segment + 1, half.file) :
                   half \in IF Full THEN HalfWritten(<<>>, <<>>, Meta) ELSE {}}

Crash ==
    /\ up /\ crashes < MaxCrash
    /\ crashes' = crashes + 1
    /\ up' = FALSE
    /\ files' \in CrashRemains
    /\ isOpen' = FALSE /\ unwritten' = <<>> /\ highs' = <<>> /\ segment' = 0
    /\ failed' = FALSE /\ queue' = {} /\ lastAccepted' = 0
    /\ UNCHANGED <<ended, failures, accepted, forwarded>>

\* Journal::reopen: never append after a tear, start the next segment.  The
\* mutant appends to the highest segment it finds.
SameSegment == Max(DOMAIN files)
NextSegment == Max(DOMAIN files) + 1
Contents(index) == IF index \in DOMAIN files THEN files[index] ELSE <<>>

Recover ==
    /\ ~up /\ RecoveredMeta /\ ~RecoveredStopped
    /\ up' = TRUE
    /\ queue' = RecoveredBacklog
    /\ lastAccepted' = RecoveredLast
    /\ ended' = FALSE
    /\ segment' = NextSegment
    /\ \/ /\ files' = WithFile(files, NextSegment, Contents(NextSegment) \o SegmentHead)
          /\ isOpen' = TRUE /\ failed' = FALSE
          /\ highs' = <<NewSegment(NextSegment)>> /\ UNCHANGED <<unwritten, failures>>
       \/ /\ DiskFails /\ failed' = TRUE
          /\ isOpen' = FALSE /\ highs' = <<>> /\ UNCHANGED <<files, unwritten>>
       \/ /\ DiskFails /\ failed' = TRUE
          /\ isOpen' = TRUE /\ highs' = <<NewSegment(NextSegment)>>
          /\ \E half \in HalfWritten(<<>>, <<>>, Meta) :
               /\ files' = WithFile(files, NextSegment, Contents(NextSegment) \o half.file)
               /\ unwritten' = half.rest
    /\ UNCHANGED <<accepted, forwarded, crashes>>

\* A finished session is removed; a journal without Meta is left where it is.
RecoverEnded ==
    /\ ~up /\ RecoveredMeta /\ RecoveredStopped
    /\ files' = <<>>
    /\ UNCHANGED <<unwritten, isOpen, segment, highs, up, failed, queue, lastAccepted, ended,
                   failures, accepted, forwarded, crashes>>

RecoverSkips == ~up /\ ~RecoveredMeta /\ UNCHANGED vars

Next ==
    \/ lastAccepted < MaxSeq
         /\ (AppendPacket(lastAccepted + 1) \/ AppendPacketFails(lastAccepted + 1))
    \/ \E s \in queue : Forward(s)
    \/ End \/ Forget
    \/ Crash
    \/ Recover \/ RecoverEnded \/ RecoverSkips

Spec == Init /\ [][Next]_vars

-----------------------------------------------------------------------------
(* Properties.                                                             *)

Seqs == 1..MaxSeq

\* Every record is of a known kind, and an open journal writes to the segment
\* it last remembered.
TypeOK ==
    /\ \A i \in DOMAIN files : i \in Nat /\ \A k \in DOMAIN files[i] :
         files[i][k] \in [kind : {"meta", "packet", "progress", "stopped", "torn"}, seq : 0..MaxSeq]
    /\ \A k \in DOMAIN unwritten : unwritten[k] # Torn
    /\ isOpen \in BOOLEAN /\ up \in BOOLEAN /\ failed \in BOOLEAN
    /\ isOpen => up /\ segment \in DOMAIN files /\ highs # <<>> /\ highs[Len(highs)].index = segment
    /\ ~isOpen => unwritten = <<>>
    /\ \A i \in DOMAIN highs : highs[i] \in [index : Nat, high : 0..MaxSeq]
    /\ queue \subseteq Seqs /\ lastAccepted \in 0..MaxSeq
    /\ ended \in BOOLEAN /\ failures \in 0..MaxFailures
    /\ accepted \subseteq Seqs /\ forwarded \subseteq Seqs
    /\ crashes \in 0..MaxCrash

\* An append that succeeded is readable until its packet was forwarded: torn
\* records, rotations, failed writes and retirement never hide it.
AcceptedIsRecoverable ==
    \A s \in accepted : s \in forwarded \cup RecoveredBacklog

\* While the disk works, the files say what the session's memory says - the
\* queue, the last accepted seq and whether it ended - and whichever segments
\* were retired, they can be recovered.
RecoveryIsExact ==
    failures = 0 /\ DOMAIN files # {} =>
        /\ RecoveredMeta
        /\ up => RecoveredBacklog = queue
        /\ up => RecoveredLast = lastAccepted
        /\ up => RecoveredStopped = ended

\* Until a restart, disk use tracks the queue: beside the segment being written
\* and those holding a queued packet, at most one waits for the next Progress.
SegmentsTrackQueue ==
    up /\ crashes = 0 /\ failures = 0 /\ Keep = "queue" =>
        Cardinality({i \in DOMAIN files \ {segment} :
                        SeqsOf("packet", Readable(files[i])) \cap queue = {}}) <= 1

\* SessionJournal.h: with segments deleted once everything in them reached the
\* pipeline, a healthy session holds one or two of them.
HoldsOneOrTwoSegments ==
    up /\ failures = 0 /\ Keep = "queue" /\ queue = {} => Cardinality(DOMAIN files) <= 2
=============================================================================
