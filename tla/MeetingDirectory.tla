-------------------------- MODULE MeetingDirectory --------------------------
(***************************************************************************)
(* All meetings of a server: the hub's table, the buffers with their       *)
(* forwarders, the journals, and the rows of the store.  Meetings are      *)
(* started, deleted, edited and read back by handlers on connection        *)
(* threads, forgotten by the reaper, stopped by a shutdown and put back    *)
(* by the next start.  What goes on inside a meeting is SessionBuffer's.   *)
(***************************************************************************)
EXTENDS Integers, FiniteSets

CONSTANTS
    Meetings,    \* the ids start_session will mint
    MaxRestart,  \* bound: restarts
    Races        \* the races that may happen, see below

ASSUME DirectoryAssumption ==
    /\ IsFiniteSet(Meetings) /\ MaxRestart \in Nat
    /\ Races \subseteq {"late", "unlisted", "taken", "edit"}

VARIABLES
    phase,     \* of the process; "freed" is ~BufferHub behind m_backend.reset()
    table,     \* m_sessions
    buffer,    \* the SessionBuffer and its forwarder
    asked,     \* buffers told to shut down
    journal,   \* the journal on disk
    row,       \* meetings in the sessions table: what list_sessions lists
    audio,     \* meetings with an audio file
    text,      \* meetings in the transcripts table
    starting,  \* the handler of start_session
    deleting,  \* the handler of delete_session
    editing,   \* the handler of an edit
    dropped,   \* forget: taken from the table, its journal still to be unlinked
    known,     \* history: start_session answered OK
    over,      \* history: stopped, by its client or by the orphan rule, or refused by the tier
    gone,      \* history: delete_session answered OK
    claimed,   \* awaitingClient() is false
    restarts   \* bounded

handlers == <<starting, deleting, editing, dropped>>
disk == <<journal, row, audio, text>>
vars == <<phase, table, buffer, asked, disk, handlers, known, over, gone, claimed, restarts>>

Serving == phase \in {"up", "stopping", "closing"}
Accepting == phase \in {"up", "stopping"}   \* no frame is read once server.stop() has begun
Alive == {m \in Meetings : buffer[m] \in {"opening", "running"}}
IsFinished(m) == buffer[m] = "finished"

-----------------------------------------------------------------------------
(* The races, each of which an instance may leave out:                     *)
(*   late      start_session is past its check when a shutdown begins;     *)
(*   unlisted  a meeting is deleted while it has a buffer or a journal     *)
(*             that the table does not show: during a shutdown, before it  *)
(*             is inserted, or after a start that failed;                  *)
(*   taken     the reaper or a shutdown takes a meeting from the table     *)
(*             under its deletion, which then leaves the journal to them;  *)
(*   edit      a meeting is deleted under a running edit.                  *)

NoLateStart == "late" \in Races \/ \A m \in Meetings : starting[m] = "idle"
NothingUnlisted(m) ==
    "unlisted" \in Races \/ m \in table \/ (m \notin Alive /\ journal[m] # "open")
NotTaken(m) == "taken" \in Races \/ deleting[m] # "forget"
NoEdit(m) == "edit" \in Races \/ editing[m] = "idle"

-----------------------------------------------------------------------------
Init ==
    /\ phase = "up" /\ table = {} /\ asked = {}
    /\ buffer = [m \in Meetings |-> "none"]
    /\ journal = [m \in Meetings |-> "none"]
    /\ row = {} /\ audio = {} /\ text = {}
    /\ starting = [m \in Meetings |-> "idle"]
    /\ deleting = [m \in Meetings |-> "idle"]
    /\ editing = [m \in Meetings |-> "idle"]
    /\ dropped = {} /\ known = {} /\ over = {} /\ gone = {} /\ claimed = {}
    /\ restarts = 0

-----------------------------------------------------------------------------
(* start_session.                                                          *)

IsNew(m) ==
    /\ m \notin row \cup known \cup over \cup gone \cup table
    /\ buffer[m] = "none" /\ journal[m] = "none"

\* m_shuttingDown is read under the mutex, and the mutex is let go.
StartCheck(m) ==
    /\ phase = "up" /\ IsNew(m) /\ starting[m] = "idle"
    /\ deleting[m] = "idle" /\ m \notin dropped
    /\ starting' = [starting EXCEPT ![m] = "checked"]
    /\ UNCHANGED <<phase, table, buffer, asked, disk, deleting, editing, dropped,
                   known, over, gone, claimed, restarts>>

\* The constructor: the row, the journal, the forwarder's thread.
StartCreate(m) ==
    /\ Serving /\ starting[m] = "checked"
    /\ row' = row \cup {m}
    /\ journal' = [journal EXCEPT ![m] = "open"]
    /\ buffer' = [buffer EXCEPT ![m] = "opening"]
    /\ claimed' = claimed \cup {m}
    /\ starting' = [starting EXCEPT ![m] = "waiting"]
    /\ UNCHANGED <<phase, table, asked, audio, text, deleting, editing, dropped,
                   known, over, gone, restarts>>

\* openBackend is answered OK; the meeting is inserted, whatever happened since
\* the check, and answered.
StartAnswer(m) ==
    /\ Serving /\ starting[m] = "waiting" /\ buffer[m] = "running"
    /\ table' = table \cup {m}
    /\ known' = known \cup {m}
    /\ starting' = [starting EXCEPT ![m] = "idle"]
    /\ UNCHANGED <<phase, buffer, asked, disk, deleting, editing, dropped,
                   over, gone, claimed, restarts>>

\* The tier refused, or did not answer in time: the handler drops the buffer,
\* whose destructor joins the forwarder.  The journal and the row stay.
StartFail(m) ==
    /\ Serving /\ starting[m] = "waiting" /\ buffer[m] \in {"opening", "finished"}
    /\ buffer' = [buffer EXCEPT ![m] = "none"]
    /\ starting' = [starting EXCEPT ![m] = "idle"]
    /\ UNCHANGED <<phase, table, asked, disk, deleting, editing, dropped,
                   known, over, gone, claimed, restarts>>

-----------------------------------------------------------------------------
(* The forwarder.                                                          *)

Opens(m) ==
    /\ buffer[m] = "opening" /\ phase # "down"
    /\ buffer' = [buffer EXCEPT ![m] = "running"]
    /\ UNCHANGED <<phase, table, asked, disk, handlers, known, over, gone, claimed, restarts>>

\* The tier refuses the stream: m_finished without a Stopped record.
CannotOpen(m) ==
    /\ buffer[m] = "opening" /\ phase # "down"
    /\ buffer' = [buffer EXCEPT ![m] = "finished"]
    /\ over' = over \cup (table \cap {m})
    /\ UNCHANGED <<phase, table, asked, disk, handlers, known, gone, claimed, restarts>>

\* A packet is archived and the transcript saved.
Archive(m) ==
    /\ buffer[m] = "running" /\ phase # "down"
    /\ audio' = audio \cup {m} /\ text' = text \cup {m}
    /\ UNCHANGED <<phase, table, buffer, asked, journal, row, handlers, known, over, gone,
                   claimed, restarts>>

\* A stop, of the client or of the orphan rule, has been drained: the last save,
\* then m_finished with the Stopped record.
Finish(m) ==
    /\ buffer[m] = "running" /\ phase # "down" /\ m \notin asked
    /\ m \in table
    /\ text' = text \cup {m}
    /\ buffer' = [buffer EXCEPT ![m] = "finished"]
    /\ journal' = [journal EXCEPT ![m] = "stopped"]
    /\ over' = over \cup {m}
    /\ UNCHANGED <<phase, table, asked, row, audio, handlers, known, gone, claimed, restarts>>

\* run sees m_shutdownRequested and ends without a Stopped record.  The mutant's
\* shutdown does not wake the forwarder that waits for a packet.
SeesShutdownIfAwake(m) == m \in asked /\ buffer[m] = "opening"
SeesShutdown(m) == m \in asked /\ m \in Alive

Interrupted(m) ==
    /\ SeesShutdown(m)
    /\ buffer' = [buffer EXCEPT ![m] = "finished"]
    /\ UNCHANGED <<phase, table, asked, disk, handlers, known, over, gone, claimed, restarts>>

-----------------------------------------------------------------------------
(* delete_session.                                                         *)

\* A running meeting is refused; the handler keeps what find returned.
DeleteCheck(m) ==
    /\ Accepting /\ deleting[m] = "idle"
    /\ m \in table => IsFinished(m)
    /\ m \in row
    /\ NothingUnlisted(m) /\ NoEdit(m)
    /\ deleting' = [deleting EXCEPT ![m] = IF m \in table THEN "forget" ELSE "files"]
    /\ UNCHANGED <<phase, table, buffer, asked, disk, starting, editing, dropped,
                   known, over, gone, claimed, restarts>>

\* forget takes the meeting from the table; whoever finds it there unlinks the
\* journal once the buffer is gone.
DeleteForget(m) ==
    /\ Serving /\ deleting[m] = "forget"
    /\ table' = table \ {m}
    /\ dropped' = IF m \in table THEN dropped \cup {m} ELSE dropped
    /\ buffer' = IF m \in table THEN [buffer EXCEPT ![m] = "none"] ELSE buffer
    /\ deleting' = [deleting EXCEPT ![m] = IF m \in table THEN "unlink" ELSE "files"]
    /\ UNCHANGED <<phase, asked, disk, starting, editing, known, over, gone, claimed, restarts>>

\* The mutant forgets the meeting and leaves its journal.
LeaveJournal(m) ==
    /\ UNCHANGED journal
    /\ dropped' = dropped \ {m}

Unlink(m) ==
    /\ journal' = [journal EXCEPT ![m] = "none"]
    /\ dropped' = dropped \ {m}

DeleteUnlink(m) ==
    /\ phase # "down" /\ deleting[m] = "unlink"
    /\ Unlink(m)
    /\ deleting' = [deleting EXCEPT ![m] = "files"]
    /\ UNCHANGED <<phase, table, buffer, asked, row, audio, text, starting, editing,
                   known, over, gone, claimed, restarts>>

\* deleteSession removes the audio first, and only then the rows.  The mutant
\* has them in the other order.
RowsFirst == <<"rows", "files">>
DeletionOrder == <<"files", "rows">>

DeleteFiles(m) ==
    /\ phase # "down" /\ deleting[m] \in {"files", "rows"}
    /\ LET step == DeletionOrder[IF deleting[m] = "files" THEN 1 ELSE 2]
       IN  IF step = "files" THEN audio' = audio \ {m} /\ UNCHANGED <<row, text>>
           ELSE row' = row \ {m} /\ text' = text \ {m} /\ UNCHANGED audio
    /\ deleting' = [deleting EXCEPT ![m] = IF deleting[m] = "files" THEN "rows" ELSE "idle"]
    /\ gone' = IF deleting[m] = "files" THEN gone ELSE gone \cup {m}
    /\ UNCHANGED <<phase, table, buffer, asked, journal, starting, editing, dropped,
                   known, over, claimed, restarts>>

-----------------------------------------------------------------------------
(* Edits, of the meeting in memory or of its rows in the store.            *)

EditFind(m) ==
    /\ Accepting /\ editing[m] = "idle"
    /\ m \in table \/ m \in row \cap text
    /\ "edit" \in Races \/ deleting[m] = "idle"
    /\ editing' = [editing EXCEPT ![m] = IF m \in table THEN "found" ELSE "loaded"]
    /\ UNCHANGED <<phase, table, buffer, asked, disk, starting, deleting, dropped,
                   known, over, gone, claimed, restarts>>

EditSave(m) ==
    /\ phase # "down" /\ editing[m] # "idle"
    /\ text' = text \cup {m}
    /\ editing' = [editing EXCEPT ![m] = "idle"]
    /\ UNCHANGED <<phase, table, buffer, asked, journal, row, audio, starting, deleting,
                   dropped, known, over, gone, claimed, restarts>>

-----------------------------------------------------------------------------
(* The main thread: reap, shutdown, the end of main.                       *)

Claim(m) ==
    /\ Accepting /\ m \in (table \cap known) \ claimed
    /\ claimed' = claimed \cup {m}
    /\ UNCHANGED <<phase, table, buffer, asked, disk, handlers, known, over, gone, restarts>>

\* reap's expired list, one meeting of it.
Reap(m) ==
    /\ phase = "up" /\ m \in table /\ IsFinished(m)
    /\ NotTaken(m)
    /\ table' = table \ {m}
    /\ buffer' = [buffer EXCEPT ![m] = "none"]
    /\ dropped' = dropped \cup {m}
    /\ UNCHANGED <<phase, asked, disk, starting, deleting, editing, known, over, gone, claimed, restarts>>

ReapUnlink(m) ==
    /\ phase = "up" /\ m \in dropped /\ deleting[m] # "unlink"
    /\ Unlink(m)
    /\ UNCHANGED <<phase, table, buffer, asked, row, audio, text, starting, deleting, editing,
                   known, over, gone, claimed, restarts>>

\* The list is taken and the table emptied in one critical section.  Not while
\* reap, on the same thread, is between take and unlink.
Shutdown ==
    /\ phase = "up" /\ NoLateStart /\ \A m \in table : NotTaken(m)
    /\ \A m \in dropped : deleting[m] = "unlink"
    /\ phase' = "stopping"
    /\ asked' = table /\ table' = {}
    /\ UNCHANGED <<buffer, disk, handlers, known, over, gone, claimed, restarts>>

\* refs.clear() joins the forwarders.
Joined ==
    /\ phase = "stopping" /\ asked \cap Alive = {}
    /\ phase' = "closing"
    /\ buffer' = [m \in Meetings |-> IF m \in asked THEN "none" ELSE buffer[m]]
    /\ UNCHANGED <<table, asked, disk, handlers, known, over, gone, claimed, restarts>>

NoHandler ==
    \A m \in Meetings : starting[m] = "idle" /\ deleting[m] = "idle" /\ editing[m] = "idle"

\* server.stop() has joined the connection threads; the hub is destroyed, the
\* backend before the table.
FreeBackend ==
    /\ phase = "closing" /\ NoHandler
    /\ phase' = "freed"
    /\ UNCHANGED <<table, buffer, asked, disk, handlers, known, over, gone, claimed, restarts>>

\* What the process held is gone.
Vanish ==
    /\ phase' = "down"
    /\ table' = {} /\ asked' = {} /\ dropped' = {} /\ claimed' = {}
    /\ buffer' = [m \in Meetings |-> "none"]
    /\ starting' = [m \in Meetings |-> "idle"]
    /\ deleting' = [m \in Meetings |-> "idle"]
    /\ editing' = [m \in Meetings |-> "idle"]
    /\ UNCHANGED <<disk, known, over, gone, restarts>>

Exit == phase = "freed" /\ Vanish
Crash == phase # "down" /\ restarts < MaxRestart /\ Vanish

\* recoverSessions, before the port is opened: a stopped journal is removed, any
\* other becomes a meeting again.  The mutant recovers only meetings that have a
\* transcript.
RecoversWithText == {m \in text : journal[m] = "open"}
Recovers == {m \in Meetings : journal[m] = "open"}

Restart ==
    /\ phase = "down" /\ restarts < MaxRestart
    /\ phase' = "up" /\ restarts' = restarts + 1
    /\ table' = Recovers
    /\ buffer' = [m \in Meetings |-> IF m \in Recovers THEN "opening" ELSE "none"]
    /\ journal' = [m \in Meetings |-> IF m \in Recovers THEN "open" ELSE "none"]
    /\ UNCHANGED <<asked, row, audio, text, handlers, known, over, gone, claimed>>

\* The server stays down.
AtRest == phase = "down" /\ UNCHANGED vars

Starting(m) == StartCheck(m) \/ StartCreate(m) \/ StartAnswer(m) \/ StartFail(m)
Forwarder(m) == Opens(m) \/ CannotOpen(m) \/ Archive(m) \/ Finish(m) \/ Interrupted(m)
Deleting(m) == DeleteCheck(m) \/ DeleteForget(m) \/ DeleteUnlink(m) \/ DeleteFiles(m)
Editing(m) == EditFind(m) \/ EditSave(m)
Reaper(m) == Claim(m) \/ Reap(m) \/ ReapUnlink(m)
Process == Shutdown \/ Joined \/ FreeBackend \/ Exit \/ Crash \/ Restart \/ AtRest

Next ==
    \/ \E m \in Meetings : Starting(m) \/ Forwarder(m) \/ Deleting(m) \/ Editing(m) \/ Reaper(m)
    \/ Process

Spec == Init /\ [][Next]_vars

\* Handlers and forwarders run to their end: every wait in them is bounded.  A
\* running forwarder that is told to stop looks at the flag between packets.
\* The main thread goes on through its shutdown, and reap is on a timer.
FairSpec ==
    /\ Spec
    /\ WF_vars(Joined) /\ WF_vars(FreeBackend) /\ WF_vars(Exit)
    /\ \A m \in Meetings :
        /\ WF_vars(Opens(m) \/ CannotOpen(m)) /\ WF_vars(Interrupted(m))
        /\ WF_vars(StartCreate(m)) /\ WF_vars(StartAnswer(m) \/ StartFail(m))
        /\ WF_vars(DeleteForget(m) \/ DeleteUnlink(m) \/ DeleteFiles(m)) /\ WF_vars(EditSave(m))
        /\ WF_vars(ReapUnlink(m))

-----------------------------------------------------------------------------
(* Properties.                                                             *)

TypeOK ==
    /\ phase \in {"up", "stopping", "closing", "freed", "down"}
    /\ table \subseteq Meetings /\ asked \subseteq Meetings /\ dropped \subseteq Meetings
    /\ buffer \in [Meetings -> {"none", "opening", "running", "finished"}]
    /\ journal \in [Meetings -> {"none", "open", "stopped"}]
    /\ row \subseteq Meetings /\ audio \subseteq Meetings /\ text \subseteq Meetings
    /\ starting \in [Meetings -> {"idle", "checked", "waiting"}]
    /\ deleting \in [Meetings -> {"idle", "forget", "unlink", "files", "rows"}]
    /\ editing \in [Meetings -> {"idle", "found", "loaded"}]
    /\ known \subseteq Meetings /\ over \subseteq Meetings /\ gone \subseteq Meetings
    /\ claimed \subseteq Meetings /\ restarts \in 0..MaxRestart

\* A meeting whose start was answered and that nobody has ended is in the table
\* of a running server, and in every state, a crash included, its journal is on
\* disk for the next start to read (BufferHub::recoverSessions, reap, shutdown).
StartedIsKept ==
    \A m \in known \ over :
        /\ phase = "up" => m \in table
        /\ journal[m] = "open"

\* What is on disk of a meeting can be listed, and so deleted: no journal, audio
\* or transcript is left without the row list_sessions and delete_session go by,
\* whichever step of a deletion a crash comes after (SessionStore::deleteSession).
KeptIsListed ==
    \A m \in Meetings : journal[m] = "open" \/ m \in audio \cup text => m \in row

\* A deleted meeting does not come back: not from its journal at a restart, not
\* by a reap or a shutdown that ran beside the deletion (BufferHub::forget).
DeletedStaysDeleted ==
    \A m \in gone : m \notin row \cup audio \cup text \cup table /\ journal[m] # "open"

\* A shutdown that has begun ends the process, whatever the forwarders and the
\* handlers were doing (BufferHub::shutdown, Http2Server::stop).
ShutdownEnds == phase = "stopping" ~> phase = "down"

\* BufferHub::shutdown "stops every forwarder and waits for them": none is left
\* to call into the backend ~BufferHub has freed.
NoForwarderOutlivesBackend == phase = "freed" => Alive = {}

=============================================================================
