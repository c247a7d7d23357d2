-------------------------- MODULE TranscriptArchive --------------------------
(***************************************************************************)
(* The transcript of one meeting: in memory, where the forwarder, editors  *)
(* on connection threads and the tier's corrections change it, and in the  *)
(* SQLite store, where each of them saves it, and from where a restart and *)
(* edits of archived meetings read it back.                                *)
(*                                                                         *)
(* The text is a function from places to what stands there.  A place is    *)
(* the span of one packet the tier answered; place Name stands for the     *)
(* speakers' names, which a rename edits.                                  *)
(***************************************************************************)
EXTENDS Integers, Sequences, FiniteSets, FiniteSetsExt

CONSTANTS
    Editors,     \* operators; each makes one edit that is answered
    MaxHeard,    \* bound: packets the tier answers
    MaxRestart,  \* bound: restarts
    Races        \* the races between writers that may happen, see below

ASSUME ArchiveAssumption ==
    /\ IsFiniteSet(Editors)
    /\ Editors \cap {"gap", "guess", "machine"} = {}
    /\ MaxHeard \in Nat /\ MaxRestart \in Nat
    /\ Races \subseteq {"snapshots", "copies", "closing", "restart"}

VARIABLES
    phase,      \* of the process and of the session in its hub
    stopped,    \* m_finished after the final save, with its Stopped record
    heard,      \* packets answered: the journal's Progress, which survives
    offset,     \* m_streamTimeOffsetSec: what earlier streams answered
    live,       \* m_live, the transcript in memory
    manual,     \* m_manualSpans: places the tier may not rewrite
    unsaved,    \* m_live.version() # m_lastSavedVersion
    store,      \* the meeting's row of the transcripts table
    fpc,        \* the forwarder's program counter
    fsnap,      \* the snapshot the forwarder is writing
    ed,         \* the editors' requests and their handlers
    restarts    \* bounded

forwarder == <<fpc, fsnap, heard, offset>>
vars == <<phase, stopped, live, manual, unsaved, store, ed, restarts, forwarder>>

Name == 0
Words == 1..MaxHeard
Places == {Name} \cup Words

\* A guess is in the provisional lane; what the tier has corrected is machine
\* text; an edited place holds its editor.
Text == [Places -> {"gap", "guess", "machine"} \cup Editors]

Transcripts == [text : Text, settled : 0..MaxHeard, revision : Nat, done : BOOLEAN]
Empty == [text |-> [p \in Places |-> IF p = Name THEN "machine" ELSE "gap"],
          settled |-> 0, revision |-> 0, done |-> FALSE]
HasRow == store # Empty

Listed == phase = "running"
Up == phase \in {"running", "closing", "forgotten"}

\* An editor: the place of the edit, the revision and the text it was based on,
\* the handler's snapshot, and (history) who edited the place later.
Idle == [pc |-> "idle", at |-> Name, base |-> 0, saw |-> "gap", snap |-> Empty, later |-> {}]

-----------------------------------------------------------------------------
(* LiveTranscript.                                                         *)

Guesses(text) == {p \in Words : text[p] = "guess"}
Promoted(text) == [p \in Places |-> IF p \in Guesses(text) THEN "machine" ELSE text[p]]

\* What a correction up to c may rewrite: this stream's places, but not those
\* a person has edited.
Rewrites(c) == (offset + 1..c) \ manual

\* m_commitBoundarySec: what the correction settles.
Boundary(c) == c

\* apply: packet n is answered with a guess at its words and a correction up
\* to c, 0 when there is none.  The correction counts as a revision.
Applied(t, n, c) ==
    LET guessed == [t.text EXCEPT ![n] = "guess"]
    IN  [t EXCEPT !.text = [p \in Places |-> IF p \in Rewrites(c) THEN "machine" ELSE guessed[p]],
                  !.settled = IF c > @ THEN Boundary(c) ELSE @,
                  !.revision = IF c > 0 THEN @ + 1 ELSE @]

\* The tail of the stream and markDone: whatever is still a guess is promoted.
Ended(t, tail) ==
    LET left == IF tail THEN {} ELSE Guesses(t.text)
    IN  [t EXCEPT !.text = Promoted(t.text),
                  !.settled = IF tail THEN heard ELSE @,
                  !.revision = @ + (IF tail THEN 1 ELSE 0) + (IF left # {} THEN 1 ELSE 0),
                  !.done = TRUE]

\* restore: the moving edge of the snapshot becomes settled text.
Restored(t) ==
    [t EXCEPT !.text = Promoted(t.text),
              !.settled = Max({@} \cup Guesses(t.text))]

IsEditable(t, p) == p = Name \/ t.done \/ p <= t.settled

\* A rename carries no revision.  The mutant refuses only what is newer than
\* the transcript.
BaseIsNotNewer(t, e) == ed[e].at = Name \/ ed[e].base <= t.revision
BaseMatches(t, e) == ed[e].at = Name \/ ed[e].base = t.revision

\* applyEdit and renameSpeaker.  Both move the version.
UnsavedAfterEdit(e) == TRUE
Edited(t, e) == [t EXCEPT !.text[ed[e].at] = e, !.revision = @ + 1]

-----------------------------------------------------------------------------
Init ==
    /\ phase = "running" /\ stopped = FALSE
    /\ heard = 0 /\ offset = 0
    /\ live = Empty /\ manual = {} /\ unsaved = FALSE /\ store = Empty
    /\ fpc = "waiting" /\ fsnap = Empty
    /\ ed = [e \in Editors |-> Idle]
    /\ restarts = 0

-----------------------------------------------------------------------------
(* The races between writers, each of which an instance may leave out:     *)
(*   snapshots  a snapshot is taken while another is still to be written;  *)
(*   copies     the stored transcript is edited while a handler still has  *)
(*              the one in memory, or the one in memory once forgotten;    *)
(*   closing    the stored transcript is edited while the forwarder of a   *)
(*              server that is shutting down still has the one in memory;  *)
(*   restart    an edit is based on what was read before the server was    *)
(*              shut down or restarted.                                    *)

HoldsLive(e) == ed[e].pc \in {"live", "applied", "writing"}
NoOtherSnapshot ==
    \/ "snapshots" \in Races
    \/ fpc # "writing" /\ \A e \in Editors : ed[e].pc # "writing"
NoOtherCopy ==
    /\ "copies" \in Races \/ \A e \in Editors : ~HoldsLive(e)
    /\ "closing" \in Races \/ phase # "closing" \/ fpc \in {"waiting", "over"}

-----------------------------------------------------------------------------
(* The forwarder: run, forward and saveState(false).                       *)

Push ==
    /\ fpc = "waiting" /\ Listed /\ heard < MaxHeard
    /\ fpc' = "pushing"
    /\ UNCHANGED <<phase, stopped, live, manual, unsaved, store, ed, restarts,
                   fsnap, heard, offset>>

Answer ==
    /\ fpc = "pushing"
    /\ heard' = heard + 1
    /\ \E c \in {0} \cup (offset + 1..heard + 1) : live' = Applied(live, heard + 1, c)
    /\ unsaved' = TRUE
    /\ fpc' = "answered"
    /\ UNCHANGED <<phase, stopped, manual, store, ed, restarts,
                   fsnap, offset>>

\* The tier is away: the push is repeated, unless the server is shutting down.
TierAway ==
    /\ fpc = "pushing"
    /\ fpc' = "waiting"
    /\ UNCHANGED <<phase, stopped, live, manual, unsaved, store, ed, restarts,
                   fsnap, heard, offset>>

\* After an answer, while the tier is away, and while the queue is empty.
MaySave == fpc \in {"answered", "pushing"} \/ (fpc = "waiting" /\ Listed)

SaveSnapshot ==
    /\ MaySave
    /\ unsaved /\ NoOtherSnapshot
    /\ fsnap' = live /\ unsaved' = FALSE
    /\ fpc' = "writing"
    /\ UNCHANGED <<phase, stopped, live, manual, store, ed, restarts, heard, offset>>

SaveWrite ==
    /\ fpc = "writing"
    /\ store' = fsnap /\ fsnap' = Empty
    /\ fpc' = "waiting"
    /\ UNCHANGED <<phase, stopped, live, manual, unsaved, ed, restarts,
                   heard, offset>>

\* The interval since the last save has not passed, or nothing is new.
SaveNotDue ==
    /\ fpc = "answered"
    /\ fpc' = "waiting"
    /\ UNCHANGED <<phase, stopped, live, manual, unsaved, store, ed, restarts,
                   fsnap, heard, offset>>

\* The queue is drained behind a stop, and finish() is called.
BeginFlush ==
    /\ fpc = "waiting" /\ Listed
    /\ fpc' = "flushing"
    /\ UNCHANGED <<phase, stopped, live, manual, unsaved, store, ed, restarts,
                   fsnap, heard, offset>>

\* The tier's last answers, if finish() succeeds, and markDone.
Flush ==
    /\ fpc = "flushing"
    /\ \E tail \in BOOLEAN : live' = Ended(live, tail /\ heard > offset)
    /\ unsaved' = TRUE
    /\ fpc' = "flushed"
    /\ UNCHANGED <<phase, stopped, manual, store, ed, restarts,
                   fsnap, heard, offset>>

\* Snapshot and write under m_stateMutex.  The mutant saves as saveState(false)
\* does, and its interval has not passed.
FinalRowIfDue == store
FinalRow == live

FinalSave ==
    /\ fpc = "flushed" /\ NoOtherSnapshot
    /\ store' = FinalRow
    /\ fpc' = "saved"
    /\ UNCHANGED <<phase, stopped, live, manual, unsaved, ed, restarts,
                   fsnap, heard, offset>>

Finish ==
    /\ fpc = "saved"
    /\ stopped' = TRUE
    /\ fpc' = "over"
    /\ UNCHANGED <<phase, live, manual, unsaved, store, ed, restarts,
                   fsnap, heard, offset>>

Forwarder == Push \/ Answer \/ TierAway \/ SaveSnapshot \/ SaveWrite \/ SaveNotDue
               \/ BeginFlush \/ Flush \/ FinalSave \/ Finish

-----------------------------------------------------------------------------
(* Editors.  get_review_state and apply_text_edit or rename_speaker are    *)
(* two calls, and the handler of the second finds the session, applies the *)
(* edit, takes the snapshot and writes it in four critical sections.       *)

\* What an editor is shown: the transcript in memory, or the stored one.
Shown == IF Listed THEN live ELSE store

Read(e) ==
    /\ Up /\ ed[e].pc = "idle"
    /\ Listed \/ HasRow
    /\ \E p \in {Name} \cup {q \in Words : Shown.text[q] # "gap"} :
         ed' = [ed EXCEPT ![e] = [Idle EXCEPT !.pc = "read", !.at = p, !.base = Shown.revision,
                                              !.saw = Shown.text[p]]]
    /\ UNCHANGED <<phase, stopped, live, manual, unsaved, store, restarts, forwarder>>

\* BufferHub::find.
Find(e) ==
    /\ Up /\ ed[e].pc = "read"
    /\ ed' = [ed EXCEPT ![e].pc = IF Listed THEN "live" ELSE "archive"]
    /\ UNCHANGED <<phase, stopped, live, manual, unsaved, store, restarts, forwarder>>

\* edit_range_not_committed, ABORTED or NOT_FOUND: the editor reads again.
Refuse(e) == ed' = [ed EXCEPT ![e] = Idle]

\* From here the edit counts; who edited the same place before is told.
Accept(e, pc, snap) ==
    ed' = [f \in Editors |->
             IF f = e THEN [Idle EXCEPT !.pc = pc, !.at = ed[e].at, !.snap = snap]
             ELSE IF ed[f].pc \in {"applied", "writing", "saving", "answered"} /\ ed[f].at = ed[e].at
             THEN [ed[f] EXCEPT !.later = @ \cup {e}] ELSE ed[f]]

EditLive(e) ==
    /\ Up /\ ed[e].pc = "live"
    /\ \/ /\ BaseMatches(live, e) /\ IsEditable(live, ed[e].at)
          /\ live' = Edited(live, e) /\ unsaved' = UnsavedAfterEdit(e)
          /\ manual' = manual \cup ({ed[e].at} \ {Name})
          /\ Accept(e, "applied", Empty)
       \/ /\ ~(BaseMatches(live, e) /\ IsEditable(live, ed[e].at))
          /\ Refuse(e)
          /\ UNCHANGED <<live, manual, unsaved>>
    /\ UNCHANGED <<phase, stopped, store, restarts, forwarder>>

\* saveState(true).
EditSnapshot(e) ==
    /\ Up /\ ed[e].pc = "applied" /\ NoOtherSnapshot
    /\ ed' = [ed EXCEPT ![e].pc = "writing", ![e].snap = live]
    /\ unsaved' = FALSE
    /\ UNCHANGED <<phase, stopped, live, manual, store, restarts, forwarder>>

\* editArchived and renameArchived hold m_archiveMutex from load to save.  The
\* mutant has no such mutex.
ArchiveUnguarded == TRUE
ArchiveFree == \A e \in Editors : ed[e].pc # "saving"

EditArchived(e) ==
    /\ Up /\ ed[e].pc = "archive" /\ ArchiveFree
    /\ \/ /\ HasRow /\ BaseMatches(Restored(store), e) /\ NoOtherCopy
          /\ Accept(e, "saving", Edited(Restored(store), e))
       \/ /\ ~HasRow \/ ~BaseMatches(Restored(store), e)
          /\ Refuse(e)
    /\ UNCHANGED <<phase, stopped, live, manual, unsaved, store, restarts, forwarder>>

EditWrite(e) ==
    /\ Up /\ ed[e].pc \in {"writing", "saving"}
    /\ store' = ed[e].snap
    /\ ed' = [ed EXCEPT ![e].pc = "answered", ![e].snap = Empty]
    /\ UNCHANGED <<phase, stopped, live, manual, unsaved, restarts, forwarder>>

Editor(e) == Read(e) \/ Find(e) \/ EditLive(e) \/ EditSnapshot(e) \/ EditArchived(e) \/ EditWrite(e)

-----------------------------------------------------------------------------
(* The hub and the process.                                                *)

Forget ==
    /\ Listed /\ stopped
    /\ phase' = "forgotten"
    /\ UNCHANGED <<stopped, live, manual, unsaved, store, ed, restarts, forwarder>>

\* What an editor has read is not the server's to lose, but see "restart" above.
Kept(e) == IF "restart" \in Races THEN ed[e] ELSE Idle

\* BufferHub::shutdown: no session is found any more, but the port is open and
\* the forwarder finishes the call it is in.
Shutdown ==
    /\ Listed
    /\ phase' = "closing"
    /\ ed' = [e \in Editors |-> IF ed[e].pc = "read" THEN Kept(e) ELSE ed[e]]
    /\ UNCHANGED <<stopped, live, manual, unsaved, store, restarts, forwarder>>

\* A crash, or the end of a shutdown: neither saves anything.  The handlers go
\* with it.
Down ==
    /\ Up
    /\ phase' = "down"
    /\ live' = Empty /\ manual' = {} /\ unsaved' = FALSE /\ offset' = 0
    /\ fpc' = "over" /\ fsnap' = Empty
    /\ ed' = [e \in Editors |-> IF ed[e].pc = "answered" THEN ed[e]
                               ELSE IF ed[e].pc = "read" THEN Kept(e) ELSE Idle]
    /\ UNCHANGED <<stopped, store, restarts, heard>>

\* recoverSessions: a meeting without its Stopped record is rebuilt, on a new
\* stream whose times start where the last one ended.  The mutant lets them
\* start at zero.
StreamStartsAtZero == 0
StreamStart == heard

Restart ==
    /\ phase = "down" /\ restarts < MaxRestart
    /\ restarts' = restarts + 1
    /\ \/ /\ stopped
          /\ phase' = "forgotten"
          /\ UNCHANGED <<live, unsaved, fpc, offset>>
       \/ /\ ~stopped
          /\ phase' = "running"
          /\ live' = Restored(store) /\ unsaved' = HasRow
          /\ fpc' = "waiting" /\ offset' = StreamStart
    /\ UNCHANGED <<stopped, manual, store, ed, fsnap, heard>>

\* The meeting is only in the archive, or the server stays down.
AtRest == phase \in {"forgotten", "down"} /\ UNCHANGED vars

Next == Forwarder \/ (\E e \in Editors : Editor(e)) \/ Forget \/ Shutdown \/ Down \/ Restart \/ AtRest

Spec == Init /\ [][Next]_vars

\* The forwarder is a thread whose waits are timed, so that the interval passes
\* and a save that is due is made; finish() has a deadline; handlers run to their end.
Fairness ==
    /\ WF_vars(SaveSnapshot) /\ WF_vars(SaveWrite) /\ WF_vars(Flush) /\ WF_vars(FinalSave)
    /\ \A e \in Editors : WF_vars(EditSnapshot(e)) /\ WF_vars(EditWrite(e))
FairSpec == Spec /\ Fairness

-----------------------------------------------------------------------------
Pcs == {"idle", "read", "live", "applied", "writing", "archive", "saving", "answered"}

\* The variables have their types, and no boundary is ahead of the sound.
TypeOK ==
    /\ phase \in {"running", "closing", "forgotten", "down"}
    /\ stopped \in BOOLEAN /\ unsaved \in BOOLEAN
    /\ heard \in 0..MaxHeard /\ offset \in 0..heard /\ restarts \in 0..MaxRestart
    /\ {live, store, fsnap} \subseteq Transcripts
    /\ live.settled <= heard /\ store.settled <= heard
    /\ manual \subseteq Words
    /\ fpc \in {"waiting", "pushing", "answered", "writing", "flushing", "flushed", "saved", "over"}
    /\ ed \in [Editors -> [pc : Pcs, at : Places, base : Nat, snap : Transcripts,
                           saw : {"gap", "guess", "machine"} \cup Editors, later : SUBSET Editors]]

\* An edit or rename whose editor was answered is in the store, unless a later
\* edit took its place: through restarts, the end of the meeting and edits in
\* the archive.  "An edit that lives only in RAM is lost to a restart"
\* (SessionBuffer.cpp:580).
AnsweredEditIsStored ==
    \A e \in Editors : ed[e].pc = "answered" => store.text[ed[e].at] \in {e} \cup ed[e].later

\* A meeting that is over has its whole text in the store, with every edit that
\* is not still on its way there: forgetting it loses nothing
\* (SessionBuffer.cpp:1295-1310).  Before that the forwarder skips a save only of
\* what the store has: while m_lastSavedVersion is the transcript's version, the
\* store holds its text or is about to (SessionBuffer.cpp:797).
FinishedIsStored ==
    /\ Listed /\ stopped /\ (\A e \in Editors : ed[e].pc \notin {"applied", "writing"})
         => store.text = live.text /\ store.done
    /\ Listed /\ ~unsaved /\ fpc # "writing" /\ (\A e \in Editors : ed[e].pc # "writing")
         => store.text = live.text

\* While the process lives the tier never takes back what a person wrote: what
\* replaces an edit is another edit, also of words from before a restart
\* (LiveTranscript.h:80-83).
OnlyPeopleReplaceEdits ==
    [][\A p \in Words : live.text[p] \in Editors /\ Up' => live'.text[p] \in Editors]_vars

\* Nobody overwrites words they have not seen: what an accepted edit replaces is
\* what its editor was shown (LiveTranscript.h:75-78).  The base revision is a
\* number, so every change of settled text has to move it.
EditsReplaceWhatWasSeen ==
    [][\A e \in Editors : ed[e].at # Name =>
          /\ ed[e].pc = "live" /\ ed'[e].pc = "applied" => live.text[ed[e].at] = ed[e].saw
          /\ ed[e].pc = "archive" /\ ed'[e].pc = "saving" =>
               Promoted(store.text)[ed[e].at]
                 \in {"gap", IF ed[e].saw = "guess" THEN "machine" ELSE ed[e].saw}]_vars

\* Every word the tier answered with is saved as long as the process stays up,
\* also when the queue goes quiet and nothing follows it.
EveryWordIsSaved ==
    \A p \in Words : live.text[p] # "gap" ~> (store.text[p] # "gap" \/ phase # "running")

=============================================================================
