--------------------------- MODULE TranscriptView ---------------------------
(***************************************************************************)
(* What the client's timeline shows of a transcript that keeps changing.   *)
(*                                                                         *)
(* TranscriptModel rebuilds the timeline from every answer, and two locks  *)
(* for each slot (a word's place in time) keep it from rewriting itself:   *)
(* the lane lock remembers whose lane the word is drawn in, the display    *)
(* lock the text, and both let through what they think is a decision of    *)
(* the server.  Answers come over two connections, the poller's and the    *)
(* one an edit was sent on, and may be delivered in another order than the *)
(* server gave them in.                                                    *)
(*                                                                         *)
(* A text is its letters, numbered as they are decided, and its mark; a    *)
(* row is one word, so a slot has at most one committed and one            *)
(* provisional word.  Times, colours and the order of lanes are left out.  *)
(***************************************************************************)
EXTENDS Naturals, FiniteSets

CONSTANTS
    Slots,      \* the places of words, in the order of time: 1, 2, ...
    Speakers,   \* the diarization slots
    Names,      \* verified names
    LaneLockMax,     \* kLaneLockMax
    DisplayLockMax,  \* kDisplayLockMax
    MaxRev,     \* bound: revisions of the transcript
    MaxGuess,   \* bound: changes of the provisional lane
    ViewRaces       \* "restart": a restart goes back by one revision;
                \* "toggle": the threshold is switched while an old answer is shown

ASSUME ViewAssumption ==
    /\ Slots \subseteq Nat /\ {LaneLockMax, DisplayLockMax, MaxRev, MaxGuess} \subseteq Nat
    /\ ViewRaces \subseteq {"restart", "toggle"}

NoName == "none"
Marks == {0, 1}          \* without and with punctuation
Bare == [letters |-> 0, mark |-> 0]

VARIABLES
    server,     \* slot -> its word: where it is, text, speaker, name, confidence
    rev,        \* m_revision of LiveTranscript
    decided,    \* how many letters were decided so far
    guessed,    \* how often the provisional lane changed
    saved,     \* what a restart goes back to
    answers,    \* "poll", "edit" -> the answer under way, if any
    model,      \* TranscriptModel: rows, provisional rows, revision, threshold
    laneLock, displayLock,  \* m_laneLocks, m_displayLocks
    lanes,      \* slot -> what m_lanes draws for it
    newest      \* slot -> what the newest answer said since the slot was locked

serverVars == <<server, rev, decided, guessed, saved>>
clientVars == <<model, laneLock, displayLock, lanes, newest>>
viewVars == <<server, rev, decided, guessed, saved, answers, model, laneLock, displayLock, lanes, newest>>

Absent == [at |-> "none", text |-> Bare, speaker |-> 0, name |-> NoName, low |-> FALSE]
Unlocked == [lane |-> <<>>, committed |-> FALSE]
Unshown == [text |-> Bare, committed |-> FALSE, rev |-> 0]
Nothing == [rev |-> 0, rows |-> [p \in Slots |-> Absent], edge |-> [p \in Slots |-> Absent]]
NoAnswer == Nothing
Unheard == [rev |-> 0, letters |-> 0]

ViewInit ==
    /\ server = [p \in Slots |-> Absent]
    /\ rev = 0 /\ decided = 0 /\ guessed = 0
    /\ saved = <<server, rev>>
    /\ answers = [c \in {"poll", "edit"} |-> NoAnswer]
    /\ model = [rev |-> 0, rows |-> Nothing.rows, edge |-> Nothing.edge, showLow |-> FALSE]
    /\ laneLock = [p \in Slots |-> Unlocked]
    /\ displayLock = [p \in Slots |-> Unshown]
    /\ lanes = [p \in Slots |-> {}]
    /\ newest = [p \in Slots |-> Unheard]

IsCommitted(w) == w.at = "committed"

----------------------------------------------------------------------------
(* The server: LiveTranscript, as its snapshots tell it *)

\* The provisional lane: a word appears or is guessed anew, and the revision
\* does not count it.
Guess(p) ==
    /\ server[p].at # "committed" /\ guessed < MaxGuess
    /\ \E s \in Speakers :
         server' = [server EXCEPT ![p] = [at |-> "provisional", text |-> [letters |-> decided + 1, mark |-> 0],
                                          speaker |-> s, name |-> NoName, low |-> FALSE]]
    /\ decided' = decided + 1 /\ guessed' = guessed + 1
    /\ UNCHANGED <<rev, saved, answers, clientVars>>

\* A committed change counts; what was saved before it is remembered where
\* it matters.
At(words, where) == [p \in Slots |-> IF words[p].at = where THEN words[p] ELSE Absent]
NextRevision == /\ rev < MaxRev
           /\ rev' = rev + 1
           /\ saved' = IF "restart" \in ViewRaces THEN <<At(server, "committed"), rev>> ELSE saved

\* A correction commits the word, with the name its speaker has by then.
Commit(p) ==
    /\ server[p].at # "committed" /\ NextRevision
    /\ \E m \in Marks, s \in Speakers, n \in Names \union {NoName}, low \in BOOLEAN :
         server' = [server EXCEPT ![p] = [at |-> "committed", text |-> [letters |-> decided + 1, mark |-> m],
                                          speaker |-> s, name |-> n, low |-> low]]
    /\ decided' = decided + 1
    /\ UNCHANGED <<guessed, answers, clientVars>>

\* A later correction changes the letters or the mark, never the speaker, or
\* takes the word away.
Worded(w, letters, mark) ==
    [at |-> w.at, text |-> [letters |-> letters, mark |-> mark],
     speaker |-> w.speaker, name |-> w.name, low |-> w.low]
Correct(p) ==
    /\ server[p].at = "committed" /\ NextRevision
    /\ \/ /\ server' = [server EXCEPT ![p] = Worded(server[p], decided + 1, server[p].text.mark)]
          /\ decided' = decided + 1
       \/ \E m \in Marks \ {server[p].text.mark} :
            /\ server' = [server EXCEPT ![p] = Worded(server[p], server[p].text.letters, m)]
            /\ UNCHANGED decided
       \/ /\ server' = [server EXCEPT ![p] = Absent]
          /\ UNCHANGED decided
    /\ UNCHANGED <<guessed, answers, clientVars>>

\* renameSpeaker: every word of a speaker gets the name, or loses it, and
\* may be merged into another speaker.
Renamed(w, to, n) == [at |-> w.at, text |-> w.text, speaker |-> to, name |-> n, low |-> w.low]
Rename(from, to, n) ==
    /\ \E p \in Slots : IsCommitted(server[p]) /\ server[p].speaker = from
    /\ NextRevision
    /\ server' = [p \in Slots |-> IF server[p].at # "none" /\ server[p].speaker = from
                                  THEN Renamed(server[p], to, n)
                                  ELSE server[p]]
    /\ UNCHANGED <<decided, guessed, answers, clientVars>>

SnapshotOf(words, r) == [rev |-> r, rows |-> At(words, "committed"), edge |-> At(words, "provisional")]

\* get_live_state is answered; the poller has one call at a time.
PollAnswered ==
    /\ answers["poll"] = NoAnswer
    /\ answers' = [answers EXCEPT !["poll"] = SnapshotOf(server, rev)]
    /\ answers'["poll"] # NoAnswer
    /\ UNCHANGED <<serverVars, clientVars>>

\* apply_text_edit of this client is answered; the dialog is modal.
EditAnswered(p) ==
    /\ answers["edit"] = NoAnswer
    /\ server[p].at = "committed" /\ NextRevision
    /\ server' = [server EXCEPT ![p] = Worded(server[p], decided + 1, server[p].text.mark)]
    /\ decided' = decided + 1
    /\ answers' = [answers EXCEPT !["edit"] = SnapshotOf(server', rev')]
    /\ UNCHANGED <<guessed, clientVars>>

\* The server is restarted: the provisional lane is gone, and the last
\* revision too if it was not saved.
Restart ==
    /\ "restart" \in ViewRaces \/ \E p \in Slots : server[p].at = "provisional"
    /\ LET back == IF "restart" \in ViewRaces THEN saved ELSE <<At(server, "committed"), rev>>
       IN  server' = back[1] /\ rev' = back[2]
    /\ UNCHANGED <<decided, guessed, saved, answers, clientVars>>

----------------------------------------------------------------------------
(* The locks of one slot *)

LaneKey(w) == IF w.name # NoName THEN <<"name", w.name>> ELSE <<"sid", w.speaker>>
Verified(lane) == lane[1] = "name"

\* The first committed word may correct a guessed lane, and a verified name
\* replace a diarization slot; nothing else moves a word.
Relanes(lock, w) ==
    \/ lock = Unlocked
    \/ ~lock.committed /\ IsCommitted(w)
    \/ lock.committed /\ IsCommitted(w) /\ ~Verified(lock.lane) /\ Verified(LaneKey(w))
LaneLocked(lock, w) ==
    IF Relanes(lock, w) THEN [lane |-> LaneKey(w), committed |-> IsCommitted(w)] ELSE lock

\* shouldUpgradeLockedText: another mark on the same letters, but not the
\* loss of one.
Upgrades(old, new) ==
    old # new /\ old.letters = new.letters /\ ~(new.mark = 0 /\ old.mark > 0)

AcceptsAny(lock, w, r) == lock.text # w.text
Accepts(lock, w, r) == Upgrades(lock.text, w.text) \/ (r > lock.rev /\ lock.text # w.text)

\* A committed lock takes a committed word it accepts, and in any case the
\* newer revision; a guess is held until the word is committed.
DisplayLocked(lock, w, r) ==
    LET takes == IsCommitted(w) /\ Accepts(lock, w, r) IN
    IF lock.committed
    THEN [text |-> IF takes THEN w.text ELSE lock.text, committed |-> TRUE,
          rev |-> IF takes \/ r > lock.rev THEN r ELSE lock.rev]
    ELSE IF lock = Unshown \/ IsCommitted(w)
    THEN [text |-> w.text, committed |-> IsCommitted(w), rev |-> r]
    ELSE lock

\* rowWordItems: what there is of a word, and not below the threshold.
Visible(w, m) == w.at # "none" /\ (m.showLow \/ ~w.low)
Relaned(lock, w, m) == IF Visible(w, m) THEN LaneLocked(lock, w) ELSE lock
Redisplayed(lock, w, m) == IF Visible(w, m) THEN DisplayLocked(lock, w, m.rev) ELSE lock

\* A word is drawn in the lane, and with the text, that its locks have then.
DrawnWord(lane, display, w) ==
    [lane |-> lane.lane, text |-> display.text, committed |-> display.committed,
     settled |-> IsCommitted(w)]

\* A slot is gone through in the order of the rows: the committed word, then the
\* provisional one, which is drawn if it is in another lane.
LaneOf(lock, m, p) == Relaned(Relaned(lock, m.rows[p], m), m.edge[p], m)
DisplayOf(lock, m, p) == Redisplayed(Redisplayed(lock, m.rows[p], m), m.edge[p], m)
DrawnRow(lane, display, m, p) ==
    IF Visible(m.rows[p], m)
    THEN {DrawnWord(Relaned(lane, m.rows[p], m), Redisplayed(display, m.rows[p], m), m.rows[p])}
    ELSE {}
DrawnEdge(lane, display, m, p) ==
    IF Visible(m.edge[p], m)
    THEN {DrawnWord(LaneOf(lane, m, p), DisplayOf(display, m, p), m.edge[p])}
    ELSE {}
Drawn(lane, display, m, p) ==
    LET first == DrawnRow(lane, display, m, p)
    IN  first \cup {d \in DrawnEdge(lane, display, m, p) : \A e \in first : e.lane # d.lane}

\* Above the limit the locks of words that are not on screen are dropped.
BoundedWholesale(locks, none, live, max) ==
    IF Cardinality({p \in Slots : locks[p] # none}) > max THEN [p \in Slots |-> none] ELSE locks
Bounded(locks, none, live, max) ==
    IF Cardinality({p \in Slots : locks[p] # none}) > max
    THEN [p \in Slots |-> IF p \in live THEN locks[p] ELSE none]
    ELSE locks

\* rebuild() from the model m, with the display locks d.
Rebuild(m, d) ==
    LET live == {p \in Slots : Visible(m.rows[p], m) \/ Visible(m.edge[p], m)} IN
    /\ model' = m
    /\ laneLock' = Bounded([p \in Slots |-> LaneOf(laneLock[p], m, p)], Unlocked, live, LaneLockMax)
    /\ displayLock' = Bounded([p \in Slots |-> DisplayOf(d[p], m, p)], Unshown, live, DisplayLockMax)
    /\ lanes' = [p \in Slots |-> Drawn(laneLock[p], d[p], m, p)]

----------------------------------------------------------------------------
(* The client *)

\* mergeLiveRows: an answer speaks for everything from its first row on, and
\* one without rows for nothing.
Merged(cache, rows) ==
    LET has == {p \in Slots : rows[p].at # "none"}
    IN  [p \in Slots |-> IF p \in has THEN rows[p]
                         ELSE IF \E q \in has : q <= p THEN Absent
                         ELSE cache[p]]

\* The model once an answer was taken.
Updated(a) ==
    [rev |-> a.rev, rows |-> Merged(model.rows, a.rows), edge |-> a.edge, showLow |-> model.showLow]

\* What the newest answer says of a slot is remembered for as long as the slot
\* is locked or on screen.
NewestAfter(p, a) ==
    IF lanes'[p] = {} /\ displayLock'[p] = Unshown THEN Unheard
    ELSE IF a.rev < newest[p].rev THEN newest[p]
    ELSE [rev |-> a.rev, letters |-> IF lanes'[p] = {} THEN 0 ELSE a.rows[p].text.letters]

\* applyLiveState and applyEditedState.
Deliver(c) ==
    /\ answers[c] # NoAnswer
    /\ answers' = [answers EXCEPT ![c] = NoAnswer]
    /\ LET a == answers[c] IN
         /\ Rebuild(Updated(a), displayLock)
         /\ newest' = [p \in Slots |-> NewestAfter(p, a)]
    /\ UNCHANGED serverVars

\* The connection fails under the call.
Lose(c) ==
    /\ answers[c] # NoAnswer
    /\ answers' = [answers EXCEPT ![c] = NoAnswer]
    /\ UNCHANGED <<serverVars, clientVars>>

\* setShowLowConfidence.
IsNewest == \A p \in Slots : newest[p].rev <= model.rev
Toggle ==
    /\ "toggle" \in ViewRaces \/ IsNewest
    /\ guessed < MaxGuess /\ guessed' = guessed + 1
    /\ Rebuild([model EXCEPT !.showLow = ~@], [p \in Slots |-> Unshown])
    /\ newest' = [p \in Slots |->
         IF lanes'[p] = {} THEN Unheard
         ELSE IF lanes[p] # {} THEN newest[p]
         ELSE [rev |-> model.rev, letters |-> model.rows[p].text.letters]]
    /\ UNCHANGED <<server, rev, decided, saved, answers>>

ViewNext ==
    \/ \E p \in Slots : Guess(p) \/ Commit(p) \/ Correct(p) \/ EditAnswered(p)
    \/ \E from, to \in Speakers, n \in Names \union {NoName} : Rename(from, to, n)
    \/ PollAnswered \/ Restart \/ Toggle
    \/ \E c \in {"poll", "edit"} : Deliver(c) \/ Lose(c)

ViewSpec == ViewInit /\ [][ViewNext]_viewVars

----------------------------------------------------------------------------
(* Properties *)

\* An answer that was overtaken never takes a word back: the letters on
\* screen are those the newest answer had for the word since the word is
\* locked, and a word the server changed, an operator's own correction for
\* one, is not held back by the lock that keeps the timeline still.
NewestIsShown ==
    \A p \in Slots : \A d \in lanes[p] :
        d.committed /\ newest[p].letters > 0 => d.text.letters = newest[p].letters

\* What is on screen stays where it is and as it is, and is drawn once, though
\* the committed and the provisional copy of a word name different speakers: a
\* guess is not rewritten by the next guess, and a committed word changes lanes
\* only from a diarization slot to a verified name; whatever locks were dropped
\* meanwhile.
KeepsStill ==
    \A p \in Slots :
        /\ Cardinality(lanes'[p]) <= 1
        /\ \A d \in lanes[p], e \in lanes'[p] :
             /\ ~d.committed /\ ~e.committed /\ model.showLow = model'.showLow => d = e
             /\ d.settled => e.lane = d.lane \/ (~Verified(d.lane) /\ Verified(e.lane))
HoldsStill == [][KeepsStill]_viewVars
=============================================================================
