--------------------------- MODULE ReviewWindows ----------------------------
(***************************************************************************)
(* The review panel (ReviewPanel.cpp): it loads a transcript in windows of *)
(* the timeline (LiveTranscript::snapshot), keeps the end of a running one *)
(* up to date and sends corrections of what it shows, while the meeting    *)
(* goes on and another operator corrects it too.                           *)
(*                                                                         *)
(* A word is one second; a row has its words and how often its text was    *)
(* corrected.                                                              *)
(***************************************************************************)
EXTENDS Integers, Sequences, FiniteSets, SequencesExt

CONSTANTS
    Length,       \* bound: seconds of a meeting
    MaxEdits,     \* bound: corrections of a meeting
    Window,       \* kWindowSec
    MaxWindows,   \* kMaxWindows
    ReviewRaces   \* what may happen besides, see below

ASSUME ReviewAssumption ==
    /\ Length \in Nat \ {0} /\ MaxEdits \in Nat
    /\ Window \in Nat \ {0} /\ MaxWindows \in Nat \ {0}
    /\ ReviewRaces \subseteq {"straddle", "reload", "editor", "failure"}

\* "straddle": a row runs over the edge of a window
\* "reload": the operator loads again, or corrects, while a load is under way
\* "editor": another operator changes what this panel reads in parts
\* "failure": the timer or the operator goes on with what a failed load left

VARIABLES
    meeting,      \* the transcripts: committed rows, m_revision, m_done
    panel         \* ReviewPanel

reviewVars == <<meeting, panel>>

NoRequest == [none |-> TRUE]
Sessions == {1, 2}
NoSession == 0

Row(t) == [words |-> {t}, text |-> 0]

\* A row of which the window from c has some words and not the first.
Cuts(c, row) == \E t, u \in row.words : t + 1 < c /\ u + 1 >= c
Uncut(s, c) ==
    \/ "straddle" \in ReviewRaces
    \/ \A i \in DOMAIN meeting[s].rows : ~Cuts(c, meeting[s].rows[i])

\* appendWords: the row goes on, or another speaker begins the next.
Longer(old, t) ==
    {Append(old, Row(t))}
    \cup {[old EXCEPT ![Len(old)] = [words |-> @.words \cup {t}, text |-> @.text]]
            : x \in {1} \cap DOMAIN old}
Committed(s, over) ==
    /\ meeting[s].seen < Length
    /\ \E newRows \in Longer(meeting[s].rows, meeting[s].seen) :
         meeting' = [meeting EXCEPT ![s] = [rows |-> newRows, seen |-> @.seen + 1,
                                            final |-> over, rev |-> @.rev + 1]]
CommitWord(s) == ~meeting[s].final /\ Committed(s, FALSE) /\ UNCHANGED panel

\* markDone: what the correction never reached is promoted first.
FinishMeeting(s) ==
    /\ ~meeting[s].final
    /\ \/ meeting' = [meeting EXCEPT ![s] = [rows |-> @.rows, seen |-> @.seen,
                                             final |-> TRUE, rev |-> @.rev]]
       \/ Committed(s, TRUE)
    /\ UNCHANGED panel

\* Another text, or other rows, for the same words.
Revised(s, newRows) ==
    [meeting EXCEPT ![s] = [rows |-> newRows, seen |-> @.seen, final |-> @.final, rev |-> @.rev + 1]]
Reworded(s, i) ==
    Revised(s, [meeting[s].rows EXCEPT ![i] = [words |-> @.words, text |-> @.text + 1]])
MayEdit(s) == FoldSeq(LAMBDA row, n : n + row.text, 0, meeting[s].rows) < MaxEdits

\* The others change what this panel does not read again, or reads as a whole.
Unread(s) == "editor" \in ReviewRaces \/ panel.session # s \/ (panel.final /\ ~panel.loading)
OtherEdits(s, i) ==
    /\ Unread(s) /\ MayEdit(s)
    /\ meeting' = Reworded(s, i)
    /\ UNCHANGED panel

\* Two speakers become one, and every row after theirs has another number:
\* splicing counts the rows anew.
Spliced(old, i) ==
    [j \in 1..(Len(old) - 1) |->
        IF j < i THEN old[j] ELSE IF j > i THEN old[j + 1]
        ELSE [words |-> old[i].words \cup old[i + 1].words, text |-> old[i].text + old[i + 1].text]]
OtherMerges(s, i) ==
    /\ Unread(s) /\ i < Len(meeting[s].rows)
    /\ meeting' = Revised(s, Spliced(meeting[s].rows, i))
    /\ UNCHANGED panel

\* snapshot: of a row that overlaps the window the words that do.
Within(t, c) == t + 1 >= c /\ t <= c + Window
Clipped(row, c) == [words |-> {t \in row.words : Within(t, c)}, text |-> row.text]
Snapshot(s, c) ==
    LET all == meeting[s].rows
        some == {i \in DOMAIN all : \E t \in all[i].words : Within(t, c)}
    IN  [final |-> meeting[s].final, seen |-> meeting[s].seen, rev |-> meeting[s].rev,
         rows |-> [i \in some |-> Clipped(all[i], c)]]

\* requestWindow
Request(s, c, covered, index) ==
    [session |-> s, cursor |-> c, covered |-> covered, index |-> index, answer |-> Snapshot(s, c)]

\* loadWindows: nothing while a load is under way.
Load(view, s, c) ==
    IF view.loading THEN view
    ELSE [view EXCEPT !.loading = TRUE, !.request = Request(s, c, 0, 0),
                      !.known = meeting[s].seen]

\* loadFromInputs
Cleared(view, s) == [view EXCEPT !.session = s, !.rows = <<>>, !.info = "loading"]
AtEase == "reload" \in ReviewRaces \/ ~panel.loading
Open(s) ==
    /\ AtEase
    /\ panel' = Load(Cleared(panel, s), s, 0)
    /\ UNCHANGED meeting

\* The rows of an answer replace those of the same id.
InsertRows(old, new) ==
    [i \in DOMAIN old \cup DOMAIN new |-> IF i \in DOMAIN new THEN new[i] ELSE old[i]]
qMax(a, b) == IF a < b THEN b ELSE a
OneWindow(next, covered, index) == FALSE
MoreWindows(next, covered, index) == next < covered /\ index + 1 < MaxWindows

\* The answer to a window asked for the session that is still open: the next
\* window, or the end of the load; the timer runs until the meeting is final.
WindowShown ==
    LET asked == panel.request
        covered == qMax(asked.covered, asked.answer.seen)
        next == asked.cursor + Window
        filled == [panel EXCEPT !.rows = InsertRows(@, asked.answer.rows), !.rev = asked.answer.rev,
                                !.final = asked.answer.final, !.boundary = asked.answer.seen]
    IN  IF MoreWindows(next, covered, asked.index)
        THEN /\ Uncut(asked.session, next)
             /\ panel' = [filled EXCEPT !.info = "loading",
                            !.request = Request(asked.session, next, covered, asked.index + 1)]
        ELSE panel' = [filled EXCEPT !.loading = FALSE, !.request = NoRequest, !.info = "shown",
                                     !.timer = ~asked.answer.final]
WindowArrives ==
    /\ panel.loading
    /\ IF panel.request.session # panel.session
       THEN panel' = [panel EXCEPT !.loading = FALSE, !.request = NoRequest]
       ELSE WindowShown
    /\ UNCHANGED meeting

WindowFails ==
    /\ panel.loading
    /\ panel' = [panel EXCEPT !.loading = FALSE, !.request = NoRequest,
                              !.info = IF panel.request.session # panel.session THEN @ ELSE "error"]
    /\ UNCHANGED meeting

\* Neither the timer nor the table cares how the last load ended.
GoesOn == panel.info = "shown" \/ ("failure" \in ReviewRaces /\ panel.session # NoSession)

\* refreshTail, from one window before the commit boundary.
RefreshTail ==
    LET c == qMax(0, panel.boundary - Window) IN
    /\ panel.timer /\ GoesOn /\ ~panel.final /\ ~panel.loading
    /\ Uncut(panel.session, c)
    /\ panel' = Load(panel, panel.session, c)
    /\ UNCHANGED meeting

\* onCellChanged: the server takes a correction of its own revision and
\* answers with the whole transcript; after a refusal the panel loads again.
SaveEdit(i) ==
    LET s == panel.session
        edited == Reworded(s, i)
    IN  /\ GoesOn /\ i \in DOMAIN panel.rows /\ MayEdit(s) /\ AtEase
        /\ IF panel.rev = meeting[s].rev
           THEN /\ meeting' = edited
                /\ panel' = [panel EXCEPT !.rows = InsertRows(@, edited[s].rows),
                                          !.rev = edited[s].rev]
           ELSE /\ panel' = Load(Cleared(panel, s), s, 0)
                /\ UNCHANGED meeting

ReviewNext ==
    \/ \E s \in Sessions : CommitWord(s) \/ FinishMeeting(s) \/ Open(s)
    \/ \E s \in Sessions : \E i \in DOMAIN meeting[s].rows : OtherEdits(s, i) \/ OtherMerges(s, i)
    \/ WindowArrives \/ WindowFails \/ RefreshTail
    \/ \E i \in DOMAIN panel.rows : SaveEdit(i)

\* One meeting begins, another is over.
ReviewInit ==
    /\ meeting = [s \in Sessions |->
                    IF s = 1 THEN [rows |-> <<>>, seen |-> 0, final |-> FALSE, rev |-> 0]
                    ELSE [rows |-> <<Row(0)>>, seen |-> 1, final |-> TRUE, rev |-> 1]]
    /\ panel = [session |-> NoSession, loading |-> FALSE, request |-> NoRequest, rows |-> <<>>,
                known |-> 0, info |-> "none", final |-> FALSE, timer |-> FALSE,
                boundary |-> 0, rev |-> 0]

ReviewSpec == ReviewInit /\ [][ReviewNext]_reviewVars

----------------------------------------------------------------------------
\* When the review panel shows a transcript it shows every word that was
\* committed when the load began, once, and a load that is announced is under
\* way; and when its revision is that of the transcript, which is all the server
\* compares before it takes a correction, so is the text of every row it shows
\* (ReviewPanel::requestWindow, loadWindows, onCellChanged).
PanelIsWhole ==
    LET now == meeting[panel.session].rows
        Sees(t) == {i \in DOMAIN panel.rows : t \in panel.rows[i].words}
    IN  /\ panel.info = "shown" /\ ~panel.loading =>
             /\ \A t \in 0..(panel.known - 1) : Cardinality(Sees(t)) = 1
             /\ panel.rev = meeting[panel.session].rev =>
                  \A i \in DOMAIN panel.rows :
                      i \in DOMAIN now /\ panel.rows[i].text = now[i].text
        /\ panel.info = "loading" => panel.loading
=============================================================================
