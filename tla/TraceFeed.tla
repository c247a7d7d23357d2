----------------------------- MODULE TraceFeed ------------------------------
(***************************************************************************)
(* The trace of the pipeline: events numbered for a meeting and stored in  *)
(* batches (SessionBuffer::drainTrace, SessionStore::appendTrace), asked   *)
(* for page by page (SessionStore::traceHistory, get_pipeline_trace), and  *)
(* the window that follows them or walks through them (TraceWindow).       *)
(***************************************************************************)
EXTENDS Integers, Sequences, FiniteSets

CONSTANTS
    Stages,       \* the stages of a trace
    MaxEvents,    \* bound: events of a trace
    Batch,        \* kTraceFlushEvents
    KeepPerStage, \* kTraceKeepPerStage
    TracePage,    \* the limit the window asks with
    MaxCards,     \* kMaxLiveCards
    TraceRaces    \* what may happen besides, see below

ASSUME TraceAssumption ==
    /\ MaxEvents \in Nat /\ Batch \in Nat
    /\ KeepPerStage \in Nat \ {0} /\ TracePage \in Nat \ {0} /\ MaxCards \in Nat \ {0}
    /\ TraceRaces \subseteq {"restart", "stage"}

\* "restart": the server restarts after the first event was stored
\* "stage": the window asks for one stage

VARIABLES
    stored,       \* the rows of pipeline_trace
    trace,        \* m_traceSeq, m_pendingTrace of the meeting; the id of the next row
    feed          \* TraceWindow

traceVars == <<stored, trace, feed>>

None == [none |-> TRUE]
Modes == {"live", "pages"}
AnyStage == "any"

OfStage(events, stage) == {e \in events : stage \in {AnyStage, e.stage}}

\* appendTrace: each stage that was written keeps its newest.
AppendTrace(before, events) ==
    LET all == before \cup events
        Later(e) == {o \in all : o.stage = e.stage /\ o.id > e.id}
    IN  {e \in all : (\E w \in events : w.stage = e.stage) => Cardinality(Later(e)) < KeepPerStage}

\* drainTrace: what the tier reported is numbered for the meeting and
\* written in batches, or at once when the tier was drained.
DrainTrace(stage, flush) ==
    LET event == [id |-> trace.id, seq |-> trace.seq + 1, stage |-> stage]
        pending == trace.pending \cup {event}
        due == flush \/ Cardinality(pending) >= Batch
    IN  /\ ~trace.ended /\ trace.id < MaxEvents
        /\ stored' = IF due THEN AppendTrace(stored, pending) ELSE stored
        /\ trace' = [seq |-> trace.seq + 1, id |-> trace.id + 1,
                     pending |-> IF due THEN {} ELSE pending, ended |-> flush]
        /\ UNCHANGED feed

\* The number is not stored: the session that recovery makes counts from 0.
RestartTrace ==
    /\ ~trace.ended
    /\ "restart" \in TraceRaces \/ stored = {}
    /\ trace' = [seq |-> 0, id |-> trace.id, pending |-> {}, ended |-> FALSE]
    /\ UNCHANGED <<stored, feed>>

\* ORDER BY and LIMIT, and the rows they give
Before(a, b) == a.seq < b.seq \/ (a.seq = b.seq /\ a.id < b.id)
FirstOf(found, n) == {e \in found : Cardinality({o \in found : Before(o, e)}) < n}
InOrder(events) ==
    {list \in [1..Cardinality(events) -> events] :
        /\ \A i, j \in DOMAIN list : i < j => Before(list[i], list[j])
        /\ \A e \in events : \E i \in DOMAIN list : list[i] = e}

\* GetPipelineTrace: an empty answer leaves the cursor where it was.
NextSeq(events, after) == IF events = <<>> THEN after ELSE events[Len(events)].seq

\* poll, loadHistoryPage: one question of each mode at a time.  traceHistory
\* reads a row more than the page, and sorts the stage out of what it read; the
\* rest is what the answer leaves behind.
Cursor(mode) == feed.after[mode]
Ask(mode) ==
    LET found == {e \in stored : e.seq > Cursor(mode)}
        read == FirstOf(found, TracePage + 1)
        mine == OfStage(read, feed.stage)
    IN  /\ feed.mode = mode /\ feed.asking[mode] = None
        /\ \E events \in InOrder(FirstOf(mine, TracePage)) :
             LET next == NextSeq(events, Cursor(mode)) IN
             feed' = [feed EXCEPT !.asking = [feed.asking EXCEPT ![mode] =
                        [events |-> events, hasMore |-> Cardinality(found) > TracePage /\ mine = read,
                         stale |-> FALSE, next |-> next,
                         rest |-> {e \in OfStage(stored, feed.stage) : e.seq > next}]]]
        /\ UNCHANGED <<stored, trace>>

\* An answer of an earlier generation is dropped.
IsCurrent(answer) == ~answer.stale

Newest(events, n) == IF Len(events) <= n THEN events ELSE SubSeq(events, Len(events) - n + 1, Len(events))
CardsShown(mode, cards) == IF mode = "live" THEN Newest(cards, MaxCards) ELSE cards
Answered(mode) ==
    LET answer == feed.asking[mode] IN
    /\ answer # None
    /\ feed' =
         IF IsCurrent(answer)
         THEN [feed EXCEPT !.asking = [feed.asking EXCEPT ![mode] = None],
                           !.cards = CardsShown(mode, feed.cards \o answer.events),
                           !.after = [feed.after EXCEPT ![mode] = IF answer.next = 0 THEN @ ELSE answer.next],
                           !.missed = IF answer.hasMore THEN feed.missed ELSE answer.rest]
         ELSE [feed EXCEPT !.asking = [feed.asking EXCEPT ![mode] = None]]
    /\ UNCHANGED <<stored, trace>>

Unanswered(mode) ==
    /\ feed.asking[mode] # None
    /\ feed' = [feed EXCEPT !.asking = [feed.asking EXCEPT ![mode] = None]]
    /\ UNCHANGED <<stored, trace>>

\* What every change of the view does: the answers under way are of another
\* generation, and the cards go.
Stale(answer) == IF answer = None THEN None ELSE [answer EXCEPT !.stale = TRUE]
Begun(view, after, from) ==
    [view EXCEPT !.asking = [m \in Modes |-> Stale(view.asking[m])], !.cards = <<>>,
                 !.missed = {}, !.after = after, !.from = from]

\* reload: another session, another stage, the button.
Reload(stage) ==
    /\ stage = AnyStage \/ "stage" \in TraceRaces
    /\ feed' = Begun([feed EXCEPT !.stage = stage], [feed.after EXCEPT ![feed.mode] = 0], 0)
    /\ UNCHANGED <<stored, trace>>

\* syncMode: following begins at the beginning, the pages where following was.
SyncMode ==
    /\ feed' = IF feed.mode = "live"
               THEN Begun([feed EXCEPT !.mode = "pages"],
                          [feed.after EXCEPT !["pages"] = feed.after["live"]], feed.after["live"])
               ELSE Begun([feed EXCEPT !.mode = "live"], [feed.after EXCEPT !["live"] = 0], 0)
    /\ UNCHANGED <<stored, trace>>

\* The button that clears the cards.
Clear ==
    /\ feed' = Begun(feed, [feed.after EXCEPT !["live"] = 0],
                     IF feed.mode = "live" THEN 0 ELSE feed.after["pages"])
    /\ UNCHANGED <<stored, trace>>

TraceNext ==
    \/ \E stage \in Stages, flush \in BOOLEAN : DrainTrace(stage, flush)
    \/ RestartTrace
    \/ \E mode \in Modes : Ask(mode) \/ Answered(mode) \/ Unanswered(mode)
    \/ \E stage \in Stages \cup {AnyStage} : Reload(stage)
    \/ SyncMode \/ Clear

TraceInit ==
    /\ stored = {}
    /\ trace = [seq |-> 0, id |-> 0, pending |-> {}, ended |-> FALSE]
    /\ feed = [mode |-> "live", stage |-> AnyStage, cards |-> <<>>, from |-> 0, missed |-> {},
               after |-> [m \in Modes |-> 0], asking |-> [m \in Modes |-> None]]

TraceSpec == TraceInit /\ [][TraceNext]_traceVars

----------------------------------------------------------------------------
\* The cards are the events from where they begin to the cursor, once and in
\* their order, as many as the window keeps; and when the window is told that
\* there is no more, there is no more (TraceWindow::poll, traceHistory).
FeedIsComplete ==
    LET after == feed.after[feed.mode]
        PushedOut(e) == feed.mode = "live" /\ Len(feed.cards) = MaxCards /\ e.seq < feed.cards[1].seq
    IN  /\ \A i, j \in DOMAIN feed.cards : i < j => feed.cards[i].seq < feed.cards[j].seq
        /\ \A e \in OfStage(stored, feed.stage) :
             feed.from < e.seq /\ e.seq <= after =>
               (\E i \in DOMAIN feed.cards : feed.cards[i] = e) \/ PushedOut(e)
        /\ feed.missed = {}
=============================================================================
