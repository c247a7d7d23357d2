--------------------------- MODULE SessionListing ---------------------------
(***************************************************************************)
(* The list of meetings, read page by page while meetings begin and are    *)
(* deleted (SessionStore::listSessions, BufferService::list_sessions).     *)
(* Nothing but the caller's cursor ties one page to the next.              *)
(***************************************************************************)
EXTENDS Integers, FiniteSets

CONSTANTS
    Ids,          \* session ids, in their order
    MaxAt,        \* bound: readings of the clock
    DefaultPage,  \* the rows of a page nobody set a limit for
    MostPage      \* the most rows of a page

ASSUME ListingAssumption ==
    /\ Ids \subseteq Nat /\ MaxAt \in Nat
    /\ DefaultPage \in Nat \ {0} /\ MostPage \in Nat \ {0}

VARIABLES
    rows,         \* the sessions of the store
    walk          \* the caller's cursor and what it was shown

listVars == <<rows, walk>>

\* The answer to a limit: a default, and a ceiling.
ListWanted(limit) == IF limit = 0 THEN DefaultPage ELSE IF limit < MostPage THEN limit ELSE MostPage

\* ORDER BY and LIMIT
Newer(a, b) == a.at > b.at \/ (a.at = b.at /\ a.id > b.id)
FirstRows(found, n) == {m \in found : Cardinality({o \in found : Newer(o, m)}) < n}

\* A clock of milliseconds, written with six decimals and read again.
Micro == 1000
CursorOf(m) == [at |-> m.at * Micro, id |-> m.id]
Start == [at |-> 0, id |-> -1]
IsStart(cursor) == cursor = Start

IsAfterByTime(m, cursor) == m.at < cursor.at \div Micro
\* The last row handed out; the time alone would lose its twin.
IsAfter(m, cursor) ==
    LET at == cursor.at \div Micro
    IN  m.at < at \/ (m.at = at /\ m.id < cursor.id)
Found(cursor) == {m \in rows : IsStart(cursor) \/ IsAfter(m, cursor)}

\* A meeting that begins, at a clock that may have been set back, and one that
\* is deleted.
Hold(at, id) ==
    /\ \A m \in rows : m.id # id
    /\ rows' = rows \cup {[at |-> at, id |-> id]}
    /\ UNCHANGED walk
Erase(m) ==
    /\ rows' = rows \ {m}
    /\ walk' = [cursor |-> walk.cursor, over |-> walk.over, seen |-> walk.seen, again |-> walk.again,
                whole |-> walk.whole \ {m}]

\* listSessions: one row more than the page shows that there is a next one,
\* which begins after the last of this one.  The handler: a live meeting
\* replaces its own row, wherever that is.
Shows(page, next) ==
    walk' = [cursor |-> next, over |-> IsStart(next), seen |-> walk.seen \cup page,
             again |-> walk.again \/ walk.seen \cap page # {},
             whole |-> IF IsStart(walk.cursor) THEN rows ELSE walk.whole]
ListSessions(wanted, found) ==
    LET page == FirstRows(found, wanted)
    IN  IF Cardinality(found) > wanted
        THEN \E last \in page : (\A m \in page \ {last} : Newer(m, last)) /\ Shows(page, CursorOf(last))
        ELSE Shows(page, Start)
ListPage(limit) ==
    /\ ~walk.over
    /\ ListSessions(ListWanted(limit), Found(walk.cursor))
    /\ UNCHANGED rows

ListNext ==
    \/ \E at \in 1..MaxAt, id \in Ids : Hold(at, id)
    \/ \E m \in rows : Erase(m)
    \/ \E limit \in 0..(MostPage + 1) : ListPage(limit)

ListInit ==
    /\ rows = {}
    /\ walk = [cursor |-> Start, over |-> FALSE, seen |-> {}, again |-> FALSE, whole |-> {}]

ListSpec == ListInit /\ [][ListNext]_listVars

----------------------------------------------------------------------------
\* A walk through the list shows every meeting that was there all along, and
\* none twice, whatever begins or is deleted meanwhile and however many began
\* in the same millisecond (SessionStore::listSessions).
WalkIsComplete ==
    /\ walk.over => walk.whole \subseteq walk.seen
    /\ ~walk.again
=============================================================================
