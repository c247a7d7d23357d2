---------------------------- MODULE StoreReaders ----------------------------
(***************************************************************************)
(* What reads the store in parts while it changes: the list of meetings    *)
(* and the trace by a cursor, the transcript by windows of the timeline.   *)
(***************************************************************************)
EXTENDS SessionListing, TraceFeed, ReviewWindows

readers == <<listVars, traceVars, reviewVars>>

ReadersInit == ListInit /\ TraceInit /\ ReviewInit
ReadersSpec == ListSpec /\ TraceSpec /\ ReviewSpec

\* No cursor loses anything: neither the walk through the list of meetings nor
\* the window that follows the trace of one.
CursorsLoseNothing == WalkIsComplete /\ FeedIsComplete
=============================================================================
