----------------------- MODULE MeetingDirectoryProofs -----------------------
(***************************************************************************)
(* What holds of MeetingDirectory for every set of meetings and every      *)
(* number of restarts, each under the races it survives: a started meeting *)
(* is kept under all of them, a deletion leaves nothing behind unless it   *)
(* is raced itself, and a shutdown joins every forwarder unless a start    *)
(* runs into it.                                                           *)
(***************************************************************************)
EXTENDS MeetingDirectory, TLAPS

Idle(m) == starting[m] = "idle" /\ deleting[m] = "idle" /\ editing[m] = "idle"

-----------------------------------------------------------------------------
(* The inductive invariants, in named parts.                               *)

\* A process that is down holds nothing; none is asked to stop while it is up.
DownHoldsNothing ==
    /\ phase = "down" =>
         /\ table = {} /\ dropped = {}
         /\ \A m \in Meetings : buffer[m] = "none" /\ Idle(m)
    /\ phase \in {"up", "down"} => asked = {}

\* Until it is answered a start is nobody else's: the meeting is in no list, and
\* its journal is open once it has been made.
StartIsAlone ==
    \A m \in Meetings : starting[m] # "idle" =>
        /\ m \notin table \cup asked \cup dropped \cup known \cup over
        /\ deleting[m] \notin {"forget", "unlink"}
        /\ starting[m] = "waiting" => journal[m] = "open"

\* What is listed and has ended, or is on its way out of the list, is over.
OnlyTheOverLeave ==
    /\ table \cap asked = {}
    /\ \A m \in table : IsFinished(m) => m \in over
    /\ dropped \subseteq over
    /\ \A m \in Meetings : deleting[m] \in {"forget", "unlink"} => m \in over

KeepInv == TypeOK /\ DownHoldsNothing /\ StartIsAlone /\ OnlyTheOverLeave /\ StartedIsKept

\* A live forwarder has its row and an open journal that nobody is to unlink, what
\* is listed has its row, and what is only checked has neither.
AliveIsListed ==
    /\ \A m \in Alive : m \in row \ dropped /\ journal[m] = "open"
    /\ table \subseteq row
    /\ \A m \in Meetings : starting[m] = "checked" => IsNew(m)

\* A start, a deletion and an edit of one meeting exclude each other, and none of
\* them touches a meeting that is gone.
OneHandler ==
    \A m \in Meetings :
        /\ deleting[m] # "idle" => starting[m] = "idle" /\ editing[m] = "idle"
        /\ editing[m] # "idle" => m \in row
        /\ starting[m] # "idle" => m \notin gone

\* What each step of a deletion may rely on.
DeletionHolds ==
    \A m \in Meetings :
        /\ deleting[m] = "forget" => m \in table /\ IsFinished(m)
        /\ deleting[m] \in {"unlink", "files", "rows"} => m \notin table /\ m \notin Alive
        /\ deleting[m] \in {"files", "rows"} => journal[m] # "open"
        /\ deleting[m] = "rows" => m \notin audio

DeleteInv ==
    /\ KeepInv
    /\ AliveIsListed /\ OneHandler /\ DeletionHolds
    /\ KeptIsListed /\ DeletedStaysDeleted

\* Whose a live forwarder is: the table's or a handler's until the shutdown takes
\* the list, the list's until it is joined, and then there is none.
AliveIsOwned ==
    /\ phase # "up" => \A m \in Meetings : starting[m] = "idle"
    /\ phase = "up" => \A m \in Alive : m \in table \/ starting[m] = "waiting"
    /\ phase = "stopping" => Alive \subseteq asked
    /\ phase \in {"closing", "freed"} => Alive = {}

JoinInv == TypeOK /\ DownHoldsNothing /\ AliveIsOwned

-----------------------------------------------------------------------------
(* Types.                                                                  *)

LEMMA InitTypeOK == Init => TypeOK
BY DirectoryAssumption DEF Init, TypeOK

\* What the steps of one meeting do to the types.
LEMMA MeetingTypeOK ==
    ASSUME TypeOK, NEW m \in Meetings,
           Starting(m) \/ Forwarder(m) \/ Deleting(m) \/ Editing(m) \/ Reaper(m)
    PROVE  TypeOK'
<1> USE DEF TypeOK, disk, handlers
<1>1. CASE Starting(m)
  BY <1>1 DEF Starting, StartCheck, StartCreate, StartAnswer, StartFail
<1>2. CASE Forwarder(m)
  BY <1>2 DEF Forwarder, Opens, CannotOpen, Archive, Finish, Interrupted
<1>3. CASE DeleteCheck(m)
  BY <1>3 DEF DeleteCheck, Accepting
<1>4. CASE DeleteForget(m)
  BY <1>4 DEF DeleteForget, Serving
<1>5. CASE DeleteUnlink(m)
  BY <1>5 DEF DeleteUnlink, Unlink
<1>6. CASE DeleteFiles(m)
  BY <1>6 DEF DeleteFiles, DeletionOrder
<1>7. CASE Editing(m)
  BY <1>7 DEF Editing, EditFind, EditSave
<1>8. CASE Reaper(m)
  BY <1>8 DEF Reaper, Claim, Reap, ReapUnlink, Unlink
<1> QED
  BY <1>1, <1>2, <1>3, <1>4, <1>5, <1>6, <1>7, <1>8 DEF Deleting

\* What the steps of the process do to the types.
LEMMA ProcessTypeOK == ASSUME TypeOK, Process PROVE TypeOK'
<1> USE DEF TypeOK, disk, handlers
<1>1. CASE Shutdown \/ Joined \/ FreeBackend
  BY <1>1 DEF Shutdown, Joined, FreeBackend
<1>2. CASE Exit \/ Crash
  BY <1>2 DEF Exit, Crash, Vanish
<1>3. CASE Restart
  BY <1>3, DirectoryAssumption DEF Restart, Recovers
<1>4. CASE AtRest
  BY <1>4 DEF AtRest, vars
<1> QED
  BY <1>1, <1>2, <1>3, <1>4 DEF Process

LEMMA TypeStep == ASSUME TypeOK, [Next]_vars PROVE TypeOK'
<1>1. CASE UNCHANGED vars
  BY <1>1 DEF vars, disk, handlers, TypeOK
<1> QED
  BY <1>1, MeetingTypeOK, ProcessTypeOK DEF Next

-----------------------------------------------------------------------------
(* The invariants, step by step.                                           *)

\* A started meeting is kept by the steps of any meeting.
LEMMA KeepMeeting ==
    ASSUME KeepInv, TypeOK', NEW m \in Meetings,
           Starting(m) \/ Forwarder(m) \/ Deleting(m) \/ Editing(m) \/ Reaper(m)
    PROVE  KeepInv'
<1> USE DEF KeepInv, TypeOK, DownHoldsNothing, Idle, StartIsAlone, OnlyTheOverLeave, StartedIsKept,
           IsFinished, disk, handlers
<1>1. CASE StartCheck(m)
  BY <1>1 DEF StartCheck, IsNew
<1>2. CASE StartCreate(m)
  BY <1>2 DEF StartCreate, Serving
<1>3. CASE StartAnswer(m)
  BY <1>3 DEF StartAnswer, Serving
<1>4. CASE StartFail(m)
  BY <1>4 DEF StartFail, Serving
<1>5. CASE Opens(m)
  BY <1>5 DEF Opens
<1>6. CASE CannotOpen(m)
  BY <1>6 DEF CannotOpen
<1>7. CASE Archive(m)
  BY <1>7 DEF Archive
<1>8. CASE Finish(m)
  BY <1>8 DEF Finish
<1>9. CASE Interrupted(m)
  BY <1>9 DEF Interrupted, SeesShutdown
<1>10. CASE DeleteCheck(m)
  BY <1>10 DEF DeleteCheck, Accepting, NothingUnlisted, NoEdit
<1>11. CASE DeleteForget(m)
  BY <1>11 DEF DeleteForget, Serving
<1>12. CASE DeleteUnlink(m)
  BY <1>12 DEF DeleteUnlink, Unlink
<1>13. CASE DeleteFiles(m)
  BY <1>13 DEF DeleteFiles, DeletionOrder
<1>14. CASE EditFind(m)
  BY <1>14 DEF EditFind, Accepting
<1>15. CASE EditSave(m)
  BY <1>15 DEF EditSave
<1>16. CASE Claim(m)
  BY <1>16 DEF Claim, Accepting
<1>17. CASE Reap(m)
  BY <1>17 DEF Reap, NotTaken
<1>18. CASE ReapUnlink(m)
  BY <1>18 DEF ReapUnlink, Unlink
<1> QED
  BY <1>1, <1>2, <1>3, <1>4, <1>5, <1>6, <1>7, <1>8, <1>9, <1>10, <1>11, <1>12, <1>13, <1>14, <1>15, <1>16, <1>17, <1>18
     DEF Starting, Forwarder, Deleting, Editing, Reaper

\* And by those of the process.
LEMMA KeepProcess ==
    ASSUME KeepInv, TypeOK', Process
    PROVE  KeepInv'
<1> USE DEF KeepInv, TypeOK, DownHoldsNothing, Idle, StartIsAlone, OnlyTheOverLeave, StartedIsKept,
           IsFinished, disk, handlers
<1>1. CASE Shutdown
  BY <1>1 DEF Shutdown, NoLateStart, NotTaken
<1>2. CASE Joined
  BY <1>2 DEF Joined
<1>3. CASE FreeBackend
  BY <1>3 DEF FreeBackend, NoHandler
<1>4. CASE Exit \/ Crash
  BY <1>4 DEF Exit, Crash, Vanish
<1>5. CASE Restart
  BY <1>5 DEF Restart, Recovers
<1>6. CASE AtRest
  BY <1>6 DEF AtRest, vars
<1> QED
  BY <1>1, <1>2, <1>3, <1>4, <1>5, <1>6 DEF Process


\* A deletion leaves nothing behind, whichever meeting takes a step.
LEMMA DeleteMeeting ==
    ASSUME Races \subseteq {"late"}, KeepInv', DeleteInv, TypeOK', NEW m \in Meetings,
           Starting(m) \/ Forwarder(m) \/ Deleting(m) \/ Editing(m) \/ Reaper(m)
    PROVE  DeleteInv'
<1> USE DEF DeleteInv, KeepInv, TypeOK, DownHoldsNothing, Idle, StartIsAlone, OnlyTheOverLeave,
           AliveIsListed, OneHandler, DeletionHolds, KeptIsListed, DeletedStaysDeleted,
           Alive, IsFinished, disk, handlers, IsNew
<1>1. CASE StartCheck(m)
  BY <1>1 DEF StartCheck, IsNew
<1>2. CASE StartCreate(m)
  BY <1>2 DEF StartCreate, Serving
<1>3. CASE StartAnswer(m)
  BY <1>3 DEF StartAnswer, Serving
<1>4. CASE StartFail(m)
  BY <1>4 DEF StartFail, Serving
<1>5. CASE Opens(m)
  BY <1>5 DEF Opens
<1>6. CASE CannotOpen(m)
  BY <1>6 DEF CannotOpen
<1>7. CASE Archive(m)
  BY <1>7 DEF Archive
<1>8. CASE Finish(m)
  BY <1>8 DEF Finish
<1>9. CASE Interrupted(m)
  BY <1>9 DEF Interrupted, SeesShutdown
<1>10. CASE DeleteCheck(m)
  BY <1>10 DEF DeleteCheck, Accepting, NothingUnlisted, NoEdit
<1>11. CASE DeleteForget(m)
  BY <1>11 DEF DeleteForget, Serving
<1>12. CASE DeleteUnlink(m)
  BY <1>12 DEF DeleteUnlink, Unlink
<1>13. CASE DeleteFiles(m)
  BY <1>13 DEF DeleteFiles, DeletionOrder
<1>14. CASE EditFind(m)
  BY <1>14 DEF EditFind, Accepting
<1>15. CASE EditSave(m)
  BY <1>15 DEF EditSave
<1>16. CASE Claim(m)
  BY <1>16 DEF Claim, Accepting
<1>17. CASE Reap(m)
  BY <1>17 DEF Reap, NotTaken
<1>18. CASE ReapUnlink(m)
  BY <1>18 DEF ReapUnlink, Unlink
<1> QED
  BY <1>1, <1>2, <1>3, <1>4, <1>5, <1>6, <1>7, <1>8, <1>9, <1>10, <1>11, <1>12, <1>13, <1>14, <1>15, <1>16, <1>17, <1>18
     DEF Starting, Forwarder, Deleting, Editing, Reaper

\* Nor whatever the process does.
LEMMA DeleteProcess ==
    ASSUME Races \subseteq {"late"}, KeepInv', DeleteInv, TypeOK', Process
    PROVE  DeleteInv'
<1> USE DEF DeleteInv, KeepInv, TypeOK, DownHoldsNothing, Idle, StartIsAlone, OnlyTheOverLeave,
           AliveIsListed, OneHandler, DeletionHolds, KeptIsListed, DeletedStaysDeleted,
           Alive, IsFinished, disk, handlers, IsNew
<1>1. CASE Shutdown
  BY <1>1 DEF Shutdown, NoLateStart, NotTaken
<1>2. CASE Joined
  BY <1>2 DEF Joined
<1>3. CASE FreeBackend
  BY <1>3 DEF FreeBackend, NoHandler
<1>4. CASE Exit \/ Crash
  BY <1>4 DEF Exit, Crash, Vanish
<1>5. CASE Restart
  BY <1>5 DEF Restart, Recovers
<1>6. CASE AtRest
  BY <1>6 DEF AtRest, vars
<1> QED
  BY <1>1, <1>2, <1>3, <1>4, <1>5, <1>6 DEF Process


\* A live forwarder has an owner, whichever meeting takes a step.
LEMMA JoinMeeting ==
    ASSUME "late" \notin Races, JoinInv, TypeOK', NEW m \in Meetings,
           Starting(m) \/ Forwarder(m) \/ Deleting(m) \/ Editing(m) \/ Reaper(m)
    PROVE  JoinInv'
<1> USE DEF JoinInv, TypeOK, DownHoldsNothing, Idle, AliveIsOwned, Alive, IsFinished, disk, handlers
<1>1. CASE StartCheck(m)
  BY <1>1 DEF StartCheck, IsNew
<1>2. CASE StartCreate(m)
  BY <1>2 DEF StartCreate, Serving
<1>3. CASE StartAnswer(m)
  BY <1>3 DEF StartAnswer, Serving
<1>4. CASE StartFail(m)
  BY <1>4 DEF StartFail, Serving
<1>5. CASE Opens(m)
  BY <1>5 DEF Opens
<1>6. CASE CannotOpen(m)
  BY <1>6 DEF CannotOpen
<1>7. CASE Archive(m)
  BY <1>7 DEF Archive
<1>8. CASE Finish(m)
  BY <1>8 DEF Finish
<1>9. CASE Interrupted(m)
  BY <1>9 DEF Interrupted, SeesShutdown
<1>10. CASE DeleteCheck(m)
  BY <1>10 DEF DeleteCheck, Accepting, NothingUnlisted, NoEdit
<1>11. CASE DeleteForget(m)
  BY <1>11 DEF DeleteForget, Serving
<1>12. CASE DeleteUnlink(m)
  BY <1>12 DEF DeleteUnlink, Unlink
<1>13. CASE DeleteFiles(m)
  BY <1>13 DEF DeleteFiles, DeletionOrder
<1>14. CASE EditFind(m)
  BY <1>14 DEF EditFind, Accepting
<1>15. CASE EditSave(m)
  BY <1>15 DEF EditSave
<1>16. CASE Claim(m)
  BY <1>16 DEF Claim, Accepting
<1>17. CASE Reap(m)
  BY <1>17 DEF Reap, NotTaken
<1>18. CASE ReapUnlink(m)
  BY <1>18 DEF ReapUnlink, Unlink
<1> QED
  BY <1>1, <1>2, <1>3, <1>4, <1>5, <1>6, <1>7, <1>8, <1>9, <1>10, <1>11, <1>12, <1>13, <1>14, <1>15, <1>16, <1>17, <1>18
     DEF Starting, Forwarder, Deleting, Editing, Reaper

\* And whatever the process does.
LEMMA JoinProcess ==
    ASSUME "late" \notin Races, JoinInv, TypeOK', Process
    PROVE  JoinInv'
<1> USE DEF JoinInv, TypeOK, DownHoldsNothing, Idle, AliveIsOwned, Alive, IsFinished, disk, handlers
<1>1. CASE Shutdown
  BY <1>1 DEF Shutdown, NoLateStart, NotTaken
<1>2. CASE Joined
  BY <1>2 DEF Joined
<1>3. CASE FreeBackend
  BY <1>3 DEF FreeBackend, NoHandler
<1>4. CASE Exit \/ Crash
  BY <1>4 DEF Exit, Crash, Vanish
<1>5. CASE Restart
  BY <1>5 DEF Restart, Recovers
<1>6. CASE AtRest
  BY <1>6 DEF AtRest, vars
<1> QED
  BY <1>1, <1>2, <1>3, <1>4, <1>5, <1>6 DEF Process

-----------------------------------------------------------------------------
(* What follows, for every set of meetings and every number of restarts.   *)

LEMMA KeepInvariance == Spec => []KeepInv
<1>1. Init => KeepInv
  BY InitTypeOK DEF Init, KeepInv, DownHoldsNothing, StartIsAlone, OnlyTheOverLeave, StartedIsKept,
     IsFinished
<1>2. KeepInv /\ [Next]_vars => KeepInv'
  <2> SUFFICES ASSUME KeepInv, [Next]_vars PROVE KeepInv'
    OBVIOUS
  <2>1. TypeOK'
    BY TypeStep DEF KeepInv
  <2>2. CASE UNCHANGED vars
    BY <2>1, <2>2 DEF vars, disk, handlers, KeepInv, DownHoldsNothing, Idle, StartIsAlone,
       OnlyTheOverLeave, StartedIsKept, IsFinished
  <2> QED
    BY <2>1, <2>2, KeepMeeting, KeepProcess DEF Next
<1> QED
  BY <1>1, <1>2, PTL DEF Spec

\* Type correctness of every reachable state of the directory.
THEOREM DirectoryTypeCorrect == Spec => []TypeOK
BY KeepInvariance, PTL DEF KeepInv

\* A meeting whose start was answered and that nobody ended is in the table while
\* the server is up and has its journal across every crash, whatever reaps,
\* shutdowns, starts, edits and deletions run beside each other.
THEOREM StartedMeetingsAreKept == Spec => []StartedIsKept
BY KeepInvariance, PTL DEF KeepInv

LEMMA DeleteInvariance == ASSUME Races \subseteq {"late"} PROVE Spec => []DeleteInv
<1>1. Init => DeleteInv
  BY InitTypeOK DEF Init, DeleteInv, KeepInv, DownHoldsNothing, StartIsAlone, OnlyTheOverLeave,
     StartedIsKept, IsFinished, AliveIsListed, OneHandler, DeletionHolds, KeptIsListed,
     DeletedStaysDeleted, Alive
<1>2. DeleteInv /\ [Next]_vars => DeleteInv'
  <2> SUFFICES ASSUME DeleteInv, [Next]_vars PROVE DeleteInv'
    OBVIOUS
  <2>1. TypeOK' /\ KeepInv'
    <3>1. CASE UNCHANGED vars
      BY <3>1, TypeStep DEF vars, disk, handlers, DeleteInv, KeepInv, DownHoldsNothing, Idle,
         StartIsAlone, OnlyTheOverLeave, StartedIsKept, IsFinished
    <3> QED
      BY <3>1, TypeStep, KeepMeeting, KeepProcess DEF Next, DeleteInv, KeepInv
  <2>2. CASE UNCHANGED vars
    BY <2>1, <2>2 DEF vars, disk, handlers, DeleteInv, AliveIsListed, OneHandler, DeletionHolds,
       KeptIsListed, DeletedStaysDeleted, Alive, IsFinished, IsNew
  <2> QED
    BY <2>1, <2>2, DeleteMeeting, DeleteProcess DEF Next
<1> QED
  BY <1>1, <1>2, PTL DEF Spec

\* Nothing on disk is left that cannot be listed, at any step of a deletion and
\* across every crash, unless the deletion is raced.
THEOREM KeptMeetingsAreListed == ASSUME Races \subseteq {"late"} PROVE Spec => []KeptIsListed
BY DeleteInvariance, PTL DEF DeleteInv

\* A deleted meeting never comes back, neither from its journal nor through a late
\* save, unless the deletion is raced.
THEOREM DeletionIsFinal == ASSUME Races \subseteq {"late"} PROVE Spec => []DeletedStaysDeleted
BY DeleteInvariance, PTL DEF DeleteInv

\* ~BufferHub frees the backend over no live forwarder, unless a start had passed
\* its check when the shutdown began.
THEOREM BackendIsFreedLast ==
    ASSUME "late" \notin Races PROVE Spec => []NoForwarderOutlivesBackend
<1>1. Init => JoinInv
  BY InitTypeOK DEF Init, JoinInv, DownHoldsNothing, AliveIsOwned, Alive
<1>2. JoinInv /\ [Next]_vars => JoinInv'
  <2> SUFFICES ASSUME JoinInv, [Next]_vars PROVE JoinInv'
    OBVIOUS
  <2>1. TypeOK'
    BY TypeStep DEF JoinInv
  <2>2. CASE UNCHANGED vars
    BY <2>1, <2>2 DEF vars, disk, handlers, JoinInv, DownHoldsNothing, Idle, AliveIsOwned, Alive
  <2> QED
    BY <2>1, <2>2, JoinMeeting, JoinProcess DEF Next
<1>3. JoinInv => NoForwarderOutlivesBackend
  BY DEF JoinInv, AliveIsOwned, NoForwarderOutlivesBackend
<1> QED
  BY <1>1, <1>2, <1>3, PTL DEF Spec
=============================================================================
