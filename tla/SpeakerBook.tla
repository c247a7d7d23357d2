----------------------------- MODULE SpeakerBook -----------------------------
(***************************************************************************)
(* The voices of one meeting: how a name a reviewer gives while people     *)
(* speak reaches the session's registry, and how a voice reaches the       *)
(* database every meeting shares.                                          *)
(*                                                                         *)
(* Reviewers name diarization slots, and may merge one into another while  *)
(* they do.  The registry holds voices, clusters of the tier that own      *)
(* slots, and the tier tells which own which only at the end of its        *)
(* stream: until then names wait in memory (m_reviewerNames), and then     *)
(* publishSpeakerRegistry pins the speech of the named voices as evidence: *)
(* the words the transcript files under their slots.  A recovered meeting  *)
(* opens a new stream, over the words of the old one.                      *)
(*                                                                         *)
(* Publishing posts that evidence to the enrolment service, which is       *)
(* slow and may answer too late or never.  The service keeps one sample    *)
(* for a write tag, and the tag is the voice.                              *)
(*                                                                         *)
(* What one stream heard in one slot is one piece of speech.  Words that a *)
(* crash loses are words that were not said.                               *)
(***************************************************************************)
EXTENDS Naturals, FiniteSets

CONSTANTS
    Voices,     \* registry entries: session_speaker_id
    Slots,      \* diarization slots
    Names,      \* what reviewers call people
    Operators,  \* connection threads that serve save_session_speakers
    MaxRename, MaxCrash, MaxPublish, MaxDelete,     \* bounds
    Races       \* the races that may happen, see below

ASSUME BookAssumption ==
    /\ {MaxRename, MaxCrash, MaxPublish, MaxDelete} \subseteq Nat
    /\ Races \subseteq {"copy", "restart", "publishers", "late", "record", "streams"}

Streams == 1..(MaxCrash + 1)
Pieces == Streams \X Slots     \* what a stream heard in a slot

Blank == "blank"        \* no name
Model == "model"        \* the name the tier gives a voice
Nobody == [slots |-> {}, name |-> Blank, source |-> "model", evidence |-> {},
           status |-> "pending", published |-> Blank]

VARIABLES
    stream,         \* the stream the tier is on
    tier,           \* stream -> slot -> the voice the tier gives it, or none
    heard,          \* slot -> the pieces the transcript files under it
    reviewerNames,  \* m_reviewerNames: slot -> name
    rows,           \* slot -> the name a reviewer gave its rows last
    book,           \* session_speakers: voice -> its row, Nobody if there is none
    fpc, copied,    \* the forwarder at the end of the meeting; its copy of the names
    shared,         \* the enrolment service: voice -> its sample, if any
    deleted,        \* names deleted from it, which it does not take again
    late,           \* posts nobody waits for any more
    op,             \* operator -> its handler
    lastName,       \* history: voice -> the name given last to one of its slots
    named,          \* history: slots a reviewer has named
    moved,          \* history: <<piece, slot>>, pieces a reviewer merged into a slot
    promised,       \* history: voice -> its speech, if it had a name when the
                    \* registry was published
    count           \* of renames, crashes, publishes, deletions

speech == <<stream, tier, heard>>
history == <<lastName, named, moved, promised>>
registryVars == <<speech, reviewerNames, rows, book, fpc, copied, history>>
serviceVars == <<shared, deleted, late, op>>
vars == <<stream, tier, heard, reviewerNames, rows, book, fpc, copied, shared, deleted, late,
          op, lastName, named, moved, promised, count>>

NoSample == [name |-> Blank, speech |-> {}]
Idle == [pc |-> "idle"]
NoOne == "no one"
ASSUME NoOneAssumption == NoOne \notin Voices

\* What an instance excludes unless Races has the word:
\* "copy": a rename between the copy of the names and its use.
RenameAllowed == "copy" \in Races \/ fpc # "copied"
\* "restart": a restart while a name waits in memory, which loses it;
\* "record": one between an enrolment and the row that says so.
Owns(v, s) == \E k \in 1..stream : tier[k][s] = v
Pinned(s) == \A v \in Voices : Owns(v, s) => book[v].evidence # {}
CrashAllowed ==
    /\ "restart" \in Races \/ fpc = "ended" \/ \A s \in Slots : reviewerNames[s] # Blank => Pinned(s)
    /\ "record" \in Races \/ \A o \in Operators : op[o].pc \in {"idle", "posting"}
\* "publishers": two handlers for one voice.
Publishing(v) == \E o \in Operators : op[o] # Idle /\ op[o].voice = v
PublishAllowed(v) == "publishers" \in Races \/ ~Publishing(v)
\* "late": a post served after its handler gave up and another succeeded.
ServeAllowed(v) == "late" \in Races \/ (book[v].status # "global_shared" /\ ~Publishing(v))

\* "streams": a stream that gives its slots and voices the numbers of an
\* earlier one, which the rows and the registry of the meeting still have.
TakenSlot(s, n) == \E k \in 1..(n - 1) : tier[k][s] # NoOne \/ \E r \in Slots : <<k, s>> \in heard[r]
TakenVoice(v) == book[v] # Nobody \/ \E s \in Slots : Owns(v, s)
SpeakAllowed(s) == "streams" \in Races \/ ~TakenSlot(s, stream)
StreamAllowed(new) ==
    "streams" \in Races \/ \A s \in Slots : new[s] # NoOne => ~TakenSlot(s, stream + 1) /\ ~TakenVoice(new[s])
ExportAllowed(v) == "streams" \in Races \/ book[v] = Nobody

Bump(k) == count' = [count EXCEPT ![k] = @ + 1]

Init ==
    /\ stream = 1
    /\ \E first \in [Slots -> Voices \union {NoOne}] :
         tier = [k \in Streams |-> IF k = 1 THEN first ELSE [s \in Slots |-> NoOne]]
    /\ heard = [s \in Slots |-> {}]
    /\ reviewerNames = [s \in Slots |-> Blank]
    /\ rows = [s \in Slots |-> Blank]
    /\ book = [v \in Voices |-> Nobody]
    /\ fpc = "recording" /\ copied = reviewerNames
    /\ shared = [v \in Voices |-> NoSample]
    /\ deleted = {} /\ late = {}
    /\ op = [o \in Operators |-> Idle]
    /\ lastName = [v \in Voices |-> Blank]
    /\ named = {} /\ moved = {} /\ promised = [v \in Voices |-> {}]
    /\ count = [renames |-> 0, crashes |-> 0, publishes |-> 0, deletions |-> 0]

----------------------------------------------------------------------------
(* The registry's rows *)

InBook(v) == book[v] # Nobody

\* speakerForSlot: the voice whose row lists the slot; of several, the first
\* the database finds.
SpeakerForSlot(s) == {v \in Voices : s \in book[v].slots}

\* setVerifiedName(..., manual = true).
SetVerifiedName(b, v, n) == [b EXCEPT ![v].name = n, ![v].source = "manual"]

\* syncSpeakers, for the voices in the export: identity and slots; a name given
\* by hand is left alone.
SyncName(row) == IF row.source = "manual" THEN row.name ELSE Model
Slotted(v) == {s \in Slots : tier[stream][s] = v}
SyncSpeakers(b, exported) ==
    [v \in Voices |-> IF v \in exported
                      THEN [b[v] EXCEPT !.slots = Slotted(v), !.name = SyncName(b[v])] ELSE b[v]]

\* The tier hears somebody in one of its slots.
Speak(s) ==
    /\ fpc = "recording" /\ SpeakAllowed(s)
    /\ heard' = [heard EXCEPT ![s] = @ \union {<<stream, s>>}]
    /\ UNCHANGED <<stream, tier, reviewerNames, rows, book, fpc, copied, history, serviceVars, count>>

\* renameSpeaker, of a session or of an archived meeting, with from = to when
\* nothing is merged: the transcript's rows and their words, the names that
\* wait, and the registry where it knows the slot.
GivenOnce(names, from, to, n) ==
    [names EXCEPT ![from] = Blank, ![to] = IF names[to] = Blank THEN n ELSE names[to]]
Given(names, from, to, n) == [names EXCEPT ![from] = Blank, ![to] = n]
Merged(from, to) ==
    IF from = to THEN heard ELSE [heard EXCEPT ![to] = @ \union heard[from], ![from] = {}]
Rename(from, to, n) ==
    /\ count.renames < MaxRename /\ Bump("renames")
    /\ RenameAllowed
    /\ heard[from] # {} /\ heard[to] # {}
    /\ heard' = Merged(from, to)
    /\ rows' = Given(rows, from, to, n)
    /\ reviewerNames' = Given(reviewerNames, from, to, n)
    /\ IF SpeakerForSlot(to) = {} THEN UNCHANGED book
       ELSE \E v \in SpeakerForSlot(to) : book' = SetVerifiedName(book, v, n)
    /\ lastName' = [v \in Voices |-> CASE Owns(v, to) -> n
                                      [] Owns(v, from) /\ ~Owns(v, to) -> Blank
                                      [] OTHER -> lastName[v]]
    /\ named' = IF n = Blank THEN named ELSE named \union {to}
    /\ moved' = IF from = to THEN moved ELSE moved \union (heard[from] \X {to})
    /\ UNCHANGED <<stream, tier, fpc, copied, promised, serviceVars>>

----------------------------------------------------------------------------
(* The end of the meeting: publishSpeakerRegistry *)

\* A voice may be in the export without a slot.
Sync ==
    /\ fpc = "recording" /\ fpc' = "synced"
    /\ \E exported \in (SUBSET Voices) \ {{}} :
         /\ \A v \in Voices : Slotted(v) # {} => v \in exported
         /\ \A v \in exported : ExportAllowed(v)
         /\ book' = SyncSpeakers(book, exported)
    /\ UNCHANGED <<speech, reviewerNames, rows, copied, history, serviceVars, count>>

\* speakerSpans of the slots.
Evidence(slots) == UNION {heard[s] : s \in slots}
IsNamed(v) == (\E s \in Slotted(v) : rows[s] # Blank) /\ Evidence(Slotted(v)) # {}

\* The names are copied under m_mutex ...
Copy ==
    /\ fpc = "synced" /\ fpc' = "copied"
    /\ copied' = reviewerNames
    /\ promised' = [v \in Voices |-> IF IsNamed(v) THEN Evidence(Slotted(v)) ELSE promised[v]]
    /\ UNCHANGED <<speech, reviewerNames, rows, book, lastName, named, moved, serviceVars, count>>

\* ... and used under m_stateMutex: the speech of the slots a voice owns is
\* pinned for the voices a reviewer named.
NamesOrGuesses(names, slots) == ({names[s] : s \in slots} \ {Blank}) \union {Model}
GivenNames(names, slots) == {names[s] : s \in slots} \ {Blank}
Stage ==
    /\ fpc = "copied" /\ fpc' = "staged"
    /\ \E called \in [Voices -> Names \union {Blank, Model}] :
         /\ \A v \in Voices :
              LET given == GivenNames(copied, Slotted(v))
              IN  called[v] \in IF given = {} THEN {Blank} ELSE given
         /\ book' = [v \in Voices |->
              IF called[v] = Blank \/ Evidence(Slotted(v)) = {} THEN book[v]
              ELSE [SetVerifiedName(book, v, called[v])[v]
                      EXCEPT !.evidence = Evidence(Slotted(v))]]
    /\ UNCHANGED <<speech, reviewerNames, rows, copied, history, serviceVars, count>>

\* The meeting ends: with its registry, or without one when the tier does not
\* answer the last tick.
End ==
    /\ fpc \in {"recording", "staged"} /\ fpc' = "ended"
    /\ UNCHANGED <<speech, reviewerNames, rows, book, copied, history, serviceVars, count>>

\* The process dies, with the names that wait and the handlers; unless the
\* meeting had ended it is recovered with its rows, and the tier is given a
\* new stream.
Crash ==
    /\ count.crashes < MaxCrash /\ Bump("crashes")
    /\ CrashAllowed
    /\ reviewerNames' = [s \in Slots |-> Blank]
    /\ \/ fpc = "ended" /\ UNCHANGED <<fpc, stream, tier>>
       \/ /\ fpc # "ended" /\ fpc' = "recording" /\ stream' = stream + 1
          /\ \E new \in [Slots -> Voices \union {NoOne}] :
               StreamAllowed(new) /\ tier' = [tier EXCEPT ![stream + 1] = new]
    /\ copied' = reviewerNames'
    /\ \E lost \in SUBSET Operators :
         late' = late \union {op[o] : o \in {p \in lost : op[p].pc = "posting"}}
    /\ op' = [o \in Operators |-> Idle]
    /\ UNCHANGED <<heard, rows, book, shared, deleted, history>>

----------------------------------------------------------------------------
(* save_session_speakers *)

\* SESSION_ONLY is a decision that leaves the server for nobody.
SaveSessionOnly(v) ==
    /\ InBook(v) /\ count.publishes < MaxPublish /\ Bump("publishes")
    /\ PublishAllowed(v)
    /\ book' = [book EXCEPT ![v].status = "session_only", ![v].published = Blank]
    /\ UNCHANGED <<speech, reviewerNames, rows, fpc, copied, history, serviceVars>>

\* GLOBAL_SHARED, under the name asked for or the verified one, with the
\* evidence there is; without a name or evidence nothing happens.
BeginPublish(o, v, asked) ==
    /\ op[o] = Idle /\ InBook(v) /\ count.publishes < MaxPublish /\ Bump("publishes")
    /\ PublishAllowed(v)
    /\ LET name == IF asked = Blank THEN book[v].name ELSE asked IN
         /\ name # Blank /\ book[v].evidence # {}
         /\ op' = [op EXCEPT ![o] = [pc |-> "posting", voice |-> v, name |-> name,
                                     speech |-> book[v].evidence]]
    /\ UNCHANGED <<registryVars, shared, deleted, late>>

\* The service enrols the sample under the voice's tag, or nothing of it
\* (segments_enrolled = 0) under a name that was deleted there.
Taken(post) == post.name \notin deleted
Enrols(post) ==
    shared' = IF Taken(post) THEN [shared EXCEPT ![post.voice] = [name |-> post.name, speech |-> post.speech]]
              ELSE shared

Answered(o) ==
    /\ op[o].pc = "posting"
    /\ Enrols(op[o])
    /\ op' = [op EXCEPT ![o].pc = IF Taken(op[o]) THEN "enrolled" ELSE "failed"]
    /\ UNCHANGED <<registryVars, deleted, late, count>>

\* The sample cannot be used, its audio cannot be read or the service cannot
\* be reached.
Refused(o) ==
    /\ op[o].pc = "posting"
    /\ op' = [op EXCEPT ![o].pc = "failed"]
    /\ UNCHANGED <<registryVars, shared, deleted, late, count>>

\* The deadline passes before the answer: the post was served, or still is.
Unanswered(o) ==
    /\ op[o].pc = "posting"
    /\ op' = [op EXCEPT ![o].pc = "failed"]
    /\ \/ Enrols(op[o]) /\ UNCHANGED late
       \/ late' = late \union {op[o]} /\ UNCHANGED shared
    /\ UNCHANGED <<registryVars, deleted, count>>

ServeLate(post) ==
    /\ ServeAllowed(post.voice) /\ late' = late \ {post}
    /\ Enrols(post)
    /\ UNCHANGED <<registryVars, deleted, op, count>>

\* updateSpeakerStatus.
StatusWhenAnswered(pc) == "global_shared"
StatusOf(pc) == IF pc = "enrolled" THEN "global_shared" ELSE "publish_failed"
Record(o) ==
    /\ op[o].pc \in {"enrolled", "failed"}
    /\ LET ok == StatusOf(op[o].pc) = "global_shared" IN
         book' = [book EXCEPT ![op[o].voice].status = StatusOf(op[o].pc),
                              ![op[o].voice].published = IF ok THEN op[o].name ELSE Blank]
    /\ op' = [op EXCEPT ![o] = Idle]
    /\ UNCHANGED <<speech, reviewerNames, rows, fpc, copied, history, shared, deleted, late, count>>

\* delete_global_speaker: passed on to the service, which forgets the voice
\* and remembers the name.
DeleteGlobal(n) ==
    /\ count.deletions < MaxDelete /\ Bump("deletions")
    /\ deleted' = deleted \union {n}
    /\ shared' = [v \in Voices |-> IF shared[v].name = n THEN NoSample ELSE shared[v]]
    /\ UNCHANGED <<registryVars, late, op>>

Next ==
    \/ \E s \in Slots : Speak(s)
    \/ \E from, to \in Slots, n \in Names \union {Blank} : Rename(from, to, n)
    \/ Sync \/ Copy \/ Stage \/ End \/ Crash
    \/ \E v \in Voices : SaveSessionOnly(v)
    \/ \E o \in Operators : \/ \E v \in Voices, n \in Names \union {Blank} : BeginPublish(o, v, n)
                            \/ Answered(o) \/ Refused(o) \/ Unanswered(o) \/ Record(o)
    \/ \E post \in late : ServeLate(post)
    \/ \E n \in Names : DeleteGlobal(n)

Spec == Init /\ [][Next]_vars

----------------------------------------------------------------------------
(* Properties *)

\* One stream's voice: every piece is of one of its slots in that stream, or a
\* reviewer merged it into one, and a reviewer named one of them.
IsVouchedFor(v, sample) ==
    \E k \in Streams :
        /\ \A p \in sample : \/ p[1] = k /\ tier[k][p[2]] = v
                             \/ \E s \in Slots : <<p, s>> \in moved /\ tier[k][s] = v
        /\ \E s \in named : tier[k][s] = v

\* What is shared under a voice is the speech of one voice, and of one that a
\* person vouched for by naming one of its slots: a wrong sample is a wrong
\* name in every meeting after this one.
OnlyVouchedIsShared == \A v \in Voices : shared[v] # NoSample => IsVouchedFor(v, shared[v].speech)

\* A name given before the end reaches the registry with the speech there was
\* pinned for it; and the name somebody gave a voice's slot last, before the
\* end or after it, is the registry's too: what it calls the voice by hand the
\* transcript calls one of its slots.
NamesReachTheBook ==
    fpc \in {"staged", "ended"} => \A v \in Voices :
        /\ book[v].source = "manual" /\ lastName[v] # Blank => book[v].name \in {rows[s] : s \in book[v].slots}
        /\ promised[v] # {} => book[v].source = "manual" /\ book[v].evidence = promised[v]

\* What the registry calls shared is in the shared database under that name,
\* unless somebody deleted it there.
PublishedIsShared ==
    \A v \in Voices :
        book[v].status = "global_shared" /\ ~Publishing(v) =>
            shared[v].name = book[v].published \/ book[v].published \in deleted
=============================================================================
