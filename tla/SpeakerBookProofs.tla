-------------------------- MODULE SpeakerBookProofs --------------------------
(***************************************************************************)
(* What holds of SpeakerBook for any number of voices, slots, operators,   *)
(* renames and crashes.                                                    *)
(***************************************************************************)
EXTENDS SpeakerBook, TLAPS

-----------------------------------------------------------------------------
(* The inductive invariants.                                               *)

Called == Names \cup {Blank, Model}
Statuses == {"pending", "session_only", "global_shared", "publish_failed"}
Rows == [slots : SUBSET Slots, name : Called, source : {"model", "manual"},
         evidence : SUBSET Pieces, status : Statuses, published : Called]
Posts == [pc : {"posting", "enrolled", "failed"}, voice : Voices, name : Called,
          speech : SUBSET Pieces]

Typed ==
    /\ count \in [renames : Nat, crashes : Nat, publishes : Nat, deletions : Nat]
    /\ count.crashes <= MaxCrash /\ stream \in 1..(count.crashes + 1)
    /\ tier \in [Streams -> [Slots -> Voices \cup {NoOne}]]
    /\ heard \in [Slots -> SUBSET Pieces]
    /\ reviewerNames \in [Slots -> Called] /\ copied \in [Slots -> Called]
    /\ rows \in [Slots -> Called]
    /\ book \in [Voices -> Rows]
    /\ fpc \in {"recording", "synced", "copied", "staged", "ended"}
    /\ shared \in [Voices -> [name : Called, speech : SUBSET Pieces]]
    /\ late \subseteq Posts
    /\ op \in [Operators -> {Idle} \cup Posts]
    /\ lastName \in [Voices -> Called]
    /\ named \subseteq Slots /\ moved \subseteq Pieces \X Slots
    /\ promised \in [Voices -> SUBSET Pieces]

\* What the streams gave and what the transcript files under it: no slot and no
\* voice is of two streams, and words are under another slot only where a reviewer
\* merged them.
FutureIsSilent == \A k \in Streams, s \in Slots : k > stream => tier[k][s] = NoOne
WordsAreFiled ==
    \A r, s \in Slots, k \in Streams :
        <<k, s>> \in heard[r] => k <= stream /\ (s = r \/ <<<<k, s>>, r>> \in moved)
NoSlotTwice ==
    \A s \in Slots, k, m \in Streams :
        tier[k][s] # NoOne /\ (tier[m][s] # NoOne \/ \E r \in Slots : <<m, s>> \in heard[r]) => k = m
NoVoiceTwice ==
    \A s, t \in Slots, k, m \in Streams : tier[k][s] # NoOne /\ tier[k][s] = tier[m][t] => k = m
NamedWasHeard ==
    \A s \in Slots :
        heard[s] # {} \/ rows[s] # Blank => \E k \in Streams, r \in Slots : <<k, s>> \in heard[r]
Lineage == FutureIsSilent /\ WordsAreFiled /\ NoSlotTwice /\ NoVoiceTwice /\ NamedWasHeard

\* IsVouchedFor, of a stream there was.
OwnSpeech(v, sample) ==
    \E k \in 1..stream :
        /\ \A p \in sample : \/ p[1] = k /\ tier[k][p[2]] = v
                             \/ \E s \in Slots : <<p, s>> \in moved /\ tier[k][s] = v
        /\ \E s \in named : tier[k][s] = v

\* Evidence, wherever it is, is the voice's own speech and vouched for.
Vouching ==
    /\ \A s \in Slots : reviewerNames[s] # Blank \/ copied[s] # Blank => s \in named
    /\ \A v \in Voices : book[v].evidence # {} => OwnSpeech(v, book[v].evidence)
    /\ \A o \in Operators : op[o].pc = "posting" => OwnSpeech(op[o].voice, op[o].speech)
    /\ \A post \in late : OwnSpeech(post.voice, post.speech)
    /\ \A v \in Voices : shared[v] # NoSample => OwnSpeech(v, shared[v].speech)

\* One handler at a time has a voice in hand.
OnePublisher ==
    \A o, q \in Operators : op[o] # Idle /\ op[q] # Idle /\ op[o].voice = op[q].voice => o = q

IsShared(v, n) == shared[v].name = n \/ n \in deleted

\* What was enrolled and not yet recorded is shared, and so is what was recorded
\* while no handler is about to record something else.
Recorded ==
    /\ \A o \in Operators : op[o].pc = "enrolled" => IsShared(op[o].voice, op[o].name)
    /\ \A v \in Voices :
         book[v].status = "global_shared"
           /\ (\A o \in Operators : op[o].pc \in {"enrolled", "failed"} => op[o].voice # v)
         => IsShared(v, book[v].published)

\* The registry's row of a voice: its slots are what the tier gave it, or none, and
\* until the end of its stream nothing is pinned for it.
Owned(v) == {s \in Slots : Owns(v, s)}
RowIsTrue(v) ==
    /\ book[v].slots \in {{}, Owned(v)}
    /\ book[v].source = "manual" => book[v].slots # {}
    /\ fpc \in {"synced", "copied", "staged"} /\ Slotted(v) # {} => book[v].slots = Slotted(v)
    /\ fpc \in {"recording", "synced", "copied"} /\ Slotted(v) # {} => book[v].evidence = {}
RowsAreTrue == \A v \in Voices : RowIsTrue(v)

\* A name of a slot the tier's stream has given to a voice waits until the names are used.
Waiting ==
    /\ \A s \in Slots : reviewerNames[s] \in {Blank, rows[s]}
    /\ fpc \in {"recording", "synced", "copied"} =>
         \A s \in Slots : tier[stream][s] # NoOne => reviewerNames[s] = rows[s]
    /\ fpc = "copied" => copied = reviewerNames

\* A name in the registry that a person gave is one the transcript shows, and what
\* was promised is pinned, or is about to be.
Shows(v, n) == \E s \in Slots : Owns(v, s) /\ rows[s] = n
Kept(v) ==
    \/ book[v].source = "manual" /\ book[v].evidence = promised[v]
    \/ fpc = "copied" /\ IsNamed(v) /\ promised[v] = Evidence(Slotted(v))
Naming ==
    \A v \in Voices :
        /\ book[v].source = "manual" => lastName[v] = Blank \/ Shows(v, book[v].name)
        /\ promised[v] # {} => Kept(v)
-----------------------------------------------------------------------------
(* What the operations make of the speech, the rows and the handlers.      *)

\* The tier's streams: the one it is on is one of them.
LEMMA OnAStream == Typed => stream \in Streams /\ stream \in 1..stream /\ 1..stream \subseteq Streams
BY BookAssumption DEF Typed, Streams

\* Only speaking, renaming and a crash change what was heard and from whom.
LEMMA SpeechMoves ==
    ASSUME [Next]_vars
    PROVE  \/ UNCHANGED <<speech, rows, reviewerNames, lastName, named, moved>>
           \/ \E s \in Slots : Speak(s)
           \/ \E from, to \in Slots, n \in Names \cup {Blank} : Rename(from, to, n)
           \/ Crash
BY DEF Next, Sync, Copy, Stage, End, SaveSessionOnly, BeginPublish, Answered, Refused,
   Unanswered, Record, ServeLate, DeleteGlobal, registryVars, history, speech, vars

\* A crash begins a stream, or leaves an ended meeting alone.
NewStream(new) ==
    /\ fpc # "ended" /\ fpc' = "recording" /\ stream' = stream + 1 /\ stream' \in Streams
    /\ StreamAllowed(new) /\ tier'[stream + 1] = new /\ new \in [Slots -> Voices \cup {NoOne}]
    /\ \A k \in Streams : k # stream + 1 => tier'[k] = tier[k]

LEMMA Crashes ==
    ASSUME Typed, Crash
    PROVE  /\ UNCHANGED <<heard, rows, book, shared, deleted, lastName, named, moved, promised>>
           /\ stream' \in 1..(count'.crashes + 1) /\ count'.crashes <= MaxCrash
           /\ count' \in [renames : Nat, crashes : Nat, publishes : Nat, deletions : Nat]
           /\ tier' \in [Streams -> [Slots -> Voices \cup {NoOne}]]
           /\ \/ fpc = "ended" /\ UNCHANGED <<fpc, stream, tier>>
              \/ \E new \in [Slots -> Voices \cup {NoOne}] : NewStream(new)
<1>1. UNCHANGED <<heard, rows, book, shared, deleted, lastName, named, moved, promised>>
  BY DEF Crash, history
<1>2. /\ count' = [count EXCEPT !["crashes"] = count["crashes"] + 1]
      /\ count.crashes < MaxCrash /\ count.crashes \in Nat /\ MaxCrash \in Nat
  BY BookAssumption DEF Crash, Bump, Typed
<1>3. /\ count' \in [renames : Nat, crashes : Nat, publishes : Nat, deletions : Nat]
      /\ count'.crashes = count.crashes + 1
  BY <1>2 DEF Typed
<1>4. CASE fpc = "ended" /\ UNCHANGED <<fpc, stream, tier>>
  BY <1>1, <1>2, <1>3, <1>4 DEF Typed
<1>5. ASSUME fpc # "ended", fpc' = "recording", stream' = stream + 1,
             NEW new \in [Slots -> Voices \cup {NoOne}], StreamAllowed(new),
             tier' = [tier EXCEPT ![stream + 1] = new]
      PROVE  /\ NewStream(new) /\ tier' \in [Streams -> [Slots -> Voices \cup {NoOne}]]
             /\ stream' \in 1..(count'.crashes + 1)
  <2>1. stream \in 1..(count.crashes + 1)
    BY DEF Typed
  <2>2. stream + 1 \in 1..(MaxCrash + 1) /\ stream + 1 \in 1..(count.crashes + 1 + 1)
    BY <1>2, <2>1
  <2>3. stream + 1 \in Streams
    BY <2>2 DEF Streams
  <2> QED
    BY <1>3, <1>5, <2>2, <2>3 DEF NewStream, Typed
<1> QED
  BY <1>1, <1>2, <1>3, <1>4, <1>5 DEF Crash

\* A rename, of the speech and of the names.
LEMMA Merges ==
    ASSUME Typed, NEW from \in Slots, NEW to \in Slots, NEW n \in Names \cup {Blank},
           Rename(from, to, n)
    PROVE  /\ UNCHANGED <<stream, tier, fpc, copied, promised, serviceVars>>
           /\ heard' \in [Slots -> SUBSET Pieces]
           /\ \A s \in Slots : \/ heard'[s] = heard[s]
                               \/ s = to /\ from # to /\ heard'[s] = heard[to] \cup heard[from]
                               \/ s = from /\ from # to /\ heard'[s] = {}
           /\ from # to => heard'[to] = heard[to] \cup heard[from]
           /\ moved \subseteq moved' /\ moved' \subseteq Pieces \X Slots
           /\ from # to => \A p \in heard[from] : <<p, to>> \in moved'
           /\ rows' = [s \in Slots |-> IF s = to THEN n ELSE IF s = from THEN Blank ELSE rows[s]]
           /\ reviewerNames' =
                [s \in Slots |-> IF s = to THEN n ELSE IF s = from THEN Blank ELSE reviewerNames[s]]
           /\ named \subseteq named' /\ named' \subseteq Slots
           /\ n # Blank => to \in named'
           /\ heard[from] # {} /\ heard[to] # {}
           /\ count' \in [renames : Nat, crashes : Nat, publishes : Nat, deletions : Nat]
           /\ count'.crashes = count.crashes
<1>1. /\ UNCHANGED <<stream, tier, fpc, copied, promised, serviceVars>>
      /\ heard[from] # {} /\ heard[to] # {} /\ heard' = Merged(from, to)
      /\ rows' = Given(rows, from, to, n) /\ reviewerNames' = Given(reviewerNames, from, to, n)
      /\ named' = (IF n = Blank THEN named ELSE named \cup {to})
      /\ moved' = (IF from = to THEN moved ELSE moved \cup (heard[from] \X {to}))
      /\ count' = [count EXCEPT !["renames"] = count["renames"] + 1]
  BY DEF Rename, Bump
<1>2. /\ heard \in [Slots -> SUBSET Pieces] /\ moved \subseteq Pieces \X Slots /\ named \subseteq Slots
      /\ rows \in [Slots -> Called] /\ reviewerNames \in [Slots -> Called]
      /\ count \in [renames : Nat, crashes : Nat, publishes : Nat, deletions : Nat]
  BY DEF Typed
<1>3. /\ heard' \in [Slots -> SUBSET Pieces]
      /\ \A s \in Slots : \/ heard'[s] = heard[s]
                          \/ s = to /\ from # to /\ heard'[s] = heard[to] \cup heard[from]
                          \/ s = from /\ from # to /\ heard'[s] = {}
      /\ from # to => heard'[to] = heard[to] \cup heard[from]
  <2>1. CASE from = to
    BY <1>1, <1>2, <2>1 DEF Merged
  <2>2. CASE from # to
    BY <1>1, <1>2, <2>2 DEF Merged
  <2> QED
    BY <2>1, <2>2
<1>4. /\ moved \subseteq moved' /\ moved' \subseteq Pieces \X Slots
      /\ from # to => \A p \in heard[from] : <<p, to>> \in moved'
  BY <1>1, <1>2
<1>5. /\ rows' = [s \in Slots |-> IF s = to THEN n ELSE IF s = from THEN Blank ELSE rows[s]]
      /\ reviewerNames' =
           [s \in Slots |-> IF s = to THEN n ELSE IF s = from THEN Blank ELSE reviewerNames[s]]
  BY <1>1, <1>2 DEF Given
<1>6. /\ count' \in [renames : Nat, crashes : Nat, publishes : Nat, deletions : Nat]
      /\ count'.crashes = count.crashes
  BY <1>1, <1>2
<1> QED
  BY <1>1, <1>2, <1>3, <1>4, <1>5, <1>6

\* The name given last, after a rename.
LEMMA LastNames ==
    ASSUME NEW from \in Slots, NEW to \in Slots, NEW n \in Names \cup {Blank}, Rename(from, to, n)
    PROVE  /\ lastName' = [v \in Voices |-> lastName'[v]]
           /\ \A v \in Voices :
                \/ Owns(v, to) /\ lastName'[v] = n
                \/ Owns(v, from) /\ ~Owns(v, to) /\ lastName'[v] = Blank
                \/ ~Owns(v, to) /\ ~Owns(v, from) /\ lastName'[v] = lastName[v]
<1>1. lastName' = [v \in Voices |-> CASE Owns(v, to) -> n
                                       [] Owns(v, from) /\ ~Owns(v, to) -> Blank
                                       [] OTHER -> lastName[v]]
  BY DEF Rename
<1> HIDE DEF Owns
<1>2. ASSUME NEW v \in Voices
      PROVE  \/ Owns(v, to) /\ lastName'[v] = n
             \/ Owns(v, from) /\ ~Owns(v, to) /\ lastName'[v] = Blank
             \/ ~Owns(v, to) /\ ~Owns(v, from) /\ lastName'[v] = lastName[v]
  <2>1. lastName'[v] = CASE Owns(v, to) -> n
                         [] Owns(v, from) /\ ~Owns(v, to) -> Blank
                         [] OTHER -> lastName[v]
    BY <1>1
  <2>2. CASE Owns(v, to) /\ ~Owns(v, from)
    BY <2>1, <2>2
  <2>3. CASE Owns(v, from) /\ ~Owns(v, to)
    BY <2>1, <2>3
  <2>4. CASE Owns(v, from) /\ Owns(v, to)
    BY <2>1, <2>4
  <2>5. CASE ~Owns(v, to) /\ ~Owns(v, from)
    BY <2>1, <2>5
  <2> QED
    BY <2>2, <2>3, <2>4, <2>5
<1> QED
  BY <1>1, <1>2

\* What the streams gave stays, and so do the history's marks.
LEMMA SpeechLasts ==
    ASSUME Typed, [Next]_vars
    PROVE  /\ 1..stream \subseteq 1..stream' /\ 1..stream \subseteq Streams
           /\ \A k \in 1..stream : tier'[k] = tier[k]
           /\ named \subseteq named' /\ moved \subseteq moved'
<1>1. stream \in Nat /\ 1..stream \subseteq Streams
  BY OnAStream DEF Typed
<1>2. CASE UNCHANGED <<speech, named, moved>>
  BY <1>1, <1>2 DEF speech
<1>3. ASSUME NEW s \in Slots, Speak(s) PROVE UNCHANGED <<stream, tier, named, moved>>
  BY <1>3 DEF Speak, history
<1>4. ASSUME NEW from \in Slots, NEW to \in Slots, NEW n \in Names \cup {Blank}, Rename(from, to, n)
      PROVE  UNCHANGED <<stream, tier>> /\ named \subseteq named' /\ moved \subseteq moved'
  BY <1>4, Merges
<1>5. CASE Crash
  <2>1. UNCHANGED <<named, moved>>
    BY <1>5, Crashes
  <2>2. CASE UNCHANGED <<stream, tier>>
    BY <1>1, <2>1, <2>2
  <2>3. ASSUME NEW new \in [Slots -> Voices \cup {NoOne}], NewStream(new)
        PROVE  1..stream \subseteq 1..stream' /\ \A k \in 1..stream : tier'[k] = tier[k]
    BY <1>1, <2>3 DEF NewStream
  <2> QED
    BY <1>1, <1>5, <2>1, <2>2, <2>3, Crashes
<1> QED
  BY <1>1, <1>2, <1>3, <1>4, <1>5, SpeechMoves

\* A rename gives its name to one row that lists the slot, if there is one.
Renamed(v, to, n) ==
    /\ to \in book[v].slots
    /\ book'[v].slots = book[v].slots /\ book'[v].name = n
    /\ book'[v].source = "manual" /\ book'[v].evidence = book[v].evidence
    /\ book'[v].status = book[v].status /\ book'[v].published = book[v].published

LEMMA RenamedRows ==
    ASSUME Typed, NEW from \in Slots, NEW to \in Slots, NEW n \in Names \cup {Blank},
           Rename(from, to, n)
    PROVE  /\ book' \in [Voices -> Rows]
           /\ \A v \in Voices : book'[v] = book[v] \/ Renamed(v, to, n)
           /\ (\E v \in Voices : to \in book[v].slots) => \E v \in Voices : Renamed(v, to, n)
<1>1. n \in Called /\ book \in [Voices -> Rows]
  BY DEF Typed, Called
<1>2. CASE SpeakerForSlot(to) = {} /\ UNCHANGED book
  BY <1>1, <1>2 DEF SpeakerForSlot
<1>3. ASSUME NEW u \in Voices, to \in book[u].slots, book' = SetVerifiedName(book, u, n)
      PROVE  /\ book' \in [Voices -> Rows] /\ Renamed(u, to, n)
             /\ \A v \in Voices \ {u} : book'[v] = book[v]
  <2>1. book' = [book EXCEPT ![u] = [book[u] EXCEPT !.name = n, !.source = "manual"]]
    BY <1>1, <1>3 DEF SetVerifiedName, Rows
  <2>2. /\ [book[u] EXCEPT !.name = n, !.source = "manual"] \in Rows
        /\ book'[u] = [book[u] EXCEPT !.name = n, !.source = "manual"]
    BY <1>1, <2>1 DEF Rows
  <2>3. book' \in [Voices -> Rows] /\ \A v \in Voices \ {u} : book'[v] = book[v]
    BY <1>1, <2>1, <2>2
  <2>4. Renamed(u, to, n)
    BY <1>1, <1>3, <2>2 DEF Renamed, Rows
  <2> QED
    BY <2>3, <2>4
<1>4. \/ SpeakerForSlot(to) = {} /\ UNCHANGED book
      \/ \E u \in Voices : to \in book[u].slots /\ book' = SetVerifiedName(book, u, n)
  BY DEF Rename, SpeakerForSlot
<1> QED
  BY <1>2, <1>3, <1>4

\* The synchronisation rewrites the slots of the voices in the export, and the names
\* no person gave.
Synced(v) ==
    /\ ExportAllowed(v)
    /\ book'[v].slots = Slotted(v) /\ book'[v].name = SyncName(book[v])
    /\ book'[v].source = book[v].source /\ book'[v].evidence = book[v].evidence
    /\ book'[v].status = book[v].status /\ book'[v].published = book[v].published

LEMMA SyncedRows ==
    ASSUME Typed, Sync
    PROVE  /\ book' \in [Voices -> Rows]
           /\ \A v \in Voices : Synced(v) \/ (Slotted(v) = {} /\ book'[v] = book[v])
<1>1. PICK exported \in SUBSET Voices :
        /\ \A v \in Voices : Slotted(v) # {} => v \in exported
        /\ \A v \in exported : ExportAllowed(v)
        /\ book' = SyncSpeakers(book, exported)
  BY DEF Sync
<1>2. ASSUME NEW v \in Voices
      PROVE  /\ book'[v] \in Rows
             /\ Synced(v) \/ (Slotted(v) = {} /\ book'[v] = book[v])
  <2> DEFINE x == Slotted(v)
             n == SyncName(book[v])
  <2>1. x \in SUBSET Slots /\ n \in Called /\ book[v] \in Rows
    BY DEF Slotted, SyncName, Called, Typed, Rows
  <2>2. v \in exported => book'[v] = [book[v] EXCEPT !.slots = x, !.name = n]
    BY <1>1 DEF SyncSpeakers
  <2>3. v \notin exported => book'[v] = book[v] /\ x = {}
    BY <1>1 DEF SyncSpeakers
  <2> HIDE DEF x, n
  <2>4. v \in exported =>
          /\ book'[v] \in Rows /\ book'[v].slots = x /\ book'[v].name = n
          /\ book'[v].source = book[v].source /\ book'[v].evidence = book[v].evidence
          /\ book'[v].status = book[v].status /\ book'[v].published = book[v].published
    BY <2>1, <2>2 DEF Rows
  <2> QED
    BY <1>1, <2>1, <2>3, <2>4 DEF x, n, Synced
<1>3. book' = [v \in Voices |-> book'[v]]
  BY <1>1 DEF SyncSpeakers
<1> QED
  BY <1>2, <1>3

\* Staging pins the speech of the voices that have a name waiting, under one of
\* those names.
Staged(v, n) ==
    /\ n \in GivenNames(copied, Slotted(v)) /\ Evidence(Slotted(v)) # {}
    /\ book'[v].slots = book[v].slots /\ book'[v].name = n
    /\ book'[v].source = "manual" /\ book'[v].evidence = Evidence(Slotted(v))
    /\ book'[v].status = book[v].status /\ book'[v].published = book[v].published

LEMMA StagedRows ==
    ASSUME Typed, Stage
    PROVE  /\ book' \in [Voices -> Rows]
           /\ \A v \in Voices :
                \/ /\ GivenNames(copied, Slotted(v)) = {} \/ Evidence(Slotted(v)) = {}
                   /\ book'[v] = book[v]
                \/ \E n \in Called \ {Blank} : Staged(v, n)
<1>1. PICK called \in [Voices -> Names \union {Blank, Model}] :
         /\ \A v \in Voices :
              LET given == GivenNames(copied, Slotted(v))
              IN  called[v] \in IF given = {} THEN {Blank} ELSE given
         /\ book' = [v \in Voices |->
              IF called[v] = Blank \/ Evidence(Slotted(v)) = {} THEN book[v]
              ELSE [SetVerifiedName(book, v, called[v])[v]
                      EXCEPT !.evidence = Evidence(Slotted(v))]]
  BY DEF Stage
<1>2. ASSUME NEW v \in Voices
      PROVE  /\ book'[v] \in Rows
             /\ \/ /\ GivenNames(copied, Slotted(v)) = {} \/ Evidence(Slotted(v)) = {}
                   /\ book'[v] = book[v]
                \/ \E n \in Called \ {Blank} : Staged(v, n)
  <2>1. book[v] \in Rows /\ called[v] \in Called /\ Evidence(Slotted(v)) \in SUBSET Pieces
    BY <1>1, <1>2 DEF Typed, Called, Slotted, Evidence
  <2>2. CASE GivenNames(copied, Slotted(v)) = {} \/ Evidence(Slotted(v)) = {}
    BY <1>1, <2>1, <2>2
  <2>3. CASE GivenNames(copied, Slotted(v)) # {} /\ Evidence(Slotted(v)) # {}
    <3>1. called[v] \in GivenNames(copied, Slotted(v)) /\ called[v] # Blank
      BY <1>1, <2>3 DEF GivenNames
    <3>2. SetVerifiedName(book, v, called[v])[v]
            = [book[v] EXCEPT !.name = called[v], !.source = "manual"]
      BY DEF SetVerifiedName, Typed
    <3>3. book'[v] = [[book[v] EXCEPT !.name = called[v], !.source = "manual"]
                        EXCEPT !.evidence = Evidence(Slotted(v))]
      BY <1>1, <2>3, <3>1, <3>2
    <3>4. /\ book'[v] \in Rows
          /\ book'[v].slots = book[v].slots /\ book'[v].name = called[v]
          /\ book'[v].source = "manual" /\ book'[v].evidence = Evidence(Slotted(v))
          /\ book'[v].status = book[v].status /\ book'[v].published = book[v].published
      <4> DEFINE q == [book[v] EXCEPT !.name = called[v], !.source = "manual"]
                 x == Evidence(Slotted(v))
      <4>1. /\ q \in Rows /\ q.slots = book[v].slots /\ q.name = called[v]
            /\ q.source = "manual" /\ q.status = book[v].status
            /\ q.published = book[v].published
        BY <2>1 DEF Rows
      <4>2. book'[v] = [q EXCEPT !.evidence = x] /\ x \in SUBSET Pieces
        BY <2>1, <3>3
      <4> HIDE DEF q, x
      <4>3. /\ book'[v] \in Rows /\ book'[v].slots = q.slots /\ book'[v].name = q.name
            /\ book'[v].source = q.source /\ book'[v].evidence = x
            /\ book'[v].status = q.status /\ book'[v].published = q.published
        BY <4>1, <4>2 DEF Rows
      <4> QED
        BY <4>1, <4>3 DEF x
    <3> QED
      BY <2>1, <2>3, <3>1, <3>4 DEF Staged
  <2> QED
    BY <2>2, <2>3
<1>3. book' = [v \in Voices |-> book'[v]]
  BY <1>1
<1> QED
  BY <1>2, <1>3

\* A decision or an outcome changes a row's status and published name.
Decided(v, st, n) ==
    /\ book' = [book EXCEPT ![v].status = st, ![v].published = n]
    /\ book' \in [Voices -> Rows]
    /\ book'[v].slots = book[v].slots /\ book'[v].name = book[v].name
    /\ book'[v].source = book[v].source /\ book'[v].evidence = book[v].evidence
    /\ book'[v].status = st /\ book'[v].published = n
    /\ \A w \in Voices \ {v} : book'[w] = book[w]

LEMMA DecidedRows ==
    ASSUME Typed, NEW v \in Voices, NEW st \in Statuses, NEW n \in Called,
           book' = [book EXCEPT ![v].status = st, ![v].published = n]
    PROVE  Decided(v, st, n)
<1>1. book \in [Voices -> Rows] /\ book[v] \in Rows
  BY DEF Typed
<1>2. book' = [book EXCEPT ![v] = [book[v] EXCEPT !.status = st, !.published = n]]
  BY <1>1 DEF Rows
<1>3. book'[v] = [book[v] EXCEPT !.status = st, !.published = n]
  BY <1>1, <1>2
<1>4. book'[v] \in Rows /\ book' = [book EXCEPT ![v] = book'[v]]
  BY <1>1, <1>2, <1>3 DEF Rows
<1> QED
  BY <1>1, <1>3, <1>4 DEF Decided, Rows

\* A handler is idle or has a post in hand.
LEMMA InHand ==
    ASSUME Typed, NEW o \in Operators
    PROVE  /\ op[o] = Idle <=> op[o].pc = "idle"
           /\ op[o].pc # "idle" => op[o] \in Posts
BY DEF Typed, Idle, Posts

\* A handler goes on to the next place, with the same post in hand.
LEMMA Proceeds ==
    ASSUME Typed, NEW o \in Operators, op[o].pc = "posting",
           NEW pc \in {"enrolled", "failed"}, op' = [op EXCEPT ![o].pc = pc]
    PROVE  /\ op' \in [Operators -> {Idle} \cup Posts] /\ op'[o] # Idle
           /\ op'[o].pc = pc /\ op'[o].voice = op[o].voice /\ op'[o].name = op[o].name
           /\ op'[o].speech = op[o].speech
           /\ \A q \in Operators \ {o} : op'[q] = op[q]
<1>1. op[o] \in Posts
  BY InHand
<1>2. op' = [op EXCEPT ![o] = [op[o] EXCEPT !.pc = pc]]
  BY <1>1 DEF Typed
<1>3. /\ [op[o] EXCEPT !.pc = pc] \in Posts
      /\ [op[o] EXCEPT !.pc = pc].pc = pc
      /\ [op[o] EXCEPT !.pc = pc].voice = op[o].voice
      /\ [op[o] EXCEPT !.pc = pc].name = op[o].name
      /\ [op[o] EXCEPT !.pc = pc].speech = op[o].speech
  BY <1>1 DEF Posts
<1>4. op'[o] = [op[o] EXCEPT !.pc = pc] /\ \A q \in Operators \ {o} : op'[q] = op[q]
  BY <1>2 DEF Typed
<1>5. op'[o] # Idle
  BY <1>3, <1>4 DEF Idle
<1> QED
  BY <1>2, <1>3, <1>4, <1>5 DEF Typed

\* A post that is served leaves its speech under its voice, or nothing.
LEMMA Served ==
    ASSUME Typed, NEW post \in Posts, Enrols(post)
    PROVE  /\ shared' \in [Voices -> [name : Called, speech : SUBSET Pieces]]
           /\ \A v \in Voices :
                \/ shared'[v] = shared[v]
                \/ /\ v = post.voice /\ post.name \notin deleted
                   /\ shared'[v].name = post.name /\ shared'[v].speech = post.speech
           /\ post.name \notin deleted => shared'[post.voice].name = post.name
<1>1. [name |-> post.name, speech |-> post.speech] \in [name : Called, speech : SUBSET Pieces]
  BY DEF Posts
<1>2. shared \in [Voices -> [name : Called, speech : SUBSET Pieces]] /\ post.voice \in Voices
  BY DEF Typed, Posts
<1>3. CASE post.name \in deleted
  BY <1>2, <1>3 DEF Enrols, Taken
<1>4. CASE post.name \notin deleted
  BY <1>1, <1>2, <1>4 DEF Enrols, Taken
<1> QED
  BY <1>3, <1>4

\* What a handler posts.
LEMMA BeginsPosting ==
    ASSUME Typed, NEW o \in Operators, NEW v \in Voices, NEW asked \in Names \cup {Blank},
           BeginPublish(o, v, asked)
    PROVE  /\ op' \in [Operators -> {Idle} \cup Posts] /\ op[o] = Idle /\ op'[o] # Idle
           /\ op'[o].pc = "posting" /\ op'[o].voice = v /\ op'[o].speech = book[v].evidence
           /\ book[v].evidence # {} /\ InBook(v) /\ PublishAllowed(v)
           /\ \A q \in Operators \ {o} : op'[q] = op[q]
<1> DEFINE name == IF asked = Blank THEN book[v].name ELSE asked
           post == [pc |-> "posting", voice |-> v, name |-> name, speech |-> book[v].evidence]
<1>1. /\ op[o] = Idle /\ book[v].evidence # {} /\ InBook(v) /\ PublishAllowed(v)
      /\ op' = [op EXCEPT ![o] = post]
  BY DEF BeginPublish
<1>2. name \in Called /\ book[v].evidence \in SUBSET Pieces
  BY DEF Called, Typed, Rows
<1> HIDE DEF name
<1>3. post \in Posts /\ post # Idle
  BY <1>2 DEF Posts, Idle
<1> QED
  BY <1>1, <1>3 DEF Typed

\* What a handler records.
LEMMA Records ==
    ASSUME Typed, NEW o \in Operators, Record(o)
    PROVE  /\ op[o] \in Posts /\ op[o].pc \in {"enrolled", "failed"}
           /\ Decided(op[o].voice, StatusOf(op[o].pc),
                      IF op[o].pc = "enrolled" THEN op[o].name ELSE Blank)
           /\ op' \in [Operators -> {Idle} \cup Posts] /\ op'[o] = Idle
           /\ \A q \in Operators \ {o} : op'[q] = op[q]
<1>1. op[o] \in Posts /\ Blank \in Called
  BY InHand DEF Record, Called
<1> DEFINE st == StatusOf(op[o].pc)
           n == IF op[o].pc = "enrolled" THEN op[o].name ELSE Blank
<1>2. op[o].voice \in Voices /\ st \in Statuses /\ n \in Called
  BY <1>1 DEF Posts, StatusOf, Statuses
<1>3. book' = [book EXCEPT ![op[o].voice].status = st, ![op[o].voice].published = n]
  BY DEF Record, StatusOf
<1>4. Decided(op[o].voice, st, n)
  <2> HIDE DEF st, n
  <2> QED
    BY <1>2, <1>3, DecidedRows
<1>5. op' = [op EXCEPT ![o] = Idle] /\ op[o].pc \in {"enrolled", "failed"}
  BY DEF Record
<1> QED
  BY <1>1, <1>4, <1>5 DEF Typed

-----------------------------------------------------------------------------
(* Types.                                                                  *)

LEMMA TypedStep == ASSUME Typed, [Next]_vars PROVE Typed'
<1>1. Blank \in Called /\ Model \in Called
  BY DEF Called
<1> DEFINE Speech == /\ count \in [renames : Nat, crashes : Nat, publishes : Nat, deletions : Nat]
                     /\ count.crashes <= MaxCrash /\ stream \in 1..(count.crashes + 1)
                     /\ tier \in [Streams -> [Slots -> Voices \cup {NoOne}]]
                     /\ heard \in [Slots -> SUBSET Pieces]
           History == /\ lastName \in [Voices -> Called]
                      /\ named \subseteq Slots /\ moved \subseteq Pieces \X Slots
                      /\ promised \in [Voices -> SUBSET Pieces]
           Registry == /\ reviewerNames \in [Slots -> Called] /\ copied \in [Slots -> Called]
                       /\ rows \in [Slots -> Called] /\ book \in [Voices -> Rows]
                       /\ fpc \in {"recording", "synced", "copied", "staged", "ended"}
           Service == /\ shared \in [Voices -> [name : Called, speech : SUBSET Pieces]]
                      /\ late \subseteq Posts /\ op \in [Operators -> {Idle} \cup Posts]
<1>0. /\ Typed <=> Speech /\ History /\ Registry /\ Service
      /\ Typed' <=> Speech' /\ History' /\ Registry' /\ Service'
  BY DEF Typed
<1>2. Speech /\ UNCHANGED <<speech, count>> => Speech'
  BY DEF speech
<1>3. Service /\ UNCHANGED serviceVars => Service'
  BY DEF serviceVars
<1>4. History /\ UNCHANGED history => History'
  BY DEF history
<1>5. /\ Registry /\ UNCHANGED registryVars => Registry'
      /\ UNCHANGED registryVars => UNCHANGED <<speech, history>>
  BY DEF registryVars
<1>6. ASSUME NEW k \in {"renames", "publishes", "deletions"}, Bump(k), UNCHANGED speech
      PROVE  Speech'
  <2>1. count' = [count EXCEPT ![k] = count[k] + 1]
    BY <1>6 DEF Bump
  <2>2. /\ count' \in [renames : Nat, crashes : Nat, publishes : Nat, deletions : Nat]
        /\ count'.crashes = count.crashes
    <3>1. CASE k = "renames"
      BY <1>0, <2>1, <3>1
    <3>2. CASE k = "publishes"
      BY <1>0, <2>1, <3>2
    <3>3. CASE k = "deletions"
      BY <1>0, <2>1, <3>3
    <3> QED
      BY <3>1, <3>2, <3>3
  <2> QED
    BY <1>0, <1>6, <2>2 DEF speech
<1> HIDE DEF Speech, History, Registry, Service
<1>7. ASSUME NEW s \in Slots, Speak(s) PROVE Typed'
  <2>1. stream \in Streams
    BY OnAStream
  <2>2. heard' = [heard EXCEPT ![s] = heard[s] \cup {<<stream, s>>}]
        /\ UNCHANGED <<stream, tier, count>>
    BY <1>7 DEF Speak
  <2>3. <<stream, s>> \in Pieces
    BY <2>1 DEF Pieces
  <2>4. Speech'
    BY <1>0, <2>2, <2>3 DEF Speech
  <2>5. History' /\ Service' /\ Registry'
    BY <1>0, <1>3, <1>4, <1>7 DEF Speak, Registry
  <2> QED
    BY <1>0, <2>4, <2>5
<1>8. ASSUME NEW from \in Slots, NEW to \in Slots, NEW n \in Names \cup {Blank}, Rename(from, to, n)
      PROVE  Typed'
  <2>1. n \in Called
    BY DEF Called
  <2>2. Registry'
    BY <1>0, <1>1, <1>8, <2>1, Merges, RenamedRows DEF Registry
  <2>3. Speech'
    BY <1>0, <1>8, Merges DEF Speech
  <2>4. Service'
    BY <1>0, <1>3, <1>8, Merges
  <2>5. lastName' \in [Voices -> Called]
    <3>1. /\ lastName' = [v \in Voices |-> lastName'[v]]
          /\ \A v \in Voices : lastName'[v] \in {n, Blank, lastName[v]}
      BY <1>8, LastNames
    <3> QED
      BY <1>0, <1>1, <2>1, <3>1 DEF History
  <2>6. History'
    BY <1>0, <1>8, <2>5, Merges DEF History
  <2> QED
    BY <1>0, <2>2, <2>3, <2>4, <2>6
<1>9. CASE Sync
  BY <1>0, <1>2, <1>3, <1>4, <1>9, SyncedRows DEF Sync, Registry
<1>10. CASE Copy
  <2>1. \A v \in Voices : Evidence(Slotted(v)) \in SUBSET Pieces
    BY <1>0 DEF Evidence, Slotted, Speech
  <2>2. promised' \in [Voices -> SUBSET Pieces]
    BY <1>0, <1>10, <2>1 DEF Copy, History
  <2> QED
    BY <1>0, <1>2, <1>3, <1>10, <2>2 DEF Copy, History, Registry
<1>11. CASE Stage
  BY <1>0, <1>2, <1>3, <1>4, <1>11, StagedRows DEF Stage, Registry
<1>12. CASE End
  BY <1>0, <1>2, <1>3, <1>4, <1>12 DEF End, Registry
<1>13. CASE Crash
  <2>1. op' \in [Operators -> {Idle} \cup Posts]
    BY <1>13 DEF Crash
  <2>2. late' \subseteq Posts
    <3>1. \A o \in Operators : op[o].pc = "posting" => op[o] \in Posts
      BY InHand
    <3> QED
      BY <1>0, <1>13, <3>1 DEF Crash, Service
  <2>3. reviewerNames' \in [Slots -> Called] /\ copied' \in [Slots -> Called]
    BY <1>1, <1>13 DEF Crash
  <2>4. Service'
    BY <1>0, <1>13, <2>1, <2>2, Crashes DEF Service
  <2>5. Speech' /\ History'
    BY <1>0, <1>13, Crashes DEF Speech, History
  <2>6. Registry'
    BY <1>0, <1>13, <2>3, Crashes DEF Registry, NewStream
  <2> QED
    BY <1>0, <2>4, <2>5, <2>6
<1>14. ASSUME NEW v \in Voices, SaveSessionOnly(v) PROVE Typed'
  <2>1. Decided(v, "session_only", Blank)
    BY <1>1, <1>14, DecidedRows DEF SaveSessionOnly, Statuses
  <2>2. Speech'
    BY <1>6, <1>14 DEF SaveSessionOnly
  <2> QED
    BY <1>0, <1>3, <1>4, <1>14, <2>1, <2>2 DEF Decided, Registry, SaveSessionOnly
<1>15. ASSUME NEW o \in Operators, NEW v \in Voices, NEW n \in Names \cup {Blank},
              BeginPublish(o, v, n)
       PROVE  Typed'
  <2>1. Speech'
    BY <1>5, <1>6, <1>15 DEF BeginPublish
  <2>2. Service'
    BY <1>0, <1>15, BeginsPosting DEF BeginPublish, Service
  <2> QED
    BY <1>0, <1>4, <1>5, <1>15, <2>1, <2>2 DEF BeginPublish
<1>16. ASSUME NEW o \in Operators, Answered(o) \/ Refused(o) \/ Unanswered(o) PROVE Typed'
  <2>1. /\ op[o].pc = "posting" /\ UNCHANGED <<registryVars, deleted, count>>
        /\ \E pc \in {"enrolled", "failed"} : op' = [op EXCEPT ![o].pc = pc]
        /\ Enrols(op[o]) \/ UNCHANGED shared
        /\ late' \in {late, late \cup {op[o]}}
    BY <1>16 DEF Answered, Refused, Unanswered
  <2>2. op[o] \in Posts
    BY <2>1, InHand
  <2>3. op' \in [Operators -> {Idle} \cup Posts]
    BY <2>1, Proceeds
  <2>4. shared' \in [Voices -> [name : Called, speech : SUBSET Pieces]]
    BY <1>0, <2>1, <2>2, Served DEF Service
  <2>5. Service'
    BY <1>0, <2>1, <2>2, <2>3, <2>4 DEF Service
  <2> QED
    BY <1>0, <1>2, <1>4, <1>5, <2>1, <2>5
<1>17. ASSUME NEW o \in Operators, Record(o) PROVE Typed'
  <2>1. book' \in [Voices -> Rows] /\ op' \in [Operators -> {Idle} \cup Posts]
    BY <1>17, Records DEF Decided
  <2> QED
    BY <1>0, <1>2, <1>4, <1>17, <2>1 DEF Record, Registry, Service
<1>18. ASSUME NEW post \in late, ServeLate(post) PROVE Typed'
  <2>1. post \in Posts
    BY <1>0 DEF Service
  <2>2. shared' \in [Voices -> [name : Called, speech : SUBSET Pieces]]
    BY <1>18, <2>1, Served DEF ServeLate
  <2> QED
    BY <1>0, <1>2, <1>4, <1>5, <1>18, <2>2 DEF ServeLate, Service
<1>19. ASSUME NEW n \in Names, DeleteGlobal(n) PROVE Typed'
  <2>1. NoSample \in [name : Called, speech : SUBSET Pieces]
    BY <1>1 DEF NoSample
  <2>2. shared' \in [Voices -> [name : Called, speech : SUBSET Pieces]]
    BY <1>0, <1>19, <2>1 DEF Service, DeleteGlobal
  <2>3. Speech'
    BY <1>5, <1>6, <1>19 DEF DeleteGlobal
  <2> QED
    BY <1>0, <1>4, <1>5, <1>19, <2>2, <2>3 DEF Service, DeleteGlobal
<1>20. CASE UNCHANGED vars
  BY <1>20 DEF Typed, vars
<1> QED
  BY <1>7, <1>8, <1>9, <1>10, <1>11, <1>12, <1>13, <1>14, <1>15, <1>16, <1>17, <1>18, <1>19, <1>20
     DEF Next

-----------------------------------------------------------------------------
(* The streams.                                                            *)

\* A slot of a new stream was never another's, and neither was its voice.
LEMMA NewSlots ==
    ASSUME Typed, Lineage, "streams" \notin Races, NEW new \in [Slots -> Voices \cup {NoOne}],
           NewStream(new), NEW s \in Slots, new[s] # NoOne
    PROVE  /\ \A k \in Streams, r \in Slots : <<k, s>> \notin heard[r]
           /\ \A k \in Streams : tier[k][s] = NoOne
           /\ rows[s] = Blank /\ heard[s] = {}
           /\ \A k \in Streams, t \in Slots : tier[k][t] # new[s]
           /\ book[new[s]] = Nobody
<1>1. ~TakenSlot(s, stream + 1) /\ ~TakenVoice(new[s]) /\ stream \in Nat /\ 1..stream \subseteq Streams
  BY OnAStream DEF NewStream, StreamAllowed, Typed
<1>2. /\ \A k \in 1..stream : tier[k][s] = NoOne /\ \A r \in Slots : <<k, s>> \notin heard[r]
      /\ \A k \in 1..stream, t \in Slots : tier[k][t] # new[s]
      /\ book[new[s]] = Nobody
  BY <1>1 DEF TakenSlot, TakenVoice, Owns
<1>3. \A k \in Streams : k \in Nat /\ (k \in 1..stream \/ k > stream)
  BY <1>1 DEF Streams
<1>4. ASSUME NEW k \in Streams, NEW r \in Slots, <<k, s>> \in heard[r] PROVE FALSE
  <2>1. k <= stream
    BY <1>4 DEF Lineage, WordsAreFiled
  <2>2. k \in 1..stream
    BY <1>1, <1>3, <2>1
  <2> QED
    BY <1>2, <1>4, <2>2
<1>5. /\ \A k \in Streams : tier[k][s] = NoOne
      /\ \A k \in Streams, t \in Slots : tier[k][t] # new[s]
  BY <1>2, <1>3 DEF Lineage, FutureIsSilent
<1>6. rows[s] = Blank /\ heard[s] = {}
  BY <1>4 DEF Lineage, NamedWasHeard
<1> QED
  BY <1>2, <1>4, <1>5, <1>6

LEMMA LineageStep == ASSUME Typed, Lineage, [Next]_vars, "streams" \notin Races PROVE Lineage'
<1>0. stream \in Streams /\ stream \in Nat /\ heard \in [Slots -> SUBSET Pieces]
  BY OnAStream DEF Typed
<1>1. CASE UNCHANGED <<speech, rows, moved>>
  BY <1>1 DEF speech, Lineage, FutureIsSilent, WordsAreFiled, NoSlotTwice, NoVoiceTwice, NamedWasHeard
<1>2. ASSUME NEW s \in Slots, Speak(s) PROVE Lineage'
  <2>1. /\ UNCHANGED <<stream, tier, rows, moved>> /\ ~TakenSlot(s, stream)
        /\ \A r \in Slots : r # s => heard'[r] = heard[r]
        /\ heard'[s] = heard[s] \cup {<<stream, s>>}
    <3>1. /\ heard' = [heard EXCEPT ![s] = heard[s] \cup {<<stream, s>>}]
          /\ UNCHANGED <<stream, tier, rows, moved>>
      BY <1>2 DEF Speak, history
    <3>2. ~TakenSlot(s, stream)
      BY <1>2 DEF Speak, SpeakAllowed
    <3>3. heard'[s] = heard[s] \cup {<<stream, s>>}
      BY <1>0, <3>1
    <3>4. \A r \in Slots : r # s => heard'[r] = heard[r]
      BY <1>0, <3>1
    <3> QED
      BY <3>1, <3>2, <3>3, <3>4
  <2>2. \A r, t \in Slots, k \in Streams :
          <<k, t>> \in heard'[r] => <<k, t>> \in heard[r] \/ (r = s /\ t = s /\ k = stream)
    BY <2>1
  <2>3. FutureIsSilent' /\ NoVoiceTwice'
    BY <2>1 DEF Lineage, FutureIsSilent, NoVoiceTwice
  <2>4. WordsAreFiled'
    BY <1>0, <2>1, <2>2 DEF Lineage, WordsAreFiled
  <2>5. \A k \in Streams : tier[k][s] # NoOne => k = stream
    <3>1. \A k \in 1..(stream - 1) : tier[k][s] = NoOne
      BY <2>1 DEF TakenSlot
    <3>2. \A k \in Streams : k > stream => tier[k][s] = NoOne
      BY DEF Lineage, FutureIsSilent
    <3> QED
      BY <1>0, <3>1, <3>2 DEF Streams
  <2>6. NoSlotTwice'
    <3>1. \A k, m \in Streams, t \in Slots :
            (\E r \in Slots : <<m, t>> \in heard'[r]) =>
              (\E r \in Slots : <<m, t>> \in heard[r]) \/ (t = s /\ m = stream)
      BY <2>2
    <3> QED
      BY <2>1, <2>5, <3>1 DEF Lineage, NoSlotTwice
  <2>7. NamedWasHeard'
    <3>1. ASSUME NEW t \in Slots, heard'[t] # {} \/ rows'[t] # Blank
          PROVE  \E k \in Streams, r \in Slots : <<k, t>> \in heard'[r]
      <4>1. CASE t = s
        BY <1>0, <2>1, <4>1
      <4>2. CASE t # s
        <5>1. PICK k \in Streams, r \in Slots : <<k, t>> \in heard[r]
          BY <2>1, <3>1, <4>2 DEF Lineage, NamedWasHeard
        <5> QED
          BY <2>1, <5>1
      <4> QED
        BY <4>1, <4>2
    <3> QED
      BY <3>1 DEF NamedWasHeard
  <2> QED
    BY <2>3, <2>4, <2>6, <2>7 DEF Lineage
<1>3. ASSUME NEW from \in Slots, NEW to \in Slots, NEW n \in Names \cup {Blank}, Rename(from, to, n)
      PROVE  Lineage'
  <2>1. /\ UNCHANGED <<stream, tier>> /\ moved \subseteq moved'
        /\ \A s \in Slots : \/ heard'[s] = heard[s]
                            \/ s = to /\ from # to /\ heard'[s] = heard[to] \cup heard[from]
                            \/ s = from /\ from # to /\ heard'[s] = {}
        /\ from # to => heard'[to] = heard[to] \cup heard[from]
        /\ from # to => \A p \in heard[from] : <<p, to>> \in moved'
        /\ rows' = [s \in Slots |-> IF s = to THEN n ELSE IF s = from THEN Blank ELSE rows[s]]
        /\ heard[from] # {} /\ heard[to] # {}
    BY <1>3, Merges
  <2>2. \A r, t \in Slots, k \in Streams :
          <<k, t>> \in heard'[r] =>
            <<k, t>> \in heard[r] \/ (r = to /\ from # to /\ <<k, t>> \in heard[from])
    BY <2>1
  <2>3. \A r, t \in Slots, k \in Streams :
          <<k, t>> \in heard[r] => \E q \in Slots : <<k, t>> \in heard'[q]
    <3>1. ASSUME NEW r \in Slots, NEW t \in Slots, NEW k \in Streams, <<k, t>> \in heard[r]
          PROVE  <<k, t>> \in heard'[r] \/ <<k, t>> \in heard'[to]
      BY <2>1, <3>1
    <3> QED
      BY <3>1
  <2>4. FutureIsSilent' /\ NoVoiceTwice'
    BY <2>1 DEF Lineage, FutureIsSilent, NoVoiceTwice
  <2>5. WordsAreFiled'
    BY <2>1, <2>2 DEF Lineage, WordsAreFiled
  <2>6. NoSlotTwice'
    <3>1. \A m \in Streams, t \in Slots :
            (\E r \in Slots : <<m, t>> \in heard'[r]) => (\E r \in Slots : <<m, t>> \in heard[r])
      BY <2>2
    <3> QED
      BY <2>1, <3>1 DEF Lineage, NoSlotTwice
  <2>7. NamedWasHeard'
    <3>1. ASSUME NEW t \in Slots, heard'[t] # {} \/ rows'[t] # Blank
          PROVE  \E k \in Streams, r \in Slots : <<k, t>> \in heard'[r]
      <4>1. heard[t] # {} \/ rows[t] # Blank
        BY <2>1, <3>1
      <4>2. PICK k \in Streams, r \in Slots : <<k, t>> \in heard[r]
        BY <4>1 DEF Lineage, NamedWasHeard
      <4> QED
        BY <2>3, <4>2
    <3> QED
      BY <3>1 DEF NamedWasHeard
  <2> QED
    BY <2>4, <2>5, <2>6, <2>7 DEF Lineage
<1>4. CASE Crash
  <2>1. UNCHANGED <<heard, rows, moved>>
    BY <1>4, Crashes
  <2>2. CASE UNCHANGED <<stream, tier>>
    BY <1>1, <2>1, <2>2 DEF speech
  <2>3. ASSUME NEW new \in [Slots -> Voices \cup {NoOne}], NewStream(new) PROVE Lineage'
    <3>1. /\ stream' = stream + 1 /\ stream' \in Streams
          /\ \A k \in Streams : tier'[k] = IF k = stream' THEN new ELSE tier[k]
      BY <2>3 DEF NewStream
    <3>2. /\ \A s \in Slots : new[s] # NoOne => \A k \in Streams : tier[k][s] = NoOne
          /\ \A s \in Slots : new[s] # NoOne => \A k \in Streams, r \in Slots : <<k, s>> \notin heard[r]
          /\ \A s \in Slots : new[s] # NoOne => \A k \in Streams, t \in Slots : tier[k][t] # new[s]
      BY <2>3, NewSlots
    <3>3. FutureIsSilent'
      BY <1>0, <3>1 DEF Lineage, FutureIsSilent, Streams
    <3>4. WordsAreFiled'
      BY <1>0, <2>1, <3>1 DEF Lineage, WordsAreFiled, Streams
    <3>5. NoSlotTwice'
      BY <2>1, <3>1, <3>2 DEF Lineage, NoSlotTwice
    <3>6. NoVoiceTwice'
      BY <3>1, <3>2 DEF Lineage, NoVoiceTwice
    <3>7. NamedWasHeard'
      BY <2>1 DEF Lineage, NamedWasHeard
    <3> QED
      BY <3>3, <3>4, <3>5, <3>6, <3>7 DEF Lineage
  <2> QED
    BY <1>4, <2>2, <2>3, Crashes
<1> QED
  BY <1>1, <1>2, <1>3, <1>4, SpeechMoves

-----------------------------------------------------------------------------
(* Vouching.                                                               *)

\* What is already somebody's own speech stays so.
LEMMA VouchingLasts ==
    ASSUME Typed, [Next]_vars, NEW v \in Voices, NEW x, OwnSpeech(v, x)
    PROVE  OwnSpeech(v, x)'
<1>1. /\ 1..stream \subseteq 1..stream' /\ \A k \in 1..stream : tier'[k] = tier[k]
      /\ named \subseteq named' /\ moved \subseteq moved'
  BY SpeechLasts
<1>2. PICK k \in 1..stream :
        /\ \A p \in x : \/ p[1] = k /\ tier[k][p[2]] = v
                        \/ \E s \in Slots : <<p, s>> \in moved /\ tier[k][s] = v
        /\ \E s \in named : tier[k][s] = v
  BY DEF OwnSpeech
<1>3. k \in 1..stream' /\ tier'[k] = tier[k]
  BY <1>1
<1>4. \A p \in x : \/ p[1] = k /\ tier'[k][p[2]] = v
                  \/ \E s \in Slots : <<p, s>> \in moved' /\ tier'[k][s] = v
  BY <1>1, <1>2, <1>3
<1>5. \E s \in named' : tier'[k][s] = v
  BY <1>1, <1>2, <1>3
<1> QED
  BY <1>3, <1>4, <1>5 DEF OwnSpeech

\* What Stage pins is the speech the tier's stream gave the voice, or that a reviewer
\* merged into it.
LEMMA PinnedIsOwn ==
    ASSUME Typed, Lineage, NEW v \in Voices, NEW s \in Slotted(v), s \in named
    PROVE  OwnSpeech(v, Evidence(Slotted(v)))
<1>1. stream \in Streams /\ stream \in 1..stream /\ heard \in [Slots -> SUBSET Pieces] /\ v # NoOne
  BY OnAStream, NoOneAssumption DEF Typed
<1>2. ASSUME NEW p \in Evidence(Slotted(v))
      PROVE  \/ p[1] = stream /\ tier[stream][p[2]] = v
             \/ \E t \in Slots : <<p, t>> \in moved /\ tier[stream][t] = v
  <2>1. PICK r \in Slots : tier[stream][r] = v /\ p \in heard[r]
    BY DEF Evidence, Slotted
  <2>2. PICK k \in Streams, t \in Slots : p = <<k, t>>
    BY <1>1, <2>1 DEF Pieces
  <2>3. t = r \/ <<p, r>> \in moved
    BY <2>1, <2>2 DEF Lineage, WordsAreFiled
  <2>4. t = r => k = stream
    BY <1>1, <2>1, <2>2 DEF Lineage, NoSlotTwice
  <2> QED
    BY <2>1, <2>2, <2>3, <2>4
<1>3. \E t \in named : tier[stream][t] = v
  BY DEF Slotted
<1> DEFINE x == Evidence(Slotted(v))
<1>4. \A p \in x : \/ p[1] = stream /\ tier[stream][p[2]] = v
                  \/ \E t \in Slots : <<p, t>> \in moved /\ tier[stream][t] = v
  BY <1>2
<1> HIDE DEF x
<1>5. OwnSpeech(v, x)
  BY <1>1, <1>3, <1>4 DEF OwnSpeech
<1> QED
  BY <1>5 DEF x

LEMMA VouchingStep == ASSUME Typed, Lineage, Vouching, [Next]_vars PROVE Vouching'
<1>1. named \subseteq named'
  BY SpeechLasts
<1>2. \A v \in Voices : \A x : OwnSpeech(v, x) => OwnSpeech(v, x)'
  BY VouchingLasts
<1>3. ASSUME UNCHANGED <<reviewerNames, copied>> PROVE (\A s \in Slots : reviewerNames[s] # Blank \/ copied[s] # Blank => s \in named)'
  BY <1>1, <1>3 DEF Vouching
<1>4. ASSUME UNCHANGED book PROVE (\A v \in Voices : book[v].evidence # {} => OwnSpeech(v, book[v].evidence))'
  BY <1>2, <1>4 DEF Vouching
<1>5. ASSUME UNCHANGED op PROVE (\A o \in Operators : op[o].pc = "posting" => OwnSpeech(op[o].voice, op[o].speech))'
  <2>1. \A o \in Operators : op[o].pc = "posting" => op[o].voice \in Voices
    BY InHand DEF Posts
  <2> QED
    BY <1>2, <1>5, <2>1 DEF Vouching
<1>6. ASSUME UNCHANGED late PROVE (\A post \in late : OwnSpeech(post.voice, post.speech))'
  BY <1>2, <1>6 DEF Vouching, Typed, Posts
<1>7. ASSUME UNCHANGED shared PROVE (\A v \in Voices : shared[v] # NoSample => OwnSpeech(v, shared[v].speech))'
  BY <1>2, <1>7 DEF Vouching
<1>8. ASSUME UNCHANGED <<reviewerNames, copied>>, UNCHANGED serviceVars,
             \A v \in Voices : book'[v].evidence \in {book[v].evidence, {}} \/ OwnSpeech(v, book'[v].evidence)
      PROVE  Vouching'
  <2>1. (\A v \in Voices : book[v].evidence # {} => OwnSpeech(v, book[v].evidence))'
    BY <1>2, <1>8 DEF Vouching
  <2> QED
    BY <1>3, <1>5, <1>6, <1>7, <1>8, <2>1 DEF Vouching, serviceVars
<1>9. ASSUME NEW from \in Slots, NEW to \in Slots, NEW n \in Names \cup {Blank}, Rename(from, to, n)
      PROVE  Vouching'
  <2>1. \A v \in Voices : book'[v].evidence = book[v].evidence
    BY <1>9, RenamedRows DEF Renamed
  <2>2. (\A t \in Slots : reviewerNames[t] # Blank \/ copied[t] # Blank => t \in named)'
    BY <1>1, <1>9, Merges DEF Vouching
  <2>3. (\A v \in Voices : book[v].evidence # {} => OwnSpeech(v, book[v].evidence))'
    BY <1>2, <2>1 DEF Vouching
  <2> QED
    BY <1>5, <1>6, <1>7, <1>9, <2>2, <2>3, Merges DEF serviceVars, Vouching
<1>10. CASE Sync
  BY <1>8, <1>10, SyncedRows DEF Sync, Synced
<1>11. CASE Copy
  <2>1. (\A t \in Slots : reviewerNames[t] # Blank \/ copied[t] # Blank => t \in named)'
    BY <1>11 DEF Copy, Vouching
  <2> QED
    BY <1>4, <1>5, <1>6, <1>7, <1>11, <2>1 DEF Copy, serviceVars, Vouching
<1>12. CASE Stage
  <2>1. ASSUME NEW v \in Voices PROVE book'[v].evidence = book[v].evidence \/ OwnSpeech(v, book'[v].evidence)
    <3>1. CASE book'[v] = book[v]
      BY <3>1
    <3>2. CASE \E n \in Called \ {Blank} : Staged(v, n)
      <4>1. PICK s \in Slotted(v) : copied[s] # Blank
        BY <3>2 DEF Staged, GivenNames
      <4>2. s \in named
        BY <4>1 DEF Vouching, Slotted
      <4>3. OwnSpeech(v, Evidence(Slotted(v)))
        BY <4>2, PinnedIsOwn
      <4> QED
        BY <3>2, <4>3 DEF Staged
    <3> QED
      BY <1>12, <3>1, <3>2, StagedRows
  <2> QED
    BY <1>8, <1>12, <2>1 DEF Stage
<1>13. ASSUME End \/ \E s \in Slots : Speak(s) PROVE Vouching'
  BY <1>8, <1>13 DEF End, Speak
<1>14. CASE Crash
  <2>1. (\A s \in Slots : reviewerNames[s] # Blank \/ copied[s] # Blank => s \in named)'
    BY <1>14 DEF Crash
  <2>2. (\A o \in Operators : op[o].pc = "posting" => OwnSpeech(op[o].voice, op[o].speech))'
    BY <1>14 DEF Crash, Idle
  <2>3. (\A post \in late : OwnSpeech(post.voice, post.speech))'
    <3>1. ASSUME NEW post \in late' PROVE post.voice \in Voices /\ OwnSpeech(post.voice, post.speech)
      <4>1. CASE post \in late
        BY <4>1 DEF Vouching, Typed, Posts
      <4>2. CASE \E o \in Operators : post = op[o] /\ op[o].pc = "posting"
        BY <4>2, InHand DEF Vouching, Posts
      <4> QED
        BY <1>14, <3>1, <4>1, <4>2 DEF Crash
    <3> QED
      BY <1>2, <3>1
  <2> QED
    BY <1>4, <1>7, <1>14, <2>1, <2>2, <2>3, Crashes DEF Vouching
<1>15. ASSUME NEW v \in Voices, SaveSessionOnly(v) PROVE Vouching'
  <2>1. Decided(v, "session_only", Blank)
    BY <1>15, DecidedRows DEF SaveSessionOnly, Statuses, Called
  <2> QED
    BY <1>8, <1>15, <2>1 DEF Decided, SaveSessionOnly
<1>16. ASSUME NEW o \in Operators, NEW v \in Voices, NEW n \in Names \cup {Blank},
              BeginPublish(o, v, n)
       PROVE  Vouching'
  <2>1. (\A q \in Operators : op[q].pc = "posting" => OwnSpeech(op[q].voice, op[q].speech))'
    <3>1. ASSUME NEW q \in Operators, op'[q].pc = "posting"
          PROVE  op'[q].voice \in Voices /\ OwnSpeech(op'[q].voice, op'[q].speech)
      <4>1. CASE q = o
        BY <1>16, <4>1, BeginsPosting DEF Vouching
      <4>2. CASE q # o
        <5>1. op'[q] = op[q]
          BY <1>16, <4>2, BeginsPosting
        <5> QED
          BY <3>1, <5>1, InHand DEF Vouching, Posts
      <4> QED
        BY <4>1, <4>2
    <3> QED
      BY <1>2, <3>1
  <2> QED
    BY <1>3, <1>4, <1>6, <1>7, <1>16, <2>1 DEF BeginPublish, registryVars, Vouching
<1>17. ASSUME NEW o \in Operators, Answered(o) \/ Refused(o) \/ Unanswered(o) PROVE Vouching'
  <2>1. /\ op[o].pc = "posting" /\ UNCHANGED registryVars
        /\ \E pc \in {"enrolled", "failed"} : op' = [op EXCEPT ![o].pc = pc]
        /\ Enrols(op[o]) \/ UNCHANGED shared
        /\ late' \in {late, late \cup {op[o]}}
    BY <1>17 DEF Answered, Refused, Unanswered
  <2>2. op[o] \in Posts /\ OwnSpeech(op[o].voice, op[o].speech)
    BY <2>1, InHand DEF Vouching
  <2>3. (\A q \in Operators : op[q].pc = "posting" => OwnSpeech(op[q].voice, op[q].speech))'
    <3>1. ASSUME NEW q \in Operators, op'[q].pc = "posting" PROVE q # o /\ op'[q] = op[q]
      BY <2>1, <3>1, Proceeds
    <3> QED
      BY <1>2, <3>1, InHand DEF Vouching, Posts
  <2>4. (\A post \in late : OwnSpeech(post.voice, post.speech))'
    <3>1. ASSUME NEW post \in late' PROVE post.voice \in Voices /\ OwnSpeech(post.voice, post.speech)
      BY <2>1, <2>2, <3>1 DEF Vouching, Typed, Posts
    <3> QED
      BY <1>2, <3>1
  <2>5. (\A v \in Voices : shared[v] # NoSample => OwnSpeech(v, shared[v].speech))'
    <3>1. ASSUME NEW v \in Voices, shared'[v] # NoSample PROVE OwnSpeech(v, shared'[v].speech)
      BY <2>1, <2>2, <3>1, Served DEF Vouching
    <3> QED
      BY <1>2, <3>1
  <2> QED
    BY <1>3, <1>4, <2>1, <2>3, <2>4, <2>5 DEF registryVars, Vouching
<1>18. ASSUME NEW o \in Operators, Record(o) PROVE Vouching'
  <2>2. \A v \in Voices : book'[v].evidence = book[v].evidence
    BY <1>18, Records DEF Decided
  <2>3. (\A v \in Voices : book[v].evidence # {} => OwnSpeech(v, book[v].evidence))'
    BY <1>2, <2>2 DEF Vouching
  <2>4. (\A q \in Operators : op[q].pc = "posting" => OwnSpeech(op[q].voice, op[q].speech))'
    <3>1. ASSUME NEW q \in Operators, op'[q].pc = "posting" PROVE op'[q] = op[q]
      BY <1>18, <3>1 DEF Record, Typed, Idle
    <3> QED
      BY <1>2, <3>1, InHand DEF Vouching, Posts
  <2> QED
    BY <1>3, <1>6, <1>7, <1>18, <2>3, <2>4 DEF Record, Vouching
<1>19. ASSUME NEW post \in late, ServeLate(post) PROVE Vouching'
  <2>1. (\A p \in late : OwnSpeech(p.voice, p.speech))'
    BY <1>2, <1>19 DEF ServeLate, Vouching, Typed, Posts
  <2>2. (\A v \in Voices : shared[v] # NoSample => OwnSpeech(v, shared[v].speech))'
    <3>1. ASSUME NEW v \in Voices, shared'[v] # NoSample PROVE OwnSpeech(v, shared'[v].speech)
      <4>1. post \in Posts /\ OwnSpeech(post.voice, post.speech) /\ Enrols(post)
        BY <1>19 DEF Typed, Vouching, ServeLate
      <4> QED
        BY <3>1, <4>1, Served DEF Vouching
    <3> QED
      BY <1>2, <3>1
  <2> QED
    BY <1>3, <1>4, <1>5, <1>19, <2>1, <2>2 DEF ServeLate, registryVars, Vouching
<1>20. ASSUME NEW n \in Names, DeleteGlobal(n) PROVE Vouching'
  <2>1. \A v \in Voices : shared'[v] \in {shared[v], NoSample}
    BY <1>20 DEF DeleteGlobal, Typed
  <2>2. (\A v \in Voices : shared[v] # NoSample => OwnSpeech(v, shared[v].speech))'
    BY <1>2, <2>1 DEF Vouching
  <2> QED
    BY <1>3, <1>4, <1>5, <1>6, <1>20, <2>2 DEF DeleteGlobal, registryVars, Vouching
<1>21. CASE UNCHANGED vars
  BY <1>8, <1>21 DEF vars, serviceVars
<1> QED
  BY <1>9, <1>10, <1>11, <1>12, <1>13, <1>14, <1>15, <1>16, <1>17, <1>18, <1>19, <1>20, <1>21 DEF Next
-----------------------------------------------------------------------------
(* Publishing.                                                             *)

\* What a handler has in hand after a step it had before, unless it just began.
LEMMA HandsMove ==
    ASSUME Typed, [Next]_vars, NEW o \in Operators, op'[o] # Idle
    PROVE  \/ op[o] # Idle /\ op'[o].voice = op[o].voice
           \/ /\ PublishAllowed(op'[o].voice) /\ op'[o].voice \in Voices
              /\ InBook(op'[o].voice)
              /\ \A q \in Operators \ {o} : op'[q] = op[q]
<1>1. CASE UNCHANGED op
  BY <1>1
<1>2. ASSUME NEW q \in Operators, NEW v \in Voices, NEW n \in Names \cup {Blank},
             BeginPublish(q, v, n)
      PROVE  \/ op[o] # Idle /\ op'[o].voice = op[o].voice
             \/ /\ PublishAllowed(op'[o].voice) /\ op'[o].voice \in Voices
                /\ InBook(op'[o].voice)
                /\ \A r \in Operators \ {o} : op'[r] = op[r]
  BY <1>2, BeginsPosting
<1>3. ASSUME NEW q \in Operators, Answered(q) \/ Refused(q) \/ Unanswered(q)
      PROVE  op[o] # Idle /\ op'[o].voice = op[o].voice
  <2>1. op[q].pc = "posting" /\ \E pc \in {"enrolled", "failed"} : op' = [op EXCEPT ![q].pc = pc]
    BY <1>3 DEF Answered, Refused, Unanswered
  <2>2. op[q] # Idle
    BY <2>1, InHand
  <2> QED
    BY <2>1, <2>2, Proceeds
<1>4. ASSUME NEW q \in Operators, Record(q) PROVE op[o] # Idle /\ op'[o].voice = op[o].voice
  BY <1>4, Records
<1>5. CASE Crash
  BY <1>5 DEF Crash
<1> QED
  BY <1>1, <1>2, <1>3, <1>4, <1>5 DEF Next, Speak, Rename, Sync, Copy, Stage, End, SaveSessionOnly,
     ServeLate, DeleteGlobal, serviceVars, vars

LEMMA OnePublisherStep ==
    ASSUME Typed, OnePublisher, [Next]_vars, "publishers" \notin Races PROVE OnePublisher'
<1> SUFFICES ASSUME NEW o \in Operators, NEW q \in Operators, op'[o] # Idle, op'[q] # Idle,
                    op'[o].voice = op'[q].voice, o # q
             PROVE  FALSE
  BY DEF OnePublisher
<1>1. CASE op[o] # Idle /\ op'[o].voice = op[o].voice /\ op[q] # Idle /\ op'[q].voice = op[q].voice
  BY <1>1 DEF OnePublisher
<1>2. ASSUME NEW x \in Operators, NEW y \in Operators, x # y, op'[y] # Idle,
             PublishAllowed(op'[x].voice), op'[y].voice = op'[x].voice,
             \A r \in Operators \ {x} : op'[r] = op[r]
      PROVE  FALSE
  BY <1>2 DEF PublishAllowed, Publishing
<1>3. op[o] # Idle /\ op'[o].voice = op[o].voice
  BY <1>2, HandsMove
<1>4. op[q] # Idle /\ op'[q].voice = op[q].voice
  BY <1>2, HandsMove
<1> QED
  BY <1>1, <1>3, <1>4

LEMMA RecordedStep ==
    ASSUME Typed, Typed', OnePublisher, Recorded, [Next]_vars,
           Races \cap {"publishers", "late", "record"} = {}
    PROVE  Recorded'
<1>1. ASSUME UNCHANGED <<op, shared, deleted>>,
             \A v \in Voices : \/ book'[v].status = book[v].status /\ book'[v].published = book[v].published
                               \/ book'[v].status # "global_shared"
      PROVE  Recorded'
  BY <1>1 DEF Recorded, IsShared
<1>2. ASSUME NEW from \in Slots, NEW to \in Slots, NEW n \in Names \cup {Blank}, Rename(from, to, n)
      PROVE  Recorded'
  BY <1>1, <1>2, Merges, RenamedRows DEF Renamed, serviceVars
<1>3. CASE Sync
  BY <1>1, <1>3, SyncedRows DEF Sync, Synced, serviceVars
<1>4. ASSUME Copy \/ End \/ \E s \in Slots : Speak(s) PROVE Recorded'
  BY <1>1, <1>4 DEF Copy, End, Speak, serviceVars
<1>5. CASE Stage
  BY <1>1, <1>5, StagedRows DEF Stage, Staged, serviceVars
<1>6. CASE Crash
  <2>1. \A o \in Operators : op[o].pc \in {"idle", "posting"} /\ op'[o].pc = "idle"
    BY <1>6 DEF Crash, CrashAllowed, Idle
  <2> QED
    BY <1>6, <2>1 DEF Crash, Recorded, IsShared
<1>7. ASSUME NEW v \in Voices, SaveSessionOnly(v) PROVE Recorded'
  <2>1. Decided(v, "session_only", Blank)
    BY <1>7, DecidedRows DEF SaveSessionOnly, Statuses, Called
  <2> QED
    BY <1>1, <1>7, <2>1 DEF Decided, SaveSessionOnly, serviceVars
<1>8. ASSUME NEW o \in Operators, NEW v \in Voices, NEW n \in Names \cup {Blank},
             BeginPublish(o, v, n)
      PROVE  Recorded'
  <2>1. \A q \in Operators : op'[q].pc \in {"enrolled", "failed"} => op'[q] = op[q]
    BY <1>8, BeginsPosting
  <2>2. \A q \in Operators : op[q].pc \in {"enrolled", "failed"} => op'[q] = op[q]
    BY <1>8, BeginsPosting, InHand
  <2> QED
    BY <1>8, <2>1, <2>2 DEF BeginPublish, registryVars, Recorded, IsShared
<1>9. ASSUME NEW o \in Operators, Answered(o) \/ Refused(o) \/ Unanswered(o) PROVE Recorded'
  <2>1. /\ op[o].pc = "posting" /\ UNCHANGED <<book, deleted>>
        /\ Enrols(op[o]) \/ UNCHANGED shared
        /\ \/ op' = [op EXCEPT ![o].pc = "failed"]
           \/ /\ op' = [op EXCEPT ![o].pc = "enrolled"]
              /\ op[o].name \notin deleted /\ Enrols(op[o])
    BY <1>9 DEF Answered, Refused, Unanswered, Taken, registryVars
  <2>2. op[o] \in Posts /\ op[o] # Idle
    BY <2>1, InHand
  <2>3. /\ op'[o].pc \in {"failed", "enrolled"} /\ op'[o].voice = op[o].voice
        /\ op'[o].name = op[o].name
        /\ op'[o].pc = "enrolled" => shared'[op[o].voice].name = op[o].name
        /\ \A q \in Operators \ {o} : op'[q] = op[q]
    BY <2>1, <2>2, Proceeds, Served
  <2>4. \A v \in Voices : v # op[o].voice => shared'[v] = shared[v]
    BY <2>1, <2>2, Served
  <2>5. ASSUME NEW q \in Operators, op'[q].pc = "enrolled"
        PROVE  IsShared(op[q].voice, op[q].name)'
    <3>1. CASE q = o
      BY <2>3, <2>5, <3>1 DEF IsShared
    <3>2. CASE q # o
      <4>1. op[q] = op'[q] /\ op[q] # Idle /\ op[q] \in Posts
        BY <2>3, <2>5, <3>2, InHand
      <4>2. op[q].voice # op[o].voice
        BY <2>2, <3>2, <4>1 DEF OnePublisher
      <4> QED
        BY <2>1, <2>4, <2>5, <4>1, <4>2 DEF Recorded, IsShared, Posts
    <3> QED
      BY <3>1, <3>2
  <2>6. ASSUME NEW v \in Voices, book'[v].status = "global_shared",
               \A q \in Operators : op'[q].pc \in {"enrolled", "failed"} => op'[q].voice # v
        PROVE  IsShared(v, book[v].published)'
    <3>1. v # op[o].voice
      BY <2>3, <2>6
    <3>2. \A q \in Operators : op[q].pc \in {"enrolled", "failed"} => op[q].voice # v
      BY <2>1, <2>3, <2>6
    <3> QED
      BY <2>1, <2>4, <2>6, <3>1, <3>2 DEF Recorded, IsShared
  <2> QED
    BY <2>5, <2>6 DEF Recorded
<1>10. ASSUME NEW o \in Operators, Record(o) PROVE Recorded'
  <2>1. /\ op[o] \in Posts /\ op'[o] = Idle /\ \A q \in Operators \ {o} : op'[q] = op[q]
        /\ Decided(op[o].voice, StatusOf(op[o].pc),
                      IF op[o].pc = "enrolled" THEN op[o].name ELSE Blank)
        /\ UNCHANGED <<shared, deleted>>
    BY <1>10, Records DEF Record
  <2>2. ASSUME NEW q \in Operators, op'[q].pc = "enrolled"
        PROVE  IsShared(op[q].voice, op[q].name)'
    <3>1. op'[q] = op[q]
      BY <2>1, <2>2 DEF Idle
    <3> QED
      BY <2>1, <2>2, <3>1 DEF Recorded, IsShared
  <2>3. ASSUME NEW v \in Voices, book'[v].status = "global_shared",
               \A q \in Operators : op'[q].pc \in {"enrolled", "failed"} => op'[q].voice # v
        PROVE  IsShared(v, book[v].published)'
    <3>1. CASE v = op[o].voice
      <4>1. op[o].pc = "enrolled" /\ book'[v].published = op[o].name
        BY <2>1, <2>3, <3>1 DEF Decided, StatusOf
      <4> QED
        BY <2>1, <3>1, <4>1 DEF Recorded, IsShared
    <3>2. CASE v # op[o].voice
      <4>1. book'[v] = book[v] /\ \A q \in Operators : op[q].pc \in {"enrolled", "failed"} => op[q].voice # v
        BY <2>1, <2>3, <3>2 DEF Decided
      <4> QED
        BY <2>1, <2>3, <4>1 DEF Recorded, IsShared
    <3> QED
      BY <3>1, <3>2
  <2> QED
    BY <2>2, <2>3 DEF Recorded
<1>11. ASSUME NEW post \in late, ServeLate(post) PROVE Recorded'
  <2>1. /\ post \in Posts /\ Enrols(post) /\ ~Publishing(post.voice)
        /\ book[post.voice].status # "global_shared"
        /\ UNCHANGED <<book, op, deleted>>
    BY <1>11 DEF ServeLate, ServeAllowed, Typed, registryVars
  <2>2. \A v \in Voices : v # post.voice => shared'[v] = shared[v]
    BY <2>1, Served
  <2>3. \A q \in Operators : op[q].pc = "enrolled" => op[q].voice # post.voice /\ op[q].voice \in Voices
    BY <2>1, InHand DEF Publishing, Posts
  <2> QED
    BY <2>1, <2>2, <2>3 DEF Recorded, IsShared
<1>12. ASSUME NEW n \in Names, DeleteGlobal(n) PROVE Recorded'
  <2>1. \A v \in Voices : \A m : IsShared(v, m) => IsShared(v, m)'
    BY <1>12 DEF DeleteGlobal, IsShared, Typed
  <2>2. \A q \in Operators : op[q].pc = "enrolled" => op[q].voice \in Voices
    BY InHand DEF Posts
  <2> QED
    BY <1>12, <2>1, <2>2 DEF DeleteGlobal, registryVars, Recorded
<1>13. CASE UNCHANGED vars
  BY <1>1, <1>13 DEF vars, registryVars
<1> QED
  BY <1>2, <1>3, <1>4, <1>5, <1>6, <1>7, <1>8, <1>9, <1>10, <1>11, <1>12, <1>13 DEF Next
-----------------------------------------------------------------------------
(* The registry's rows.                                                    *)

\* What the tier gave a voice in the stream it is on is all it ever gave it.
LEMMA SlottedIsOwned ==
    ASSUME Typed, Lineage, NEW v \in Voices, Slotted(v) # {}
    PROVE  Slotted(v) = Owned(v)
<1>1. stream \in Streams /\ stream \in 1..stream /\ 1..stream \subseteq Streams /\ v # NoOne
  BY OnAStream, NoOneAssumption
<1>2. PICK t \in Slots : tier[stream][t] = v
  BY DEF Slotted
<1>3. ASSUME NEW s \in Slots, NEW k \in 1..stream, tier[k][s] = v PROVE tier[stream][s] = v
  BY <1>1, <1>2, <1>3 DEF Lineage, NoVoiceTwice
<1> QED
  BY <1>1, <1>3 DEF Slotted, Owned, Owns

\* Two voices do not own one slot.
LEMMA OneOwner ==
    ASSUME Typed, Lineage, NEW s \in Slots, NEW u \in Voices, NEW v \in Voices, Owns(u, s), Owns(v, s)
    PROVE  u = v
<1>1. 1..stream \subseteq Streams /\ u # NoOne /\ v # NoOne
  BY OnAStream, NoOneAssumption
<1>2. PICK k \in 1..stream, m \in 1..stream : tier[k][s] = u /\ tier[m][s] = v
  BY DEF Owns
<1> QED
  BY <1>1, <1>2 DEF Lineage, NoSlotTwice

\* A new stream takes nothing from the voices it does not name.
LEMMA OwnedStays ==
    ASSUME Typed, NEW new \in [Slots -> Voices \cup {NoOne}], NewStream(new), NEW v \in Voices,
           \A s \in Slots : new[s] # v
    PROVE  (\A s \in Slots : Owns(v, s)' <=> Owns(v, s)) /\ Owned(v)' = Owned(v) /\ Slotted(v)' = {}
<1>1. /\ stream \in Nat /\ 1..stream \subseteq Streams /\ stream' = stream + 1 /\ stream' \in Streams
      /\ tier'[stream'] = new /\ \A k \in Streams : k # stream' => tier'[k] = tier[k]
  BY OnAStream DEF NewStream, Typed
<1>2. /\ \A k \in 1..stream : k \in 1..stream' /\ tier'[k] = tier[k]
      /\ \A k \in 1..stream' : k = stream' \/ k \in 1..stream
  BY <1>1
<1>3. \A s \in Slots : Owns(v, s)' <=> Owns(v, s)
  BY <1>1, <1>2 DEF Owns
<1> QED
  BY <1>1, <1>3 DEF Owned, Slotted

\* A step that leaves the streams alone leaves alone what they gave.
LEMMA OwnedSame ==
    ASSUME UNCHANGED <<stream, tier>>
    PROVE  \A v \in Voices :
             /\ Slotted(v)' = Slotted(v) /\ Owned(v)' = Owned(v)
             /\ \A s \in Slots : Owns(v, s)' <=> Owns(v, s)
BY DEF Slotted, Owned, Owns

LEMMA RowsStep ==
    ASSUME Typed, Lineage, RowsAreTrue, [Next]_vars, "streams" \notin Races
    PROVE  RowsAreTrue'
<1> SUFFICES ASSUME NEW v \in Voices PROVE RowIsTrue(v)'
  BY DEF RowsAreTrue
<1>1. RowIsTrue(v) /\ book[v] \in Rows
  BY DEF RowsAreTrue, Typed
<1>2. ASSUME UNCHANGED <<stream, tier>>,
             fpc' = fpc \/ (fpc = "synced" /\ fpc' = "copied") \/ fpc' = "ended",
             book'[v].slots = book[v].slots, book'[v].evidence = book[v].evidence,
             book'[v].source = book[v].source \/ book[v].slots # {}
      PROVE  RowIsTrue(v)'
  BY <1>1, <1>2, OwnedSame DEF RowIsTrue
<1>3. ASSUME NEW s \in Slots, Speak(s) PROVE RowIsTrue(v)'
  BY <1>2, <1>3 DEF Speak
<1>4. ASSUME NEW from \in Slots, NEW to \in Slots, NEW n \in Names \cup {Blank}, Rename(from, to, n)
      PROVE  RowIsTrue(v)'
  <2>1. UNCHANGED <<stream, tier, fpc>> /\ (book'[v] = book[v] \/ Renamed(v, to, n))
    BY <1>4, Merges, RenamedRows
  <2> QED
    BY <1>2, <2>1 DEF Renamed
<1>5. CASE Sync
  <2>1. UNCHANGED <<stream, tier>> /\ fpc = "recording" /\ fpc' = "synced"
    BY <1>5 DEF Sync, speech
  <2>2. CASE Slotted(v) = {} /\ book'[v] = book[v]
    BY <1>1, <2>1, <2>2, OwnedSame DEF RowIsTrue
  <2>3. CASE Synced(v)
    <3>1. book[v] = Nobody
      BY <2>3 DEF Synced, ExportAllowed
    <3>2. book'[v].slots = Slotted(v) /\ book'[v].source = "model" /\ book'[v].evidence = {}
      BY <2>3, <3>1 DEF Synced, Nobody
    <3>3. Slotted(v) \in {{}, Owned(v)}
      BY SlottedIsOwned
    <3> QED
      BY <2>1, <3>2, <3>3, OwnedSame DEF RowIsTrue
  <2> QED
    BY <1>5, <2>2, <2>3, SyncedRows
<1>6. ASSUME Copy \/ End PROVE RowIsTrue(v)'
  BY <1>2, <1>6 DEF Copy, End, speech
<1>7. CASE Stage
  <2>1. UNCHANGED <<stream, tier>> /\ fpc = "copied" /\ fpc' = "staged"
    BY <1>7 DEF Stage, speech
  <2>2. CASE book'[v] = book[v]
    BY <1>1, <2>1, <2>2, OwnedSame DEF RowIsTrue
  <2>3. ASSUME NEW n \in Called \ {Blank}, Staged(v, n) PROVE RowIsTrue(v)'
    <3>1. Slotted(v) # {} /\ book'[v].slots = book[v].slots
      BY <2>3 DEF Staged, GivenNames
    <3> QED
      BY <1>1, <2>1, <3>1, OwnedSame DEF RowIsTrue
  <2> QED
    BY <1>7, <2>2, <2>3, StagedRows
<1>8. CASE Crash
  <2>1. book' = book
    BY <1>8, Crashes
  <2>2. CASE UNCHANGED <<fpc, stream, tier>>
    BY <1>2, <2>1, <2>2
  <2>3. ASSUME NEW new \in [Slots -> Voices \cup {NoOne}], NewStream(new) PROVE RowIsTrue(v)'
    <3>1. fpc' = "recording"
      BY <2>3 DEF NewStream
    <3>2. CASE \A s \in Slots : new[s] # v
      BY <1>1, <2>1, <2>3, <3>1, <3>2, OwnedStays DEF RowIsTrue
    <3>3. CASE \E s \in Slots : new[s] = v
      <4>1. book[v] = Nobody
        BY <2>3, <3>3, NewSlots, NoOneAssumption
      <4> QED
        BY <2>1, <3>1, <4>1 DEF RowIsTrue, Nobody
    <3> QED
      BY <3>2, <3>3
  <2> QED
    BY <1>8, <2>2, <2>3, Crashes
<1>9. ASSUME NEW w \in Voices, SaveSessionOnly(w) PROVE RowIsTrue(v)'
  <2>1. Decided(w, "session_only", Blank)
    BY <1>9, DecidedRows DEF SaveSessionOnly, Statuses, Called
  <2> QED
    BY <1>2, <1>9, <2>1 DEF Decided, SaveSessionOnly, speech
<1>10. ASSUME NEW o \in Operators, Record(o) PROVE RowIsTrue(v)'
  BY <1>2, <1>10, Records DEF Decided, Record, speech
<1>11. CASE UNCHANGED <<stream, tier, book, fpc>>
  BY <1>2, <1>11
<1> QED
  BY <1>3, <1>4, <1>5, <1>6, <1>7, <1>8, <1>9, <1>10, <1>11 DEF Next, BeginPublish, Answered, Refused,
     Unanswered, ServeLate, DeleteGlobal, registryVars, speech, vars
-----------------------------------------------------------------------------
(* Names.                                                                  *)

LEMMA WaitingStep ==
    ASSUME Typed, Lineage, Waiting, [Next]_vars, Races \cap {"copy", "streams"} = {}
    PROVE  Waiting'
<1>1. ASSUME UNCHANGED <<stream, tier, reviewerNames, rows>>, fpc' = "copied" => copied' = reviewerNames,
             fpc' \in {"recording", "synced", "copied"} => fpc \in {"recording", "synced", "copied"}
      PROVE  Waiting'
  BY <1>1 DEF Waiting
<1>2. ASSUME NEW from \in Slots, NEW to \in Slots, NEW n \in Names \cup {Blank}, Rename(from, to, n)
      PROVE  Waiting'
  <2>1. fpc # "copied"
    BY <1>2 DEF Rename, RenameAllowed
  <2>2. UNCHANGED <<stream, tier, fpc>>
    BY <1>2, Merges
  <2>3. \A s \in Slots : \/ rows'[s] = n /\ reviewerNames'[s] = n
                         \/ rows'[s] = Blank /\ reviewerNames'[s] = Blank
                         \/ rows'[s] = rows[s] /\ reviewerNames'[s] = reviewerNames[s]
    BY <1>2, Merges
  <2> QED
    BY <2>1, <2>2, <2>3 DEF Waiting
<1>3. CASE Sync \/ Copy \/ Stage \/ End
  BY <1>1, <1>3 DEF Sync, Copy, Stage, End, speech, Waiting
<1>4. CASE Crash
  <2>1. reviewerNames' = [s \in Slots |-> Blank] /\ rows' = rows
    BY <1>4, Crashes DEF Crash
  <2>2. CASE fpc = "ended" /\ UNCHANGED <<fpc, stream, tier>>
    BY <2>1, <2>2 DEF Waiting
  <2>3. ASSUME NEW new \in [Slots -> Voices \cup {NoOne}], NewStream(new) PROVE Waiting'
    <3>1. fpc' = "recording" /\ tier'[stream'] = new
      BY <2>3 DEF NewStream
    <3>2. \A s \in Slots : new[s] # NoOne => rows[s] = Blank
      BY <2>3, NewSlots
    <3> QED
      BY <2>1, <3>1, <3>2 DEF Waiting
  <2> QED
    BY <1>4, <2>2, <2>3, Crashes
<1>5. CASE UNCHANGED <<stream, tier, reviewerNames, rows, fpc, copied>>
  BY <1>1, <1>5 DEF Waiting
<1> QED
  BY <1>2, <1>3, <1>4, <1>5 DEF Next, Speak, SaveSessionOnly, BeginPublish, Answered, Refused,
     Unanswered, Record, ServeLate, DeleteGlobal, registryVars, speech, vars

\* Until the names are used, a name of a voice of the tier's stream waits.
LEMMA NamedWaits ==
    ASSUME Waiting, NEW v \in Voices, v # NoOne, fpc = "copied", IsNamed(v)
    PROVE  \E s \in Slotted(v) : reviewerNames[s] # Blank /\ copied[s] = reviewerNames[s]
<1>1. PICK s \in Slots : tier[stream][s] = v /\ rows[s] # Blank
  BY DEF IsNamed, Slotted
<1> QED
  BY <1>1 DEF Waiting, Slotted

LEMMA NamingStep ==
    ASSUME Typed, Lineage, RowsAreTrue, Waiting, Naming, [Next]_vars,
           Races \cap {"copy", "restart", "streams"} = {}
    PROVE  Naming'
<1> SUFFICES ASSUME NEW v \in Voices
             PROVE  (/\ book[v].source = "manual" => lastName[v] = Blank \/ Shows(v, book[v].name)
                     /\ promised[v] # {} => Kept(v))'
  BY DEF Naming
<1> DEFINE Name == book[v].source = "manual" => lastName[v] = Blank \/ Shows(v, book[v].name)
           Promise == promised[v] # {} => Kept(v)
<1> SUFFICES Name' /\ Promise'
  OBVIOUS
<1>1. Name /\ Promise /\ RowIsTrue(v) /\ v # NoOne
  BY NoOneAssumption DEF Naming, RowsAreTrue
<1>2. ASSUME UNCHANGED <<stream, tier, rows, lastName>>,
             book'[v].source = book[v].source, book[v].source = "manual" => book'[v].name = book[v].name
      PROVE  Name'
  BY <1>1, <1>2 DEF Shows, Owns
<1>3. ASSUME book'[v].source = "manual" \/ book'[v].source = book[v].source,
             book'[v].evidence = book[v].evidence, promised' = promised, fpc # "copied"
      PROVE  Promise'
  BY <1>1, <1>3 DEF Kept
<1>4. ASSUME UNCHANGED <<speech, rows, promised, fpc>>,
             book'[v].source = book[v].source, book'[v].evidence = book[v].evidence
      PROVE  Promise'
  BY <1>1, <1>4 DEF speech, Kept, IsNamed, Evidence, Slotted
<1>5. ASSUME NEW s \in Slots, Speak(s) PROVE Name' /\ Promise'
  BY <1>2, <1>3, <1>5 DEF Speak, history
<1>6. ASSUME NEW from \in Slots, NEW to \in Slots, NEW n \in Names \cup {Blank}, Rename(from, to, n)
      PROVE  Name' /\ Promise'
  <2>1. fpc # "copied"
    BY <1>6 DEF Rename, RenameAllowed
  <2>2. /\ UNCHANGED <<stream, tier, promised>>
        /\ rows' = [s \in Slots |-> IF s = to THEN n ELSE IF s = from THEN Blank ELSE rows[s]]
    BY <1>6, Merges
  <2>3. \/ Owns(v, to) /\ lastName'[v] = n
        \/ Owns(v, from) /\ ~Owns(v, to) /\ lastName'[v] = Blank
        \/ ~Owns(v, to) /\ ~Owns(v, from) /\ lastName'[v] = lastName[v]
    BY <1>6, LastNames
  <2>4. book'[v] = book[v] \/ Renamed(v, to, n)
    BY <1>6, RenamedRows
  <2>5. Promise'
    BY <1>3, <2>1, <2>2, <2>4 DEF Renamed
  <2>6. Renamed(v, to, n) => Shows(v, book[v].name)'
    <3>1. Renamed(v, to, n) => Owns(v, to)
      BY <1>1 DEF Renamed, RowIsTrue, Owned
    <3> QED
      BY <2>2, <3>1, OwnedSame DEF Renamed, Shows
  <2>7. CASE book'[v] = book[v] /\ ~Renamed(v, to, n) /\ book[v].source = "manual"
    <3>1. book[v].slots = Owned(v)
      BY <1>1, <2>7 DEF RowIsTrue
    <3>2. ~Owns(v, to)
      <4> SUFFICES ASSUME Owns(v, to) PROVE FALSE
        OBVIOUS
      <4>1. PICK u \in Voices : Renamed(u, to, n)
        BY <1>6, <3>1, RenamedRows DEF Owned
      <4>2. Owns(u, to)
        BY <4>1 DEF Renamed, RowsAreTrue, RowIsTrue, Owned
      <4> QED
        BY <2>7, <4>1, <4>2, OneOwner
    <3>3. CASE ~Owns(v, from)
      <4>1. ASSUME NEW s \in Slots, Owns(v, s) PROVE rows'[s] = rows[s]
        <5>1. s # to /\ s # from
          BY <3>2, <3>3, <4>1
        <5> QED
          BY <2>2, <5>1
      <4>2. lastName'[v] = lastName[v]
        BY <2>3, <3>2, <3>3
      <4>3. Shows(v, book[v].name) => Shows(v, book[v].name)'
        BY <2>2, <2>7, <4>1, OwnedSame DEF Shows
      <4> QED
        BY <1>1, <2>5, <2>7, <4>2, <4>3
    <3>4. CASE Owns(v, from)
      <4>1. lastName'[v] = Blank
        BY <2>3, <3>2, <3>4
      <4> QED
        BY <2>5, <4>1
    <3> QED
      BY <3>3, <3>4
  <2> QED
    BY <2>4, <2>5, <2>6, <2>7
<1>7. CASE Sync
  <2>1. /\ fpc = "recording" /\ UNCHANGED <<stream, tier, rows, lastName, promised>>
    BY <1>7 DEF Sync, speech, history
  <2>2. /\ book'[v].source = book[v].source /\ book'[v].evidence = book[v].evidence
        /\ book[v].source = "manual" => book'[v].name = book[v].name
    BY <1>7, SyncedRows DEF Synced, SyncName
  <2> QED
    BY <1>2, <1>3, <2>1, <2>2
<1>8. CASE Copy
  <2>1. /\ fpc = "synced" /\ fpc' = "copied" /\ UNCHANGED <<stream, tier, heard, rows, book, lastName>>
        /\ promised'[v] = IF IsNamed(v) THEN Evidence(Slotted(v)) ELSE promised[v]
    BY <1>8 DEF Copy, speech
  <2>2. Promise'
    BY <1>1, <2>1 DEF Kept, IsNamed, Evidence, Slotted
  <2> QED
    BY <1>2, <2>1, <2>2
<1>9. CASE Stage
  <2>1. /\ fpc = "copied" /\ copied = reviewerNames
        /\ UNCHANGED <<stream, tier, rows, lastName, promised>>
    BY <1>9 DEF Stage, Waiting, speech, history
  <2>2. CASE /\ GivenNames(copied, Slotted(v)) = {} \/ Evidence(Slotted(v)) = {}
             /\ book'[v] = book[v]
    <3>1. ~IsNamed(v)
      <4> SUFFICES ASSUME IsNamed(v) PROVE FALSE
        OBVIOUS
      <4>1. PICK s \in Slotted(v) : copied[s] # Blank
        BY <1>1, <2>1, NamedWaits
      <4> QED
        BY <2>2, <4>1 DEF GivenNames, IsNamed
    <3> QED
      BY <1>1, <1>2, <2>1, <2>2, <3>1 DEF Kept
  <2>3. ASSUME NEW n \in Called \ {Blank}, Staged(v, n) PROVE Name' /\ Promise'
    <3>1. PICK s \in Slotted(v) : copied[s] = n
      BY <2>3 DEF Staged, GivenNames
    <3>2. s \in Slots /\ tier[stream][s] = v /\ rows[s] = n /\ stream \in 1..stream
      BY <1>1, <2>1, <2>3, <3>1, OnAStream DEF Slotted, Waiting
    <3>3. Owns(v, s)
      BY <3>2 DEF Owns
    <3>4. Name'
      BY <2>1, <2>3, <3>2, <3>3, OwnedSame DEF Staged, Shows
    <3>5. book[v].evidence = {}
      BY <1>1, <2>1, <3>1 DEF RowIsTrue
    <3>6. promised[v] # {} => promised[v] = Evidence(Slotted(v))
      BY <1>1, <3>5 DEF Kept
    <3> QED
      BY <2>1, <2>3, <3>4, <3>6 DEF Staged, Kept
  <2> QED
    BY <1>9, <2>2, <2>3, StagedRows
<1>10. CASE End
  BY <1>2, <1>3, <1>10 DEF End, speech, history
<1>11. CASE Crash
  <2>1. UNCHANGED <<rows, book, lastName, promised>>
    BY <1>11, Crashes
  <2>2. CASE fpc = "ended" /\ UNCHANGED <<fpc, stream, tier>>
    BY <1>2, <1>3, <2>1, <2>2
  <2>3. ASSUME NEW new \in [Slots -> Voices \cup {NoOne}], NewStream(new) PROVE Name' /\ Promise'
    <3>1. fpc # "ended"
      BY <2>3 DEF NewStream
    <3>2. Name'
      <4>1. CASE \A s \in Slots : new[s] # v
        BY <1>1, <2>1, <2>3, <4>1, OwnedStays DEF Shows
      <4>2. CASE \E s \in Slots : new[s] = v
        <5>1. book[v] = Nobody
          BY <1>1, <2>3, <4>2, NewSlots
        <5> QED
          BY <2>1, <5>1 DEF Nobody
      <4> QED
        BY <4>1, <4>2
    <3>3. promised[v] # {} => book[v].source = "manual" /\ book[v].evidence = promised[v]
      <4> SUFFICES ASSUME promised[v] # {}, fpc = "copied", IsNamed(v) PROVE FALSE
        BY <1>1 DEF Kept
      <4>1. PICK s \in Slotted(v) : reviewerNames[s] # Blank
        BY <1>1, NamedWaits
      <4>2. s \in Slots /\ Owns(v, s)
        BY <4>1, OnAStream DEF Slotted, Owns
      <4>3. Pinned(s)
        BY <1>11, <3>1, <4>1, <4>2 DEF Crash, CrashAllowed
      <4>4. book[v].evidence # {}
        BY <4>2, <4>3 DEF Pinned
      <4> QED
        BY <1>1, <4>1, <4>4 DEF RowIsTrue
    <3> QED
      BY <2>1, <3>2, <3>3 DEF Kept
  <2> QED
    BY <1>11, <2>2, <2>3, Crashes
<1>12. ASSUME NEW w \in Voices, SaveSessionOnly(w) PROVE Name' /\ Promise'
  <2>1. Decided(w, "session_only", Blank)
    BY <1>12, DecidedRows DEF SaveSessionOnly, Statuses, Called
  <2> QED
    BY <1>2, <1>4, <1>12, <2>1 DEF Decided, SaveSessionOnly, speech, history
<1>13. ASSUME NEW o \in Operators, Record(o) PROVE Name' /\ Promise'
  BY <1>2, <1>4, <1>13, Records DEF Decided, Record, speech, history
<1>14. CASE UNCHANGED <<speech, rows, book, fpc, lastName, promised>>
  BY <1>2, <1>4, <1>14 DEF speech
<1> HIDE DEF Name, Promise
<1> QED
  BY <1>5, <1>6, <1>7, <1>8, <1>9, <1>10, <1>11, <1>12, <1>13, <1>14 DEF Next, BeginPublish, Answered,
     Refused, Unanswered, ServeLate, DeleteGlobal, registryVars, history, speech, vars

-----------------------------------------------------------------------------
(* The theorems.                                                           *)

LEMMA BookInit ==
    Init => /\ Typed /\ Lineage /\ Vouching /\ OnePublisher /\ Recorded /\ RowsAreTrue
            /\ Waiting /\ Naming
<1> SUFFICES ASSUME Init
             PROVE  /\ Typed /\ Lineage /\ Vouching /\ OnePublisher /\ Recorded /\ RowsAreTrue
                    /\ Waiting /\ Naming
  OBVIOUS
<1> USE DEF Init
<1>1. Nobody \in Rows /\ Blank \in Called /\ NoSample \in [name : Called, speech : SUBSET Pieces]
  BY DEF Rows, Nobody, NoSample, Called, Statuses
<1>2. PICK first \in [Slots -> Voices \cup {NoOne}] :
        tier = [k \in Streams |-> IF k = 1 THEN first ELSE [s \in Slots |-> NoOne]]
  OBVIOUS
<1>3. /\ stream = 1 /\ 1 \in Streams /\ MaxCrash \in Nat
      /\ tier \in [Streams -> [Slots -> Voices \cup {NoOne}]]
      /\ \A k \in Streams, s \in Slots : k # 1 => tier[k][s] = NoOne
  BY <1>2, BookAssumption DEF Streams
<1>4. Typed
  BY <1>1, <1>3 DEF Typed
<1>5. Lineage
  BY <1>3 DEF Lineage, FutureIsSilent, WordsAreFiled, NoSlotTwice, NoVoiceTwice, NamedWasHeard, Streams
<1>6. Vouching
  BY DEF Vouching, Nobody, Idle
<1>7. OnePublisher
  BY DEF OnePublisher
<1>8. Recorded
  BY DEF Recorded, Idle, Nobody
<1>9. RowsAreTrue
  BY DEF RowsAreTrue, RowIsTrue, Nobody
<1>10. Waiting
  BY DEF Waiting
<1>11. Naming
  BY DEF Naming, Nobody
<1> QED
  BY <1>4, <1>5, <1>6, <1>7, <1>8, <1>9, <1>10, <1>11

\* For any number of voices, reviewers, merges and crashes, whatever other races
\* happen, while the streams of a meeting number their slots and voices apart: what the
\* shared database holds under a voice is the speech of one stream's voice, of one
\* somebody named (SessionBuffer::publishSpeakerRegistry, LiveTranscript::speakerSpans,
\* save_session_speakers).
THEOREM SharedVoicesAreVouchedFor ==
    ASSUME "streams" \notin Races
    PROVE  Spec => []OnlyVouchedIsShared
<1> DEFINE I == Typed /\ Lineage /\ Vouching
<1>1. Init => I
  BY BookInit
<1>2. I /\ [Next]_vars => I'
  BY TypedStep, LineageStep, VouchingStep
<1>3. I => OnlyVouchedIsShared
  <2>1. Typed => 1..stream \subseteq Streams
    BY OnAStream
  <2>2. ASSUME Typed, NEW v \in Voices, NEW x, OwnSpeech(v, x) PROVE IsVouchedFor(v, x)
    BY <2>1, <2>2 DEF OwnSpeech, IsVouchedFor
  <2> QED
    BY <2>2 DEF Vouching, OnlyVouchedIsShared
<1> QED
  BY <1>1, <1>2, <1>3, PTL DEF Spec

\* For any number of voices and operators, without two handlers for one voice, a post
\* served after its handler gave up, or a crash between an enrolment and its row:
\* what the registry calls shared is shared under that name or was deleted
\* (updateSpeakerStatus).
THEOREM SharedMeansShared ==
    ASSUME Races \cap {"publishers", "late", "record"} = {}
    PROVE  Spec => []PublishedIsShared
<1> DEFINE I == Typed /\ OnePublisher /\ Recorded
<1>1. Init => I
  BY BookInit
<1>2. I /\ [Next]_vars => I'
  BY TypedStep, OnePublisherStep, RecordedStep
<1>3. I => PublishedIsShared
  BY InHand DEF Recorded, IsShared, PublishedIsShared, Publishing
<1> QED
  BY <1>1, <1>2, <1>3, PTL DEF Spec

\* For any number of voices, slots, renames, merges and crashes, without a rename
\* between the copy of the names and its use, a restart while a name waits or a stream
\* that takes an earlier one's numbers: a name given before the end is in the registry,
\* with the speech there was pinned for it, and the registry's name of a voice is one
\* the transcript shows (SessionBuffer::renameSpeaker, publishSpeakerRegistry,
\* syncSpeakers).
THEOREM GivenNamesReachTheBook ==
    ASSUME Races \cap {"copy", "restart", "streams"} = {}
    PROVE  Spec => []NamesReachTheBook
<1> DEFINE I == Typed /\ Lineage /\ RowsAreTrue /\ Waiting /\ Naming
<1>1. Init => I
  BY BookInit
<1>2. I /\ [Next]_vars => I'
  BY TypedStep, LineageStep, RowsStep, WaitingStep, NamingStep
<1>3. I => NamesReachTheBook
  <2> SUFFICES ASSUME I, fpc \in {"staged", "ended"}, NEW v \in Voices
               PROVE  /\ book[v].source = "manual" /\ lastName[v] # Blank =>
                           book[v].name \in {rows[s] : s \in book[v].slots}
                      /\ promised[v] # {} => book[v].source = "manual" /\ book[v].evidence = promised[v]
    BY DEF NamesReachTheBook
  <2>1. book[v].source = "manual" => book[v].slots = Owned(v)
    BY DEF RowsAreTrue, RowIsTrue
  <2>2. Shows(v, book[v].name) => book[v].name \in {rows[s] : s \in Owned(v)}
    BY DEF Shows, Owned
  <2> QED
    BY <2>1, <2>2 DEF Naming, Kept
<1> QED
  BY <1>1, <1>2, <1>3, PTL DEF Spec
=============================================================================
