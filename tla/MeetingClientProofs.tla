------------------------- MODULE MeetingClientProofs -------------------------
(***************************************************************************)
(* What holds of the client: of MeetingClient for any number of meetings,  *)
(* frames and faults and any size of the audio queue and of a packet, and  *)
(* of TranscriptView for any number of words, speakers, names and answers  *)
(* and any limit of the locks.                                             *)
(***************************************************************************)
EXTENDS MeetingClient, TranscriptView, FiniteSetTheorems, TLAPS

-----------------------------------------------------------------------------
(* The inductive invariants.                                               *)

Ends == {"finished", "error"}
Over == {"none", "finished", "failed"}

\* One session at a time: the latest worker is the running one, the others are
\* over, and no later one has left a trace.
OneAtATime ==
    /\ worker \in {0, next}
    /\ pending => ~Running /\ next < MaxMeetings
    /\ \A w \in Meetings : w # worker => pc[w] \in Over
    /\ \A w \in Meetings : w > next <=> pc[w] = "none"
    /\ \A w \in Meetings : pc[w] = "none" =>
         /\ w \notin stop \cup paused \cup dropped
         /\ held[w] = "none" /\ buf[w] = <<>> /\ sent[w] = <<>>
    /\ \A w \in Meetings : pc[w] = "none" <=> kind[w] = "none"

\* The signals of workers are those of the running one, and its end is the last.
EndsAreLast ==
    /\ \A i \in 1..Len(events) : events[i][1] \in WorkerKinds => Running /\ events[i][2] = worker
    /\ \A i \in 1..Len(events) : events[i][1] \in Ends => pc[worker] \in Over
    /\ \A i, j \in 1..Len(events) :
         events[i][1] \in Ends /\ i < j => events[j][1] \notin WorkerKinds

\* The poller follows the running meeting once "recording" was handled, and what
\* it says of others is handled before that.
Following ==
    /\ polled \in {0, worker}
    /\ Running /\ held[worker] = "none" =>
         polled = 0 /\ \A i \in 1..Len(events) : events[i][1] # "recording"
    /\ Running /\ held[worker] = "open" =>
         /\ asking \in {0, worker}
         /\ \A j \in 1..Len(events) : events[j][1] = "state" =>
              \/ events[j][2] = worker /\ events[j][3] = FALSE
              \/ \E i \in 1..Len(events) : j < i /\ events[i][1] = "recording"
         /\ (\A i \in 1..Len(events) : events[i][1] # "recording") =>
              polled = worker /\ shown = worker

Posted(kinds) == \E i \in 1..Len(events) : events[i][1] \in kinds

\* The microphone follows what is wanted: when it is not, it is closed or the last
\* call under way closes it; and a start that is pending has one try.
Microphone ==
    /\ wanted => Running \/ pending
    /\ pending => wanted
    /\ Running /\ worker \in stop => ~wanted
    /\ ~wanted => IF cmds = <<>> THEN ~open ELSE cmds[Len(cmds)] = "stop"
    /\ ~open => device = <<>>
    /\ pending => cmds = <<>> \/ (cmds = <<"start">> /\ ~open /\ ~Posted(CaptureKinds))
    /\ pending /\ Posted({"failed"}) => cmds = <<>> /\ ~open

\* Audio goes somewhere: to a session that is running or about to, and is no file.
Takes == pending \/ (Running /\ kind[worker] = "microphone")

Ascending(s) == \A i, j \in 1..Len(s) : i < j => s[i] < s[j]
Before(s, t) == \A f \in ToSet(s), g \in ToSet(t) : f < g

\* Along the way from the device to the server frames keep their order.
InOrder ==
    /\ \A w \in Meetings : Ascending(sent[w]) /\ Ascending(buf[w]) /\ Before(sent[w], buf[w])
    /\ Ascending(queue) /\ Ascending(device) /\ Before(queue, device)
    /\ Takes => /\ Before(sent[For], queue) /\ Before(sent[For], device)
                /\ Before(buf[For], queue) /\ Before(buf[For], device)

\* Nothing of one meeting is where the next takes its audio from.
OwnAudio ==
    /\ \A w \in Meetings : \A f \in ToSet(sent[w]) \cup ToSet(buf[w]) :
         f \in 1..Len(of) /\ of[f] = w
    /\ \A f \in ToSet(queue) \cup ToSet(device) : f \in 1..Len(of) /\ (Takes => of[f] = For)

\* A worker that drains has all there is, and a file has no audio here.
Drained ==
    /\ \A w \in Meetings : kind[w] = "file" =>
         buf[w] = <<>> /\ sent[w] = <<>> /\ pc[w] \notin {"loop", "push", "lost"}
    /\ \A w \in Meetings :
         kind[w] = "microphone" /\ pc[w] \in {"drain", "stopping", "finished"} => w \in stop
    /\ \A w \in Meetings : pc[w] \in {"stopping", "finished"} => buf[w] = <<>>
    /\ Running /\ kind[worker] = "file" => ~wanted /\ cmds = <<>>
    /\ Running /\ kind[worker] = "microphone" /\ pc[worker] \in {"drain", "stopping", "finished"} =>
         cmds = <<>> /\ queue = <<>>

\* A queue that discards belongs to a meeting that is paused.
Silence ==
    /\ pending => ~silent
    /\ Takes /\ silent => worker \in paused

\* A frame is of a meeting there is, or is about to be, and none is of a file.
Counted ==
    /\ \A f \in 1..Len(of) : of[f] <= next \/ (pending /\ of[f] = next + 1)
    /\ \A f \in 1..Len(of) : of[f] \in Meetings => kind[of[f]] # "file"
    /\ pending /\ (cmds # <<>> \/ Posted({"failed"})) => \A f \in 1..Len(of) : of[f] <= next

\* Where a frame that was spoken is: given up, on its way, or sent.
Kept ==
    \A f \in 1..Len(of) : of[f] # 0 =>
        \/ f \in excused
        \/ of[f] = For /\ f \in ToSet(queue) \cup ToSet(device)
        \/ of[f] <= next /\ (pc[of[f]] = "failed" \/ f \in ToSet(sent[of[f]]) \cup ToSet(buf[of[f]]))

-----------------------------------------------------------------------------
(* Sequences.                                                              *)

LEMMA Appended ==
    ASSUME NEW S, NEW s \in Seq(S), NEW e \in S
    PROVE  /\ Append(s, e) \in Seq(S) /\ Len(Append(s, e)) = Len(s) + 1
           /\ \A i \in 1..Len(s) : Append(s, e)[i] = s[i]
           /\ Append(s, e)[Len(s) + 1] = e
           /\ ToSet(Append(s, e)) = ToSet(s) \cup {e}
<1>1. /\ Append(s, e) \in Seq(S) /\ Len(Append(s, e)) = Len(s) + 1
      /\ \A i \in 1..Len(s) : Append(s, e)[i] = s[i]
      /\ Append(s, e)[Len(s) + 1] = e
  OBVIOUS
<1>2. DOMAIN s = 1..Len(s) /\ DOMAIN Append(s, e) = 1..(Len(s) + 1) /\ Len(s) \in Nat
  OBVIOUS
<1>3. ToSet(Append(s, e)) \subseteq ToSet(s) \cup {e}
  BY <1>1, <1>2 DEF ToSet
<1>4. ToSet(s) \cup {e} \subseteq ToSet(Append(s, e))
  <2>1. \A i \in 1..Len(s) : i \in 1..(Len(s) + 1)
    BY <1>2
  <2>2. Len(s) + 1 \in 1..(Len(s) + 1)
    BY <1>2
  <2> QED
    BY <1>1, <1>2, <2>1, <2>2 DEF ToSet
<1> QED
  BY <1>1, <1>3, <1>4

LEMMA TailOf ==
    ASSUME NEW S, NEW s \in Seq(S), s # <<>>
    PROVE  /\ Tail(s) \in Seq(S) /\ Len(Tail(s)) = Len(s) - 1 /\ Len(s) \in Nat \ {0}
           /\ \A i \in 1..Len(Tail(s)) : Tail(s)[i] = s[i + 1] /\ i + 1 \in 1..Len(s)
           /\ Head(s) = s[1] /\ Head(s) \in S /\ 1 \in 1..Len(s)
OBVIOUS

LEMMA Members ==
    ASSUME NEW S, NEW s \in Seq(S)
    PROVE  /\ ToSet(s) \subseteq S
           /\ \A i \in 1..Len(s) : s[i] \in ToSet(s)
           /\ \A f \in ToSet(s) : \E i \in 1..Len(s) : f = s[i]
           /\ ToSet(s) = {} <=> s = <<>>
<1>1. DOMAIN s = 1..Len(s) /\ Len(s) \in Nat
  OBVIOUS
<1>2. s # <<>> => 1 \in 1..Len(s)
  OBVIOUS
<1>3. s = <<>> => 1..Len(s) = {}
  OBVIOUS
<1> QED
  BY <1>1, <1>2, <1>3 DEF ToSet

LEMMA Joined ==
    ASSUME NEW S, NEW s \in Seq(S), NEW t \in Seq(S)
    PROVE  /\ s \o t \in Seq(S) /\ Len(s \o t) = Len(s) + Len(t)
           /\ ToSet(s \o t) = ToSet(s) \cup ToSet(t)
<1>1. /\ s \o t \in Seq(S) /\ Len(s \o t) = Len(s) + Len(t)
      /\ \A i \in 1..Len(s) : (s \o t)[i] = s[i]
      /\ \A i \in 1..Len(t) : (s \o t)[Len(s) + i] = t[i]
      /\ Len(s) \in Nat /\ Len(t) \in Nat
  OBVIOUS
<1>2. DOMAIN s = 1..Len(s) /\ DOMAIN t = 1..Len(t) /\ DOMAIN (s \o t) = 1..(Len(s) + Len(t))
  BY <1>1
<1>3. ToSet(s \o t) \subseteq ToSet(s) \cup ToSet(t)
  <2> SUFFICES ASSUME NEW i \in 1..(Len(s) + Len(t)) PROVE (s \o t)[i] \in ToSet(s) \cup ToSet(t)
    BY <1>2 DEF ToSet
  <2>1. CASE i <= Len(s)
    <3>1. i \in 1..Len(s)
      BY <2>1, <1>1
    <3> QED
      BY <3>1, <1>1, <1>2 DEF ToSet
  <2>2. CASE ~(i <= Len(s))
    <3>1. i - Len(s) \in 1..Len(t) /\ Len(s) + (i - Len(s)) = i
      BY <2>2, <1>1
    <3>2. (s \o t)[i] = t[i - Len(s)]
      BY <3>1, <1>1
    <3> QED
      BY <3>1, <3>2, <1>2 DEF ToSet
  <2> QED
    BY <2>1, <2>2
<1>4. ToSet(s) \cup ToSet(t) \subseteq ToSet(s \o t)
  <2>1. \A i \in 1..Len(s) : i \in 1..(Len(s) + Len(t))
    BY <1>1
  <2>2. \A i \in 1..Len(t) : Len(s) + i \in 1..(Len(s) + Len(t))
    BY <1>1
  <2> QED
    BY <2>1, <2>2, <1>1, <1>2 DEF ToSet
<1> QED
  BY <1>1, <1>3, <1>4

LEMMA AscendingJoined ==
    ASSUME NEW s \in Seq(Nat), NEW t \in Seq(Nat), Ascending(s), Ascending(t), Before(s, t)
    PROVE  Ascending(s \o t)
<1>1. /\ Len(s \o t) = Len(s) + Len(t)
      /\ \A i \in 1..Len(s) : (s \o t)[i] = s[i]
      /\ \A i \in 1..Len(t) : (s \o t)[Len(s) + i] = t[i]
      /\ Len(s) \in Nat /\ Len(t) \in Nat
  OBVIOUS
<1> SUFFICES ASSUME NEW i \in 1..(Len(s) + Len(t)), NEW j \in 1..(Len(s) + Len(t)), i < j
             PROVE  (s \o t)[i] < (s \o t)[j]
  BY <1>1 DEF Ascending
<1>2. \A k \in 1..(Len(s) + Len(t)) : k > Len(s) => k - Len(s) \in 1..Len(t) /\ (s \o t)[k] = t[k - Len(s)]
  <2> TAKE k \in 1..(Len(s) + Len(t))
  <2>1. k > Len(s) => k - Len(s) \in 1..Len(t) /\ Len(s) + (k - Len(s)) = k
    BY <1>1
  <2> QED
    BY <2>1, <1>1
<1>3. CASE j <= Len(s)
  <2>1. i \in 1..Len(s) /\ j \in 1..Len(s)
    BY <1>3, <1>1
  <2> QED
    BY <2>1, <1>1 DEF Ascending
<1>4. CASE i > Len(s)
  <2>1. j > Len(s) /\ i - Len(s) < j - Len(s)
    BY <1>4, <1>1
  <2> QED
    BY <2>1, <1>4, <1>2 DEF Ascending
<1>5. CASE i <= Len(s) /\ j > Len(s)
  <2>1. i \in 1..Len(s)
    BY <1>5, <1>1
  <2>2. s[i] \in ToSet(s) /\ t[j - Len(s)] \in ToSet(t)
    BY <2>1, <1>2, <1>5, Members
  <2> QED
    BY <2>1, <2>2, <1>1, <1>2, <1>5 DEF Before
<1> QED
  BY <1>3, <1>4, <1>5, <1>1

LEMMA Split ==
    ASSUME NEW s \in Seq(Nat), NEW n \in 0..Len(s)
    PROVE  LET a == SubSeq(s, 1, n)
               b == SubSeq(s, n + 1, Len(s))
           IN  /\ a \in Seq(Nat) /\ b \in Seq(Nat) /\ Len(b) = Len(s) - n
               /\ ToSet(a) \cup ToSet(b) = ToSet(s)
               /\ Ascending(s) => Ascending(a) /\ Ascending(b) /\ Before(a, b)
<1> DEFINE a == SubSeq(s, 1, n)
           b == SubSeq(s, n + 1, Len(s))
<1>1. /\ a \in Seq(Nat) /\ Len(a) = n /\ \A i \in 1..n : a[i] = s[i]
      /\ b \in Seq(Nat) /\ Len(b) = Len(s) - n /\ \A i \in 1..(Len(s) - n) : b[i] = s[n + i]
      /\ Len(s) \in Nat /\ n \in Nat
  <2>0. Len(s) \in Nat /\ n \in Nat
    OBVIOUS
  <2>1. a \in Seq(Nat) /\ Len(a) = n /\ \A i \in 1..n : a[i] = s[i]
    OBVIOUS
  <2>2. b \in Seq(Nat) /\ Len(b) = Len(s) - n
    OBVIOUS
  <2>3. \A i \in 1..(Len(s) - n) : b[i] = s[n + i]
    OBVIOUS
  <2> QED
    BY <2>0, <2>1, <2>2, <2>3
<1> HIDE DEF a, b
<1>2. DOMAIN s = 1..Len(s) /\ DOMAIN a = 1..n /\ DOMAIN b = 1..(Len(s) - n)
  BY <1>1
<1>3. ToSet(a) \cup ToSet(b) \subseteq ToSet(s)
  <2>1. \A i \in 1..n : i \in 1..Len(s)
    BY <1>1
  <2>2. \A i \in 1..(Len(s) - n) : n + i \in 1..Len(s)
    BY <1>1
  <2>3. ToSet(a) \subseteq ToSet(s)
    BY <2>1, <1>1, <1>2 DEF ToSet
  <2>4. ASSUME NEW i \in 1..(Len(s) - n) PROVE b[i] \in ToSet(s)
    <3>1. n + i \in 1..Len(s) /\ b[i] = s[n + i]
      BY <2>2, <1>1
    <3> QED
      BY <3>1, Members
  <2>5. ToSet(b) \subseteq ToSet(s)
    BY <2>4, <1>2 DEF ToSet
  <2> QED
    BY <2>3, <2>5
<1>4. ToSet(s) \subseteq ToSet(a) \cup ToSet(b)
  <2> SUFFICES ASSUME NEW i \in 1..Len(s) PROVE s[i] \in ToSet(a) \cup ToSet(b)
    BY <1>2 DEF ToSet
  <2>1. CASE i <= n
    <3>1. i \in 1..n
      BY <2>1, <1>1
    <3> QED
      BY <3>1, <1>1, <1>2 DEF ToSet
  <2>2. CASE ~(i <= n)
    <3>1. i - n \in 1..(Len(s) - n) /\ n + (i - n) = i
      BY <2>2, <1>1
    <3>2. b[i - n] = s[i]
      BY <3>1, <1>1
    <3> QED
      BY <3>1, <3>2, <1>2 DEF ToSet
  <2> QED
    BY <2>1, <2>2
<1>5. ASSUME Ascending(s) PROVE Ascending(a) /\ Ascending(b) /\ Before(a, b)
  <2>1. Ascending(a)
    <3>1. \A i \in 1..n : i \in 1..Len(s)
      BY <1>1
    <3> QED
      BY <3>1, <1>1, <1>5 DEF Ascending
  <2>2. Ascending(b)
    <3>1. \A i, j \in 1..(Len(s) - n) : n + i \in 1..Len(s) /\ (i < j => n + i < n + j)
      BY <1>1
    <3> QED
      BY <3>1, <1>1, <1>5 DEF Ascending
  <2>3. Before(a, b)
    <3>1. \A i \in 1..n, j \in 1..(Len(s) - n) :
            i \in 1..Len(s) /\ n + j \in 1..Len(s) /\ i < n + j
      BY <1>1
    <3>2. \A i \in 1..n, j \in 1..(Len(s) - n) : a[i] < b[j]
      BY <3>1, <1>1, <1>5 DEF Ascending
    <3> QED
      BY <3>2, <1>2 DEF Before, ToSet
  <2> QED
    BY <2>1, <2>2, <2>3
<1> QED
  BY <1>1, <1>3, <1>4, <1>5 DEF a, b

-----------------------------------------------------------------------------
(* Signals.                                                                *)

LEMMA AMessage ==
    ASSUME NEW e \in Messages
    PROVE  /\ e[1] \in CaptureKinds \cup WorkerKinds \cup {"state"}
           /\ e[1] \in WorkerKinds => e[2] \in Meetings
           /\ e[1] = "state" => e[2] \in Meetings /\ e[3] \in BOOLEAN
<1>1. CASE e \in {<<k>> : k \in CaptureKinds}
  <2>1. PICK k \in CaptureKinds : e = <<k>>
    BY <1>1
  <2>2. e[1] = k
    BY <2>1
  <2>3. CaptureKinds \cap WorkerKinds = {} /\ "state" \notin CaptureKinds
    BY DEF CaptureKinds, WorkerKinds
  <2> QED
    BY <2>1, <2>2, <2>3
<1>2. CASE e \in WorkerKinds \X Meetings
  BY <1>2 DEF WorkerKinds
<1>3. CASE e \in {"state"} \X Meetings \X BOOLEAN
  BY <1>3 DEF WorkerKinds
<1> QED
  BY <1>1, <1>2, <1>3 DEF Messages

LEMMA AreMessages ==
    /\ \A k \in CaptureKinds : <<k>> \in Messages /\ <<k>>[1] = k
    /\ \A k \in WorkerKinds, w \in Meetings :
         <<k, w>> \in Messages /\ <<k, w>>[1] = k /\ <<k, w>>[2] = w
    /\ \A w \in Meetings, b \in BOOLEAN :
         /\ <<"state", w, b>> \in Messages
         /\ <<"state", w, b>>[1] = "state" /\ <<"state", w, b>>[2] = w /\ <<"state", w, b>>[3] = b
BY DEF Messages

\* A signal was posted.
LEMMA AfterPost ==
    ASSUME TypeOK, NEW e \in Messages, Post(e)
    PROVE  /\ events' \in Seq(Messages) /\ Len(events') = Len(events) + 1 /\ Len(events) \in Nat
           /\ \A i \in 1..Len(events) : events'[i] = events[i] /\ i \in 1..Len(events')
           /\ events'[Len(events) + 1] = e /\ Len(events) + 1 \in 1..Len(events')
           /\ \A i \in 1..Len(events') : i \in 1..Len(events) \/ i = Len(events) + 1
<1>1. events \in Seq(Messages) /\ events' = Append(events, e) /\ Len(events) \in Nat
  BY DEF Post, TypeOK
<1>2. /\ events' \in Seq(Messages) /\ Len(events') = Len(events) + 1
      /\ \A i \in 1..Len(events) : events'[i] = events[i]
      /\ events'[Len(events) + 1] = e
  BY <1>1, Appended
<1> QED
  BY <1>1, <1>2

\* A signal was handled.
LEMMA AfterEvent ==
    ASSUME TypeOK, NEW kinds, Event(kinds)
    PROVE  /\ events' \in Seq(Messages) /\ Len(events') = Len(events) - 1 /\ Len(events) \in Nat
           /\ \A i \in 1..Len(events') : events'[i] = events[i + 1] /\ i + 1 \in 1..Len(events) /\ 1 < i + 1
           /\ \A i, j \in 1..Len(events') : i < j => i + 1 < j + 1
           /\ \A i \in 1..Len(events) : i # 1 => i - 1 \in 1..Len(events') /\ events'[i - 1] = events[i]
           /\ 1 \in 1..Len(events) /\ events[1] = Head(events) /\ Head(events)[1] \in kinds
           /\ Head(events) \in Messages
<1>1. events \in Seq(Messages) /\ events # <<>> /\ events' = Tail(events)
  BY DEF TypeOK, Event
<1>2. /\ events' \in Seq(Messages) /\ Len(events') = Len(events) - 1 /\ Len(events) \in Nat \ {0}
      /\ \A i \in 1..Len(events') : events'[i] = events[i + 1]
      /\ Head(events) = events[1] /\ Head(events) \in Messages
  BY <1>1
<1>3. \A i \in 1..Len(events') : i + 1 \in 1..Len(events) /\ 1 < i + 1
  BY <1>2
<1>4. \A i \in 1..Len(events) : i # 1 => i - 1 \in 1..Len(events') /\ (i - 1) + 1 = i
  BY <1>2
<1>5. \A i \in 1..Len(events) : i # 1 => events'[i - 1] = events[i]
  BY <1>2, <1>4
<1>6. 1 \in 1..Len(events) /\ \A i, j \in 1..Len(events') : i < j => i + 1 < j + 1
  BY <1>2
<1> QED
  BY <1>2, <1>3, <1>4, <1>5, <1>6 DEF Event

\* What the capture thread was asked.
LEMMA AfterAsking ==
    ASSUME TypeOK, NEW c \in {"start", "stop"}, cmds' = Append(cmds, c)
    PROVE  cmds' \in Seq({"start", "stop"}) /\ cmds' # <<>> /\ cmds'[Len(cmds')] = c
<1>1. cmds \in Seq({"start", "stop"}) /\ Len(cmds) \in Nat
  BY DEF TypeOK
<1>2. cmds' \in Seq({"start", "stop"}) /\ Len(cmds') = Len(cmds) + 1 /\ cmds'[Len(cmds) + 1] = c
  BY <1>1, Appended
<1>3. cmds' # <<>>
  BY <1>1, <1>2
<1> QED
  BY <1>2, <1>3

LEMMA AfterDoing ==
    ASSUME TypeOK, cmds # <<>>, cmds' = Tail(cmds)
    PROVE  /\ cmds' \in Seq({"start", "stop"}) /\ Head(cmds) = cmds[1]
           /\ cmds' # <<>> => cmds'[Len(cmds')] = cmds[Len(cmds)]
           /\ cmds' = <<>> => Head(cmds) = cmds[Len(cmds)]
           /\ \A c \in {"start", "stop"} : cmds = <<c>> => cmds' = <<>> /\ Head(cmds) = c
<1>1. cmds \in Seq({"start", "stop"}) /\ Len(cmds) \in Nat \ {0} /\ Head(cmds) = cmds[1]
  BY DEF TypeOK
<1>2. /\ cmds' \in Seq({"start", "stop"}) /\ Len(cmds') = Len(cmds) - 1
      /\ \A i \in 1..Len(cmds') : cmds'[i] = cmds[i + 1]
  BY <1>1
<1>3. cmds' # <<>> => Len(cmds') \in 1..Len(cmds') /\ Len(cmds') + 1 = Len(cmds)
  BY <1>1, <1>2
<1>4. ASSUME cmds' = <<>> PROVE Len(cmds) = 1
  <2>1. Len(Tail(cmds)) = Len(cmds) - 1
    BY <1>1
  <2>2. Len(<<>>) = 0
    OBVIOUS
  <2>3. Len(Tail(cmds)) = 0
    BY <2>2, <1>4
  <2> QED
    BY <2>1, <2>3, <1>1
<1>5. \A c \in {"start", "stop"} : cmds = <<c>> => cmds' = <<>> /\ Head(cmds) = c
  OBVIOUS
<1> QED
  BY <1>1, <1>2, <1>3, <1>4, <1>5

\* The frames of the audio queue and the device, and what a packet takes.
LEMMA Frames ==
    ASSUME TypeOK
    PROVE  /\ queue \in Seq(1..MaxFrames) /\ device \in Seq(1..MaxFrames)
           /\ queue \in Seq(Nat) /\ device \in Seq(Nat)
           /\ \A w \in Meetings : /\ buf[w] \in Seq(1..MaxFrames) /\ sent[w] \in Seq(1..MaxFrames)
                                  /\ buf[w] \in Seq(Nat) /\ sent[w] \in Seq(Nat)
<1>1. MaxFrames \in Nat /\ 1..MaxFrames \subseteq Nat
  BY ClientAssumption
<1>2. \A s : s \in Seq(1..MaxFrames) => s \in Seq(Nat)
  BY <1>1
<1> QED
  BY <1>2 DEF TypeOK

-----------------------------------------------------------------------------
(* Types.                                                                  *)

LEMMA EventsTyped == ASSUME TypeOK, [Next]_vars PROVE events' \in Seq(Messages)
<1>1. events \in Seq(Messages)
  BY DEF TypeOK
<1>2. ASSUME NEW e \in Messages, Post(e) PROVE events' \in Seq(Messages)
  BY <1>2, AfterPost
<1>3. ASSUME NEW kinds, Event(kinds) PROVE events' \in Seq(Messages)
  BY <1>3, AfterEvent
<1>4. CASE Slot
  BY <1>4, <1>3 DEF Slot, OnCaptureStarted, OnCaptureFailed, OnDeviceLost, OnSessionStarted,
                    OnWorkerStatus, Teardown, OnLiveState
<1>5. ASSUME NEW w \in Meetings, Worker(w) \/ SendBack(w) PROVE events' \in Seq(Messages)
  <2>1. ASSUME NEW k \in WorkerKinds, Post(<<k, w>>) PROVE events' \in Seq(Messages)
    BY <2>1, <1>2, AreMessages
  <2>2. {"recording", "network", "back", "back paused", "finalizing", "finished", "error"} \subseteq WorkerKinds
    BY DEF WorkerKinds
  <2>3. CASE StartOk(w)
    BY <2>3, <2>1, <2>2 DEF StartOk
  <2>4. CASE Fails(w)
    BY <2>4, <2>1, <2>2 DEF Fails
  <2>5. CASE SendLost(w)
    BY <2>5, <2>1, <2>2 DEF SendLost
  <2>6. CASE SendBack(w)
    BY <2>6, <2>1, <2>2 DEF SendBack
  <2>7. CASE StopSession(w)
    BY <2>7, <2>1, <2>2 DEF StopSession
  <2>8. CASE StopOk(w)
    BY <2>8, <2>1, <2>2 DEF StopOk
  <2>9. CASE UNCHANGED events
    BY <2>9, <1>1
  <2> QED
    BY <1>5, <2>3, <2>4, <2>5, <2>6, <2>7, <2>8, <2>9
       DEF Worker, LoopPaused, LoopTake, LoopStop, SendOk
<1>6. CASE Capture
  <2>1. \A k \in CaptureKinds : <<k>> \in Messages
    BY AreMessages
  <2>2. "opened" \in CaptureKinds /\ "failed" \in CaptureKinds /\ "lost" \in CaptureKinds
    BY DEF CaptureKinds
  <2>3. CASE CaptureStart
    BY <2>3, <2>1, <2>2, <1>2 DEF CaptureStart
  <2>4. CASE DeviceLost
    BY <2>4, <2>1, <2>2, <1>2 DEF DeviceLost
  <2>5. CASE UNCHANGED events
    BY <2>5, <1>1
  <2> QED
    BY <1>6, <2>3, <2>4, <2>5 DEF Capture, CaptureStop, Drain
<1>7. CASE Poll
  <2>1. CASE UNCHANGED events
    BY <2>1, <1>1
  <2>2. CASE PollAnswer /\ Post(<<"state", asking, held[asking] = "done">>)
    <3>1. asking \in Meetings
      BY <2>2 DEF PollAnswer, TypeOK, Meetings
    <3>2. <<"state", asking, held[asking] = "done">> \in Messages
      BY <3>1, AreMessages
    <3> QED
      BY <2>2, <3>2, <1>2
  <2> QED
    BY <1>7, <2>1, <2>2 DEF Poll, PollAsk, PollAnswer
<1>8. CASE UNCHANGED events
  BY <1>8, <1>1
<1> QED
  BY <1>4, <1>5, <1>6, <1>7, <1>8
     DEF Next, Operator, Environment, StartMicrophone, StartFile, Stop, Pause, Resume, Speak, Unplug,
         Replug, RetryDevice, vars

LEMMA CmdsTyped == ASSUME TypeOK, [Next]_vars PROVE cmds' \in Seq({"start", "stop"})
<1>1. cmds \in Seq({"start", "stop"})
  BY DEF TypeOK
<1>2. ASSUME NEW c \in {"start", "stop"}, cmds' = Append(cmds, c) PROVE cmds' \in Seq({"start", "stop"})
  BY <1>2, AfterAsking
<1>3. CASE cmds # <<>> /\ cmds' = Tail(cmds)
  BY <1>3, AfterDoing
<1>4. CASE UNCHANGED cmds
  BY <1>4, <1>1
<1> QED
  BY <1>2, <1>3, <1>4
     DEF Next, Operator, Environment, StartMicrophone, StartFile, Stop, Pause, Resume, Speak, Unplug,
         Replug, RetryDevice, vars, Slot, OnCaptureStarted, OnCaptureFailed, OnDeviceLost,
         OnSessionStarted, OnWorkerStatus, Teardown, ClosesMicrophone, OnLiveState, Capture,
         CaptureStart, CaptureStop, Drain, DeviceLost, Poll, PollAsk, PollAnswer, Worker, SendBack,
         StartOk, Fails, LoopPaused, LoopTake, LoopStop, SendOk, SendLost, StopSession, StopOk

\* The audio on its way.
LEMMA AudioTyped ==
    ASSUME TypeOK, OneAtATime, [Next]_vars
    PROVE  /\ device' \in Seq(1..MaxFrames) /\ queue' \in Seq(1..MaxFrames)
           /\ buf' \in [Meetings -> Seq(1..MaxFrames)] /\ sent' \in [Meetings -> Seq(1..MaxFrames)]
           /\ of' \in Seq(0..MaxMeetings) /\ excused' \subseteq 1..MaxFrames
<1> DEFINE FF == 1..MaxFrames
           Good == /\ device' \in Seq(FF) /\ queue' \in Seq(FF)
                   /\ buf' \in [Meetings -> Seq(FF)] /\ sent' \in [Meetings -> Seq(FF)]
                   /\ of' \in Seq(0..MaxMeetings) /\ excused' \subseteq FF
<1> SUFFICES Good
  OBVIOUS
<1>1. /\ device \in Seq(FF) /\ queue \in Seq(FF) /\ buf \in [Meetings -> Seq(FF)]
      /\ sent \in [Meetings -> Seq(FF)] /\ of \in Seq(0..MaxMeetings) /\ excused \subseteq FF
  BY DEF TypeOK
<1>2. <<>> \in Seq(FF) /\ \A s, t \in Seq(FF) : s \o t \in Seq(FF)
  OBVIOUS
<1>3. \A s \in Seq(FF) : ToSet(s) \subseteq FF
  BY Members
<1> HIDE DEF FF
<1>4. CASE UNCHANGED <<device, queue, buf, sent, of, excused>>
  BY <1>1, <1>4 DEF FF
<1>5. CASE StartMicrophone
  BY <1>1, <1>2, <1>5 DEF StartMicrophone, Configure, FF, workers, capture, history
<1>6. CASE Pause
  BY <1>1, <1>2, <1>3, <1>6 DEF Pause, FF, capture, audio
<1>7. ASSUME PushQueue(device), UNCHANGED <<buf, sent, of>>, device' = <<>> PROVE Good
  BY <1>1, <1>2, <1>3, <1>7 DEF PushQueue, FF
<1>8. CASE DeviceLost
  BY <1>1, <1>2, <1>3, <1>8 DEF DeviceLost, FF, audio, workers
<1>9. CASE OnDeviceLost
  BY <1>1, <1>2, <1>3, <1>9 DEF OnDeviceLost, FF, capture, workers
<1>10. CASE Speak
  <2>1. For \in 0..MaxMeetings
    BY ClientAssumption DEF For, TypeOK, OneAtATime
  <2>2. Len(of) + 1 \in FF
    BY <1>10, <1>1, ClientAssumption DEF Speak, FF
  <2>3. of' \in Seq(0..MaxMeetings)
    BY <1>10, <1>1, <2>1 DEF Speak
  <2>4. device' \in Seq(FF)
    BY <1>10, <1>1, <2>2 DEF Speak
  <2>5. excused' \subseteq FF
    BY <1>10, <1>1, <2>2 DEF Speak
  <2> QED
    BY <1>10, <1>1, <2>3, <2>4, <2>5 DEF Speak, FF, audio, workers
<1>11. ASSUME NEW w \in Meetings, LoopPaused(w) \/ LoopTake(w) \/ LoopStop(w) PROVE Good
  <2>1. buf[w] \in Seq(FF) /\ buf[w] \o queue \in Seq(FF) /\ ToSet(buf[w]) \subseteq FF
    BY <1>1, <1>2, <1>3
  <2>2. CASE LoopPaused(w)
    BY <1>1, <1>2, <2>1, <2>2 DEF LoopPaused, audio, capture
  <2>3. CASE LoopTake(w)
    BY <1>1, <1>2, <2>1, <2>3 DEF LoopTake, capture, history
  <2>4. CASE LoopStop(w)
    BY <1>1, <1>2, <2>1, <2>4 DEF LoopStop, LastLook, capture, history
  <2> QED
    BY <1>11, <2>2, <2>3, <2>4
<1>12. ASSUME NEW w \in Meetings, SendOk(w) PROVE Good
  <2> DEFINE size == IF Len(buf[w]) < Packet THEN Len(buf[w]) ELSE Packet
             a == SubSeq(buf[w], 1, size)
             b == SubSeq(buf[w], size + 1, Len(buf[w]))
  <2>1. buf[w] \in Seq(FF) /\ sent[w] \in Seq(FF) /\ Len(buf[w]) \in Nat /\ size \in 0..Len(buf[w])
    BY <1>1, ClientAssumption
  <2>2. a \in Seq(FF) /\ b \in Seq(FF)
    BY <2>1
  <2>3. sent' = [sent EXCEPT ![w] = @ \o a] /\ buf' = [buf EXCEPT ![w] = b]
    BY <1>12, <1>1 DEF SendOk
  <2> HIDE DEF size, a, b
  <2>4. buf' \in [Meetings -> Seq(FF)] /\ sent' \in [Meetings -> Seq(FF)]
    BY <1>1, <1>2, <2>1, <2>2, <2>3
  <2> QED
    BY <1>12, <1>1, <2>4 DEF SendOk, FF, audio, capture, history
<1>13. CASE CaptureStop \/ Drain
  BY <1>13, <1>7 DEF CaptureStop, Drain
<1> HIDE DEF Good
<1> QED
  BY <1>4, <1>5, <1>6, <1>8, <1>9, <1>10, <1>11, <1>12, <1>13
     DEF Next, Operator, Environment, StartFile, Begin, Stop, Resume, Unplug,
         Replug, RetryDevice, vars, Slot, OnCaptureStarted, OnCaptureFailed,
         OnSessionStarted, OnWorkerStatus, Teardown, OnLiveState, Capture,
         CaptureStart, Poll, PollAsk, PollAnswer, Worker, SendBack,
         StartOk, Fails, SendLost, StopSession, StopOk, capture, audio, workers, history

\* The rest.
Controls ==
    /\ worker \in 0..MaxMeetings /\ shown \in 0..MaxMeetings /\ polled \in 0..MaxMeetings
    /\ {pending, wanted, retry, open, present, silent} \subseteq BOOLEAN
    /\ mic \in {"idle", "starting", "recording", "paused", "network", "reconnecting",
                "finalizing", "stopped", "error"}
    /\ next \in 0..MaxMeetings /\ Len(queue) <= Capacity
    /\ kind \in [Meetings -> {"none", "microphone", "file"}]
    /\ pc \in [Meetings -> {"none", "starting", "loop", "push", "drain", "lost", "stopping",
                            "finished", "failed"}]
    /\ stop \cup paused \cup dropped \subseteq Meetings
    /\ held \in [Meetings -> {"none", "open", "done"}] /\ asking \in 0..MaxMeetings
    /\ faults \in 0..MaxFaults

LEMMA ControlsTyped ==
    ASSUME "pending" \notin Races, TypeOK, OneAtATime, [Next]_vars
    PROVE  Controls'
<1>0. Controls /\ Meetings = 1..MaxMeetings /\ MaxMeetings \in Nat /\ MaxFaults \in Nat
  BY ClientAssumption DEF Controls, TypeOK, Meetings
<1>1. Len(queue) \in Nat /\ Len(device) \in Nat /\ Len(<<>>) <= Capacity
      /\ Len(queue \o device) = Len(queue) + Len(device)
  BY Frames, ClientAssumption
<1>2. worker # 0 => worker \in Meetings
  BY <1>0 DEF Controls
<1>3. ASSUME PushQueue(device), UNCHANGED <<worker, pending, wanted, retry, mic, shown, next, kind, pc, stop,
                                   paused, held, polled, asking, present, faults, silent>>, open' \in BOOLEAN
      PROVE Controls'
  BY <1>0, <1>1, <1>2, <1>3 DEF Controls, PushQueue, Fits, Running
<1>4. CASE StartMicrophone
  BY <1>0, <1>1, <1>4 DEF Controls, StartMicrophone, Configure, capture, workers, poller, history
<1>5. CASE StartFile
  <2>1. next + 1 \in Meetings
    BY <1>0, <1>5 DEF Controls, StartFile
  <2>2. next' = next + 1 /\ worker' = next + 1
        /\ kind' = [kind EXCEPT ![next + 1] = "file"] /\ pc' = [pc EXCEPT ![next + 1] = "starting"]
    BY <1>5 DEF StartFile, Begin
  <2>3. next' \in 0..MaxMeetings /\ worker' \in 0..MaxMeetings
    BY <1>0, <2>1, <2>2
  <2> QED
    BY <1>0, <2>1, <2>2, <2>3, <1>5 DEF Controls, StartFile, capture, audio, poller, history
<1>6. CASE Stop
  BY <1>0, <1>2, <1>6 DEF Controls, Stop, Running, capture, audio, poller, history
<1>7. CASE Pause
  BY <1>0, <1>1, <1>2, <1>7 DEF Controls, Pause, Running, capture, audio, poller
<1>8. CASE Resume
  BY <1>0, <1>8 DEF Controls, Resume, capture, poller, history
<1>9. CASE RetryDevice
  BY <1>0, <1>9 DEF Controls, RetryDevice, Running, capture, audio, workers, poller, history
<1>10. CASE CaptureStart
  BY <1>0, <1>10 DEF Controls, CaptureStart, controller, audio, workers, poller, history
<1>11. CASE CaptureStop
  BY <1>0, <1>3, <1>11 DEF CaptureStop, controller, poller
<1>12. CASE Drain
  BY <1>0, <1>3, <1>12 DEF Drain, Controls, controller, poller
<1>13. CASE DeviceLost
  BY <1>0, <1>13 DEF Controls, DeviceLost, controller, audio, workers, poller
<1>14. CASE Speak \/ Unplug \/ Replug
  <2>1. CASE Speak
    BY <1>0, <2>1 DEF Controls, Speak, controller, audio, workers, poller
  <2>2. CASE Unplug
    <3>1. faults' \in 0..MaxFaults
      BY <1>0, <2>2 DEF Controls, Unplug, Fault
    <3>2. present' = FALSE /\ UNCHANGED <<controller, open, audio, workers, poller>>
      BY <2>2 DEF Unplug
    <3> QED
      BY <1>0, <3>1, <3>2 DEF Controls, controller, audio, workers, poller
  <2>3. CASE Replug
    BY <1>0, <2>3 DEF Controls, Replug, controller, audio, workers, poller, history
  <2> QED
    BY <1>14, <2>1, <2>2, <2>3
<1>15. ASSUME NEW w \in Meetings, Worker(w) \/ SendBack(w) PROVE Controls'
  <2>1. CASE StartOk(w)
    BY <1>0, <2>1 DEF Controls, StartOk, Goes, controller, capture, audio, poller, history
  <2>2. CASE Fails(w)
    BY <1>0, <2>2 DEF Controls, Fails, Goes, Fault, controller, capture, audio, poller
  <2>3. CASE LoopPaused(w)
    BY <1>0, <2>3 DEF Controls, LoopPaused, controller, capture, audio, poller
  <2>4. CASE LoopTake(w)
    BY <1>0, <1>1, <2>4 DEF Controls, LoopTake, Goes, controller, capture, poller, history
  <2>5. CASE LoopStop(w)
    BY <1>0, <1>1, <2>5 DEF Controls, LoopStop, Goes, controller, capture, poller, history
  <2>6. CASE SendOk(w)
    BY <1>0, <2>6 DEF Controls, SendOk, Goes, controller, capture, audio, poller, history
  <2>7. CASE SendLost(w)
    BY <1>0, <2>7 DEF Controls, SendLost, Goes, Fault, controller, capture, audio, poller
  <2>8. CASE SendBack(w)
    BY <1>0, <2>8 DEF Controls, SendBack, Goes, controller, capture, audio, poller, history
  <2>9. CASE StopSession(w)
    BY <1>0, <2>9 DEF Controls, StopSession, Goes, controller, capture, audio, poller, history
  <2>10. CASE StopOk(w)
    BY <1>0, <2>10 DEF Controls, StopOk, Goes, controller, capture, audio, poller, history
  <2> QED
    BY <1>15, <2>1, <2>2, <2>3, <2>4, <2>5, <2>6, <2>7, <2>8, <2>9, <2>10 DEF Worker
<1>16. CASE Poll
  BY <1>0, <1>16 DEF Controls, Poll, PollAsk, PollAnswer, controller, capture, audio, workers, history
<1>17. CASE OnCaptureStarted
  <2>1. pending => next + 1 \in Meetings
    BY <1>0 DEF Controls, OneAtATime
  <2>2. CASE pending
    <3>1. next' = next + 1 /\ worker' = next + 1 /\ mic' = mic
          /\ kind' = [kind EXCEPT ![next + 1] = "microphone"] /\ pc' = [pc EXCEPT ![next + 1] = "starting"]
      BY <1>17, <2>2 DEF OnCaptureStarted, Begin
    <3>2. next' \in 0..MaxMeetings /\ worker' \in 0..MaxMeetings
      BY <1>0, <2>1, <2>2, <3>1
    <3> QED
      BY <1>0, <2>1, <2>2, <3>1, <3>2, <1>17
         DEF Controls, OnCaptureStarted, capture, audio, poller, history
  <2>3. CASE ~pending
    BY <1>0, <2>3, <1>17 DEF Controls, OnCaptureStarted, capture, audio, poller, history
  <2> QED
    BY <2>2, <2>3
<1>18. CASE OnCaptureFailed
  BY <1>0, <1>18 DEF Controls, OnCaptureFailed, Running, capture, audio, workers, poller, history
<1>19. CASE OnDeviceLost
  BY <1>0, <1>1, <1>19 DEF Controls, OnDeviceLost, RetryAfterLoss, capture, workers, poller
<1>20. CASE OnSessionStarted
  <2>1. Who \in Meetings
    <3>1. Head(events) \in Messages /\ Head(events)[1] = "recording"
      BY <1>20, AfterEvent DEF OnSessionStarted
    <3> QED
      BY <3>1, AMessage DEF Who, WorkerKinds
  <2> QED
    BY <1>0, <2>1, <1>20 DEF Controls, OnSessionStarted, Followed, capture, audio, workers, history
<1>21. CASE OnWorkerStatus
  BY <1>0, <1>21 DEF Controls, OnWorkerStatus, Event, capture, audio, workers, poller, history
<1>22. CASE Teardown
  <2>1. stop' \subseteq Meetings
    BY <1>0, <1>2, <1>22 DEF Controls, Teardown, Running
  <2>2. /\ mic' \in {"error", "stopped"} /\ polled' = 0 /\ worker' = 0
        /\ wanted' \in BOOLEAN /\ retry' \in BOOLEAN
    BY <1>22 DEF Teardown, ClosesMicrophone
  <2> QED
    BY <1>0, <2>1, <2>2, <1>22 DEF Controls, Teardown, capture, audio, history
<1>23. CASE OnLiveState
  <2>1. Who \in Meetings
    <3>1. Head(events) \in Messages /\ Head(events)[1] = "state"
      BY <1>23, AfterEvent DEF OnLiveState
    <3> QED
      BY <3>1, AMessage DEF Who
  <2> QED
    BY <1>0, <2>1, <1>23 DEF Controls, OnLiveState, capture, audio, workers, history
<1>24. CASE UNCHANGED vars
  BY <1>0, <1>24 DEF Controls, vars, controller, capture, audio, workers, poller, history
<1> QED
  BY <1>4, <1>5, <1>6, <1>7, <1>8, <1>9, <1>10, <1>11, <1>12, <1>13, <1>14, <1>15, <1>16, <1>17,
     <1>18, <1>19, <1>20, <1>21, <1>22, <1>23, <1>24
     DEF Next, Operator, Capture, Environment, Slot

LEMMA TypeStep ==
    ASSUME "pending" \notin Races, TypeOK, OneAtATime, [Next]_vars
    PROVE  TypeOK'
BY EventsTyped, CmdsTyped, AudioTyped, ControlsTyped DEF TypeOK, Controls

-----------------------------------------------------------------------------
(* One session at a time.                                                  *)

\* A worker that still has something to do is the running one.
LEMMA RunningWorker ==
    ASSUME TypeOK, OneAtATime, NEW w \in Meetings, pc[w] \notin Over
    PROVE  worker = w /\ Running /\ w = next /\ kind[w] # "none"
<1>1. Meetings = 1..MaxMeetings /\ MaxMeetings \in Nat /\ next \in 0..MaxMeetings
  BY ClientAssumption DEF TypeOK, Meetings
<1>2. pc[w] # "none"
  BY DEF Over
<1>3. worker = w
  BY DEF OneAtATime
<1>4. worker = next
  BY <1>1, <1>3 DEF OneAtATime
<1>5. kind[w] # "none"
  BY <1>2 DEF OneAtATime
<1>6. Running
  BY <1>1, <1>3 DEF Running
<1> QED
  BY <1>3, <1>4, <1>5, <1>6

LEMMA OneAtATimeStep ==
    ASSUME "pending" \notin Races, TypeOK, OneAtATime, EndsAreLast, [Next]_vars
    PROVE  OneAtATime'
<1>0. Meetings = 1..MaxMeetings /\ MaxMeetings \in Nat /\ next \in 0..MaxMeetings
      /\ worker \in 0..MaxMeetings
  BY ClientAssumption DEF TypeOK, Meetings
<1>1. /\ pc \in [Meetings -> {"none", "starting", "loop", "push", "drain", "lost", "stopping",
                              "finished", "failed"}]
      /\ kind \in [Meetings -> {"none", "microphone", "file"}]
      /\ held \in [Meetings -> {"none", "open", "done"}]
      /\ buf \in [Meetings -> Seq(1..MaxFrames)] /\ sent \in [Meetings -> Seq(1..MaxFrames)]
  BY DEF TypeOK
<1>2. Running => worker \in Meetings /\ pc[worker] # "none" /\ worker = next
  BY <1>0 DEF Running, OneAtATime
\* A session begins.
<1>3. ASSUME NEW k \in {"microphone", "file"}, ~Running, next < MaxMeetings, Begin(k), pending' = FALSE,
             UNCHANGED <<buf, sent, stop, paused, dropped, held>>
      PROVE  OneAtATime'
  <2>1. next' = next + 1 /\ worker' = next + 1 /\ next + 1 \in Meetings
        /\ kind' = [kind EXCEPT ![next + 1] = k] /\ pc' = [pc EXCEPT ![next + 1] = "starting"]
    BY <1>0, <1>3 DEF Begin
  <2>2. \A w \in Meetings : pc[w] \in Over
    BY <1>0, <1>3 DEF OneAtATime, Running
  <2>3. \A w \in Meetings : w # next + 1 => pc'[w] = pc[w] /\ kind'[w] = kind[w]
    BY <1>1, <2>1
  <2>4. pc'[next + 1] = "starting" /\ kind'[next + 1] = k
    BY <1>1, <2>1
  <2>5. \A w \in Meetings : w > next + 1 <=> (w > next /\ w # next + 1)
    BY <1>0
  <2> QED
    BY <1>0, <1>3, <2>1, <2>2, <2>3, <2>4, <2>5 DEF OneAtATime, Running
\* A worker takes a step.
<1>4. ASSUME NEW w \in Meetings, pc[w] \notin Over, NEW to \in {"loop", "push", "drain", "lost", "stopping",
             "finished", "failed"}, pc' = [pc EXCEPT ![w] = to] \/ pc' = pc,
             \A v \in Meetings : v # w => buf'[v] = buf[v] /\ sent'[v] = sent[v] /\ held'[v] = held[v],
             UNCHANGED <<worker, pending, next, kind, stop, paused, dropped>>
      PROVE  OneAtATime'
  <2>1. worker = w /\ Running /\ w = next /\ kind[w] # "none"
    BY <1>4, RunningWorker
  <2>2. \A v \in Meetings : v # w => pc'[v] = pc[v]
    BY <1>1, <1>4
  <2>3. pc'[w] # "none" /\ pc[w] # "none"
    BY <1>1, <1>4 DEF Over
  <2> QED
    BY <1>4, <2>1, <2>2, <2>3 DEF OneAtATime, Running
\* The operator, a timer or another thread does.
<1>5. ASSUME UNCHANGED <<worker, next, kind, pc, held, buf, sent>>, pending' => ~Running /\ next < MaxMeetings,
             \A w \in Meetings : w \in stop' \cup paused' \cup dropped' =>
               w \in stop \cup paused \cup dropped \/ (Running /\ w = worker)
      PROVE  OneAtATime'
  BY <1>2, <1>5 DEF OneAtATime, Running
<1>6. CASE StartMicrophone
  BY <1>5, <1>6 DEF StartMicrophone, workers
<1>7. CASE StartFile
  <2>1. ~pending
    BY <1>7 DEF StartFile, NotPending
  <2>2. ~Running /\ next < MaxMeetings /\ Begin("file") /\ UNCHANGED <<buf, sent, stop, paused, dropped, held>>
        /\ UNCHANGED pending
    BY <1>7 DEF StartFile
  <2>3. pending' = FALSE
    BY <2>1, <2>2 DEF TypeOK
  <2> QED
    BY <1>3, <2>2, <2>3
<1>8. CASE Stop
  BY <1>5, <1>8 DEF Stop, OneAtATime
<1>9. CASE Pause
  BY <1>5, <1>9 DEF Pause, OneAtATime
<1>10. CASE Resume
  BY <1>5, <1>10 DEF Resume, OneAtATime
<1>11. CASE CaptureStart \/ DeviceLost \/ Speak \/ Unplug \/ Replug \/ RetryDevice
  BY <1>5, <1>11 DEF CaptureStart, DeviceLost, Speak, Unplug, Replug, RetryDevice, workers, controller,
                     OneAtATime
<1>12. ASSUME PushQueue(device), UNCHANGED <<worker, pending, next, kind, pc, buf, stop, paused, sent, held>>
       PROVE  OneAtATime'
  BY <1>5, <1>12 DEF PushQueue, OneAtATime
<1>13. CASE CaptureStop \/ Drain
  BY <1>12, <1>13 DEF CaptureStop, Drain, controller
<1>14. ASSUME NEW w \in Meetings, Worker(w) \/ SendBack(w) PROVE OneAtATime'
  <2>1. pc[w] \notin Over
    BY <1>14 DEF Worker, SendBack, StartOk, Fails, Sends, GivesUp, LoopPaused, LoopTake, LoopStop, SendOk,
                 SendLost, StopSession, StopOk, Over
  <2> DEFINE Others == \A v \in Meetings : v # w => buf'[v] = buf[v] /\ sent'[v] = sent[v] /\ held'[v] = held[v]
  <2>2. UNCHANGED <<worker, pending, next, kind, stop, paused, dropped>>
    BY <1>14 DEF Worker, SendBack, StartOk, Fails, LoopPaused, LoopTake, LoopStop, SendOk,
                 SendLost, StopSession, StopOk, controller
  <2>3. Others
    BY <1>14, <1>1 DEF Worker, SendBack, StartOk, Fails, LoopPaused, LoopTake, LoopStop, SendOk,
                 SendLost, StopSession, StopOk
  <2>4. pc' = pc \/ \E to \in {"loop", "push", "drain", "lost", "stopping", "finished", "failed"} :
                       pc' = [pc EXCEPT ![w] = to]
    BY <1>14 DEF Worker, SendBack, StartOk, Fails, LoopPaused, LoopTake, LoopStop, SendOk,
                 SendLost, StopSession, StopOk, Goes, Sends
  <2> QED
    BY <1>4, <2>1, <2>2, <2>3, <2>4
<1>15. CASE Poll
  BY <1>5, <1>15 DEF Poll, PollAsk, PollAnswer, workers, controller, OneAtATime
<1>16. CASE OnCaptureStarted
  <2>1. CASE pending
    BY <1>3, <1>16, <2>1 DEF OnCaptureStarted, OneAtATime
  <2>2. CASE ~pending
    BY <1>5, <1>16, <2>2 DEF OnCaptureStarted
  <2> QED
    BY <2>1, <2>2
<1>17. CASE OnCaptureFailed \/ OnDeviceLost \/ OnSessionStarted \/ OnWorkerStatus \/ OnLiveState
  BY <1>5, <1>17 DEF OnCaptureFailed, OnDeviceLost, OnSessionStarted, OnWorkerStatus, OnLiveState, workers,
                     OneAtATime
<1>18. CASE Teardown
  <2>1. Running /\ pc[worker] \in Over
    <3>1. 1 \in 1..Len(events) /\ events[1][1] \in {"finished", "error"}
      BY <1>18, AfterEvent DEF Teardown
    <3> QED
      BY <3>1 DEF EndsAreLast, Ends, WorkerKinds
  <2>2. /\ worker' = 0 /\ UNCHANGED <<pending, next, kind, pc, buf, paused, dropped, sent, held>>
        /\ stop' = stop \cup {worker}
    BY <1>18, <2>1 DEF Teardown
  <2> QED
    BY <1>2, <2>1, <2>2 DEF OneAtATime, Running
<1>19. CASE UNCHANGED vars
  BY <1>5, <1>19 DEF vars, controller, workers, OneAtATime
<1> QED
  BY <1>6, <1>7, <1>8, <1>9, <1>10, <1>11, <1>13, <1>14, <1>15, <1>16, <1>17, <1>18, <1>19
     DEF Next, Operator, Capture, Environment, Slot

\* The kinds are apart.
LEMMA Apart ==
    /\ CaptureKinds \cap WorkerKinds = {} /\ "state" \notin CaptureKinds \cup WorkerKinds
    /\ Ends \subseteq WorkerKinds /\ "recording" \in WorkerKinds \ Ends
BY DEF CaptureKinds, WorkerKinds, Ends

\* What a worker does is said in its own name, and it says its end at its end.
LEMMA WorkerSays ==
    ASSUME TypeOK, NEW w \in Meetings, Worker(w) \/ SendBack(w)
    PROVE  \/ UNCHANGED events
           \/ \E k \in WorkerKinds :
                /\ Post(<<k, w>>)
                /\ k \in Ends => pc'[w] \in Over
                /\ k = "recording" <=> StartOk(w)
<1>1. pc \in [Meetings -> {"none", "starting", "loop", "push", "drain", "lost", "stopping",
                              "finished", "failed"}]
  BY DEF TypeOK
<1>2. CASE StartOk(w)
  BY <1>2, Apart DEF StartOk
<1>3. CASE Fails(w)
  BY <1>3, <1>1, Apart DEF Fails, Goes, Over, WorkerKinds, StartOk
<1>4. CASE SendLost(w)
  BY <1>4, <1>1 DEF SendLost, WorkerKinds, Ends, StartOk, Sends
<1>5. CASE SendBack(w)
  BY <1>5, <1>1 DEF SendBack, WorkerKinds, Ends, StartOk
<1>6. CASE StopSession(w)
  BY <1>6, <1>1 DEF StopSession, WorkerKinds, Ends, StartOk
<1>7. CASE StopOk(w)
  BY <1>7, <1>1 DEF StopOk, WorkerKinds, Ends, Goes, Over, StartOk
<1> QED
  BY <1>2, <1>3, <1>4, <1>5, <1>6, <1>7 DEF Worker, LoopPaused, LoopTake, LoopStop, SendOk

LEMMA EndsAreLastStep ==
    ASSUME "pending" \notin Races, TypeOK, OneAtATime, EndsAreLast, [Next]_vars
    PROVE  EndsAreLast'
<1>0. ~Running => \A i \in 1..Len(events) : events[i][1] \notin WorkerKinds
  BY DEF EndsAreLast
<1>1. ASSUME UNCHANGED <<events, worker, pc>> PROVE EndsAreLast'
  BY <1>1 DEF EndsAreLast, Running
<1>2. ASSUME NEW e \in Messages, Post(e), e[1] \notin WorkerKinds, UNCHANGED <<worker, pc>> PROVE EndsAreLast'
  <2>1. /\ \A i \in 1..Len(events) : events'[i] = events[i] /\ i \in 1..Len(events')
        /\ events'[Len(events) + 1] = e
        /\ \A i \in 1..Len(events') : i \in 1..Len(events) \/ i = Len(events) + 1
    BY <1>2, AfterPost
  <2> QED
    BY <1>2, <2>1, Apart DEF EndsAreLast, Running
<1>3. ASSUME NEW kinds, Event(kinds),
             \/ UNCHANGED <<worker, pc>>
             \/ \A i \in 1..Len(events) : i # 1 => events[i][1] \notin WorkerKinds
      PROVE  EndsAreLast'
  <2>1. /\ \A i \in 1..Len(events') : events'[i] = events[i + 1] /\ i + 1 \in 1..Len(events) /\ 1 < i + 1
        /\ \A i, j \in 1..Len(events') : i < j => i + 1 < j + 1
    BY <1>3, AfterEvent
  <2>2. CASE UNCHANGED <<worker, pc>>
    BY <2>1, <2>2 DEF EndsAreLast, Running
  <2>3. CASE \A i \in 1..Len(events) : i # 1 => events[i][1] \notin WorkerKinds
    <3>1. \A i \in 1..Len(events') : events'[i][1] \notin WorkerKinds
      BY <2>1, <2>3
    <3> QED
      BY <3>1, Apart DEF EndsAreLast
  <2> QED
    BY <1>3, <2>2, <2>3
<1>4. ASSUME NEW w \in Meetings, Worker(w) \/ SendBack(w) PROVE EndsAreLast'
  <2>1. worker = w /\ Running /\ pc[w] \notin Over
    <3>1. pc[w] \notin Over
      BY <1>4 DEF Worker, SendBack, StartOk, Fails, Sends, GivesUp, LoopPaused, LoopTake, LoopStop, SendOk,
                 SendLost, StopSession, StopOk, Over
    <3> QED
      BY <3>1, RunningWorker
  <2>2. UNCHANGED worker
    BY <1>4 DEF Worker, SendBack, StartOk, Fails, LoopPaused, LoopTake, LoopStop, SendOk,
                 SendLost, StopSession, StopOk, controller
  <2>3. \A i \in 1..Len(events) : events[i][1] \notin Ends
    BY <2>1 DEF EndsAreLast
  <2>4. CASE UNCHANGED events
    BY <2>1, <2>2, <2>3, <2>4 DEF EndsAreLast, Running
  <2>5. ASSUME NEW k \in WorkerKinds, Post(<<k, w>>), k \in Ends => pc'[w] \in Over PROVE EndsAreLast'
    <3>1. <<k, w>> \in Messages /\ <<k, w>>[1] = k /\ <<k, w>>[2] = w
      BY AreMessages
    <3>2. /\ \A i \in 1..Len(events) : events'[i] = events[i] /\ i \in 1..Len(events')
          /\ events'[Len(events) + 1] = <<k, w>>
          /\ \A i \in 1..Len(events') : i \in 1..Len(events) \/ i = Len(events) + 1
          /\ Len(events) \in Nat /\ Len(events') = Len(events) + 1
      BY <2>5, <3>1, AfterPost
    <3>3. \A i \in 1..Len(events') : events'[i][1] \in Ends => i = Len(events) + 1 /\ k \in Ends
      BY <2>3, <3>1, <3>2
    <3>4. \A i, j \in 1..Len(events') : i < j => i # Len(events) + 1
      BY <3>2
    <3> QED
      BY <2>1, <2>2, <2>5, <3>1, <3>2, <3>3, <3>4 DEF EndsAreLast, Running
  <2> QED
    BY <1>4, <2>4, <2>5, WorkerSays
<1>5. CASE StartFile
  <2>1. \A i \in 1..Len(events) : events[i][1] \notin WorkerKinds
    BY <1>0, <1>5 DEF StartFile
  <2> QED
    BY <2>1, <1>5, Apart DEF StartFile, EndsAreLast
<1>6. CASE CaptureStart \/ DeviceLost
  <2>1. \E k \in CaptureKinds : Post(<<k>>)
    BY <1>6 DEF CaptureStart, DeviceLost, CaptureKinds
  <2>2. UNCHANGED <<worker, pc>>
    BY <1>6 DEF CaptureStart, DeviceLost, controller, workers
  <2> QED
    BY <1>2, <2>1, <2>2, AreMessages, Apart
<1>7. CASE Poll
  <2>0. asking # 0 => asking \in Meetings
    BY ClientAssumption DEF TypeOK, Meetings
  <2>1. UNCHANGED events \/ (Post(<<"state", asking, held[asking] = "done">>) /\ asking \in Meetings)
    BY <1>7, <2>0 DEF Poll, PollAsk, PollAnswer
  <2>2. UNCHANGED <<worker, pc>>
    BY <1>7 DEF Poll, PollAsk, PollAnswer, controller, workers
  <2>3. (held[asking] = "done") \in BOOLEAN
    OBVIOUS
  <2>4. asking \in Meetings => /\ <<"state", asking, held[asking] = "done">> \in Messages
                               /\ <<"state", asking, held[asking] = "done">>[1] = "state"
    BY <2>3, AreMessages
  <2> QED
    BY <1>1, <1>2, <2>1, <2>2, <2>4, Apart
<1>8. CASE OnCaptureStarted
  <2>1. CASE pending
    <3>1. \A i \in 1..Len(events) : events[i][1] \notin WorkerKinds
      BY <1>0, <2>1 DEF OneAtATime
    <3> QED
      BY <1>3, <1>8, <3>1 DEF OnCaptureStarted
  <2>2. CASE ~pending
    BY <1>3, <1>8, <2>2 DEF OnCaptureStarted
  <2> QED
    BY <2>1, <2>2
<1>9. CASE OnCaptureFailed \/ OnDeviceLost \/ OnSessionStarted \/ OnWorkerStatus \/ OnLiveState
  BY <1>3, <1>9 DEF OnCaptureFailed, OnDeviceLost, OnSessionStarted, OnWorkerStatus, OnLiveState, workers
<1>10. CASE Teardown
  <2>1. 1 \in 1..Len(events) /\ events[1][1] \in Ends /\ Len(events) \in Nat
    BY <1>10, AfterEvent DEF Teardown, Ends
  <2>2. \A i \in 1..Len(events) : i # 1 => 1 < i
    BY <2>1
  <2>3. \A i \in 1..Len(events) : i # 1 => events[i][1] \notin WorkerKinds
    BY <2>1, <2>2 DEF EndsAreLast
  <2> QED
    BY <1>3, <1>10, <2>3 DEF Teardown
<1>11. CASE StartMicrophone \/ Stop \/ Pause \/ Resume \/ CaptureStop \/ Drain \/ Speak \/ Unplug \/ Replug
            \/ RetryDevice \/ UNCHANGED vars
  BY <1>1, <1>11 DEF StartMicrophone, Stop, Pause, Resume, CaptureStop, Drain, Speak, Unplug, Replug,
                     RetryDevice, workers, controller, vars
<1> QED
  BY <1>4, <1>5, <1>6, <1>7, <1>8, <1>9, <1>10, <1>11
     DEF Next, Operator, Capture, Environment, Slot

-----------------------------------------------------------------------------
(* The poller.                                                             *)

LEMMA FollowingStep ==
    ASSUME Races \cap {"pending", "stale"} = {}, TypeOK, OneAtATime, EndsAreLast, Following, [Next]_vars
    PROVE  Following'
<1>0. Meetings = 1..MaxMeetings /\ MaxMeetings \in Nat /\ worker \in 0..MaxMeetings /\ next \in 0..MaxMeetings
      /\ held \in [Meetings -> {"none", "open", "done"}]
      /\ (Running => worker \in Meetings /\ pc[worker] # "none" /\ worker = next)
  BY ClientAssumption DEF TypeOK, Meetings, OneAtATime, Running
<1>1. ASSUME UNCHANGED <<events, worker, held, polled, shown, asking>> PROVE Following'
  BY <1>1 DEF Following, Running
\* Another thread says something that is no state and no start.
<1>2. ASSUME NEW e \in Messages, Post(e), e[1] \notin {"state", "recording"},
             UNCHANGED <<worker, polled, shown, asking>>,
             held' = held \/ (Running /\ held' = [held EXCEPT ![worker] = "done"])
      PROVE  Following'
  <2>1. /\ \A i \in 1..Len(events) : events'[i] = events[i] /\ i \in 1..Len(events')
        /\ events'[Len(events) + 1] = e
        /\ \A i \in 1..Len(events') : i \in 1..Len(events) \/ i = Len(events) + 1
    BY <1>2, AfterPost
  <2>2. Running => held'[worker] \in {held[worker], "done"}
    BY <1>0, <1>2
  <2>3. (\A i \in 1..Len(events') : events'[i][1] # "recording")
          <=> (\A i \in 1..Len(events) : events[i][1] # "recording")
    BY <1>2, <2>1
  <2> QED
    BY <1>2, <2>1, <2>2, <2>3 DEF Following, Running
\* A slot runs that is none of the three that matter here.
<1>3. ASSUME NEW kinds, Event(kinds), kinds \cap {"state", "recording"} = {},
             UNCHANGED <<worker, polled, shown, asking, held>>
      PROVE  Following'
  <2>1. /\ \A i \in 1..Len(events') : events'[i] = events[i + 1] /\ i + 1 \in 1..Len(events) /\ 1 < i + 1
        /\ \A i \in 1..Len(events) : i # 1 => i - 1 \in 1..Len(events') /\ events'[i - 1] = events[i]
        /\ events[1][1] \notin {"state", "recording"} /\ Len(events') \in Nat /\ Len(events) \in Nat
    BY <1>3, AfterEvent
  <2>2. (\A i \in 1..Len(events') : events'[i][1] # "recording")
          => (\A i \in 1..Len(events) : events[i][1] # "recording")
    BY <2>1
  <2>3. \A i, j \in 1..Len(events) : j < i => i # 1 /\ (j # 1 => j - 1 < i - 1)
    BY <2>1
  <2>4. \A j \in 1..Len(events') : (\E i \in 1..Len(events) : j + 1 < i /\ events[i][1] = "recording")
          => \E i \in 1..Len(events') : j < i /\ events'[i][1] = "recording"
    <3> TAKE j \in 1..Len(events')
    <3> HAVE \E i \in 1..Len(events) : j + 1 < i /\ events[i][1] = "recording"
    <3>1. PICK i \in 1..Len(events) : j + 1 < i /\ events[i][1] = "recording"
      OBVIOUS
    <3>2. i # 1 /\ j < i - 1
      BY <3>1, <2>1
    <3> QED
      BY <3>1, <3>2, <2>1
  <2>5. CASE ~Running \/ held[worker] = "none"
    BY <1>3, <2>1, <2>5 DEF Following, Running
  <2>6. CASE Running /\ held[worker] = "open"
    <3>1. \A j \in 1..Len(events') : events'[j][1] = "state" =>
              \/ events'[j][2] = worker /\ events'[j][3] = FALSE
              \/ \E i \in 1..Len(events') : j < i /\ events'[i][1] = "recording"
      <4> SUFFICES ASSUME NEW j \in 1..Len(events'), events'[j][1] = "state"
                   PROVE  \/ events'[j][2] = worker /\ events'[j][3] = FALSE
                          \/ \E i \in 1..Len(events') : j < i /\ events'[i][1] = "recording"
        OBVIOUS
      <4>1. events'[j] = events[j + 1] /\ j + 1 \in 1..Len(events)
        BY <2>1
      <4>2. \A k \in 1..Len(events) : events[k][1] = "state" =>
              \/ events[k][2] = worker /\ events[k][3] = FALSE
              \/ \E i \in 1..Len(events) : k < i /\ events[i][1] = "recording"
        BY <2>6 DEF Following
      <4>3. \/ events[j + 1][2] = worker /\ events[j + 1][3] = FALSE
            \/ \E i \in 1..Len(events) : j + 1 < i /\ events[i][1] = "recording"
        BY <4>1, <4>2
      <4> QED
        BY <2>4, <4>1, <4>3
    <3>2. (\A i \in 1..Len(events') : events'[i][1] # "recording") => polled = worker /\ shown = worker
      BY <2>2, <2>6 DEF Following
    <3>3. polled \in {0, worker} /\ asking \in {0, worker}
      BY <2>6 DEF Following
    <3> QED
      BY <1>3, <2>6, <3>1, <3>2, <3>3 DEF Following, Running
  <2>7. CASE Running /\ held[worker] = "done"
    BY <1>3, <2>7 DEF Following, Running
  <2> QED
    BY <1>0, <2>5, <2>6, <2>7
\* A session begins.
<1>4. ASSUME NEW k, ~Running, Begin(k), UNCHANGED <<held, polled, shown, asking>>, next < MaxMeetings,
             \A i \in 1..Len(events') : events'[i][1] # "recording"
      PROVE  Following'
  <2>1. worker' = next + 1 /\ next + 1 \in Meetings /\ next + 1 > next /\ polled = 0
    BY <1>0, <1>4 DEF Begin, Following, Running
  <2>2. held[next + 1] = "none"
    BY <2>1 DEF OneAtATime
  <2> QED
    BY <1>4, <2>1, <2>2 DEF Following, Running
<1>5. ~Running => \A i \in 1..Len(events) : events[i][1] # "recording"
  BY Apart DEF EndsAreLast
<1>6. CASE StartFile
  BY <1>4, <1>5, <1>6 DEF StartFile, poller
<1>7. CASE OnCaptureStarted
  <2>1. CASE pending
    <3>1. \A i \in 1..Len(events') : events'[i] = events[i + 1] /\ i + 1 \in 1..Len(events)
      BY <1>7, AfterEvent DEF OnCaptureStarted
    <3>2. ~Running /\ next < MaxMeetings
      BY <2>1 DEF OneAtATime
    <3>3. \A i \in 1..Len(events') : events'[i][1] # "recording"
      BY <1>5, <3>1, <3>2
    <3> QED
      BY <1>4, <1>7, <2>1, <3>2, <3>3 DEF OnCaptureStarted, poller
  <2>2. CASE ~pending
    BY <1>3, <1>7, <2>2 DEF OnCaptureStarted, poller
  <2> QED
    BY <2>1, <2>2
\* The worker.
<1>8. ASSUME NEW w \in Meetings, Worker(w) \/ SendBack(w) PROVE Following'
  <2>1. worker = w /\ Running
    <3>1. pc[w] \notin Over
      BY <1>8 DEF Worker, SendBack, StartOk, Fails, Sends, GivesUp, LoopPaused, LoopTake, LoopStop, SendOk,
                 SendLost, StopSession, StopOk, Over
    <3> QED
      BY <3>1, RunningWorker
  <2>2. UNCHANGED <<worker, polled, shown, asking>>
    BY <1>8 DEF Worker, SendBack, StartOk, Fails, LoopPaused, LoopTake, LoopStop, SendOk,
                 SendLost, StopSession, StopOk, controller, poller
  <2>3. CASE StartOk(w)
    <3> DEFINE e == <<"recording", w>>
    <3>1. e \in Messages /\ e[1] = "recording" /\ Post(e)
      BY <2>3, AreMessages, Apart DEF StartOk
    <3> HIDE DEF e
    <3>2. /\ events'[Len(events) + 1] = e /\ Len(events) + 1 \in 1..Len(events') /\ Len(events) \in Nat
          /\ \A i \in 1..Len(events) : events'[i] = events[i] /\ i \in 1..Len(events')
          /\ \A i \in 1..Len(events') : i \in 1..Len(events) \/ i = Len(events) + 1
      BY <3>1, AfterPost
    <3>3. \A j \in 1..Len(events') : events'[j][1] = "state" => j < Len(events) + 1
      BY <3>1, <3>2
    <3>4. \A j \in 1..Len(events') : events'[j][1] = "state" =>
            \E i \in 1..Len(events') : j < i /\ events'[i][1] = "recording"
      BY <3>1, <3>2, <3>3
    <3>5. asking \in {0, w} /\ held'[w] = "open"
      BY <1>0, <2>3 DEF StartOk, NoStalePoll
    <3> QED
      BY <2>1, <2>2, <3>1, <3>2, <3>4, <3>5 DEF Following, Running
  <2>4. CASE ~StartOk(w)
    <3>1. held' = held \/ held' = [held EXCEPT ![worker] = "done"]
      BY <1>8, <2>1, <2>4 DEF Worker, SendBack, Fails, LoopPaused, LoopTake, LoopStop, SendOk,
                 SendLost, StopSession, StopOk
    <3>2. CASE UNCHANGED events
      <4>1. held'[worker] \in {held[worker], "done"}
        BY <1>0, <2>1, <3>1
      <4> QED
        BY <2>1, <2>2, <3>2, <4>1 DEF Following, Running
    <3>3. ASSUME NEW k \in WorkerKinds, Post(<<k, w>>), k # "recording" PROVE Following'
      <4>1. <<k, w>> \in Messages /\ <<k, w>>[1] \notin {"state", "recording"}
        BY <3>3, AreMessages, Apart
      <4> QED
        BY <1>2, <2>1, <2>2, <3>1, <3>3, <4>1
    <3> QED
      BY <1>8, <2>4, <3>2, <3>3, WorkerSays
  <2> QED
    BY <2>3, <2>4
<1>9. CASE CaptureStart \/ DeviceLost
  <2>1. \E k \in CaptureKinds : Post(<<k>>)
    BY <1>9 DEF CaptureStart, DeviceLost, CaptureKinds
  <2>2. UNCHANGED <<worker, polled, shown, asking, held>>
    BY <1>9 DEF CaptureStart, DeviceLost, controller, workers, poller
  <2>3. \A k \in CaptureKinds : <<k>> \in Messages /\ <<k>>[1] \notin {"state", "recording"}
    BY AreMessages, Apart
  <2> QED
    BY <1>2, <2>1, <2>2, <2>3
\* The poller.
<1>10. CASE PollAsk \/ (PollAnswer /\ UNCHANGED events)
  BY <1>10 DEF PollAsk, PollAnswer, Following, Running, controller, workers
<1>11. CASE PollAnswer /\ Post(<<"state", asking, held[asking] = "done">>)
  <2> DEFINE e == <<"state", asking, held[asking] = "done">>
  <2>1. asking \in Meetings
    BY <1>0, <1>11 DEF PollAnswer, TypeOK
  <2>2. e \in Messages /\ e[1] = "state" /\ e[2] = asking /\ e[3] = (held[asking] = "done")
    <3>1. (held[asking] = "done") \in BOOLEAN
      OBVIOUS
    <3> QED
      BY <2>1, <3>1, AreMessages
  <2>3. Post(e) /\ asking' = 0 /\ UNCHANGED <<worker, polled, shown, held>>
    BY <1>11 DEF PollAnswer, controller, workers
  <2> HIDE DEF e
  <2>4. /\ \A i \in 1..Len(events) : events'[i] = events[i] /\ i \in 1..Len(events')
        /\ events'[Len(events) + 1] = e
        /\ \A i \in 1..Len(events') : i \in 1..Len(events) \/ i = Len(events) + 1
    BY <2>2, <2>3, AfterPost
  <2>5. (\A i \in 1..Len(events') : events'[i][1] # "recording")
          <=> (\A i \in 1..Len(events) : events[i][1] # "recording")
    BY <2>2, <2>4
  <2>6. CASE Running /\ held[worker] = "open"
    <3>1. asking = worker /\ e[2] = worker /\ e[3] = FALSE
      <4>1. asking = worker
        BY <1>0, <2>1, <2>6 DEF Following
      <4>2. held[asking] # "done"
        BY <2>6, <4>1
      <4> QED
        BY <2>2, <4>1, <4>2
    <3>2. \A j \in 1..Len(events') : events'[j][1] = "state" =>
              \/ events'[j][2] = worker /\ events'[j][3] = FALSE
              \/ \E i \in 1..Len(events') : j < i /\ events'[i][1] = "recording"
      BY <2>4, <2>6, <3>1 DEF Following
    <3> QED
      BY <2>3, <2>5, <2>6, <3>2 DEF Following, Running
  <2>7. CASE ~(Running /\ held[worker] = "open")
    BY <2>3, <2>5, <2>7 DEF Following, Running
  <2> QED
    BY <2>6, <2>7
\* The slots that matter.
<1>12. CASE OnSessionStarted
  <2>1. /\ \A i \in 1..Len(events') : events'[i] = events[i + 1] /\ i + 1 \in 1..Len(events) /\ 1 < i + 1
        /\ \A i \in 1..Len(events) : i # 1 => i - 1 \in 1..Len(events') /\ events'[i - 1] = events[i]
        /\ 1 \in 1..Len(events) /\ events[1] = Head(events) /\ events[1][1] = "recording"
        /\ Len(events) \in Nat
    BY <1>12, AfterEvent DEF OnSessionStarted
  <2>2. Running /\ Who = worker /\ held[worker] # "none"
    BY <2>1, Apart DEF EndsAreLast, Following, Who
  <2>3. shown' = worker /\ polled' = worker /\ UNCHANGED <<worker, held, asking>>
    BY <1>12, <2>2 DEF OnSessionStarted, Followed, workers
  <2>4. \A j \in 1..Len(events') : (\E i \in 1..Len(events) : j + 1 < i /\ events[i][1] = "recording")
          => \E i \in 1..Len(events') : j < i /\ events'[i][1] = "recording"
    <3> TAKE j \in 1..Len(events')
    <3> HAVE \E i \in 1..Len(events) : j + 1 < i /\ events[i][1] = "recording"
    <3>1. PICK i \in 1..Len(events) : j + 1 < i /\ events[i][1] = "recording"
      OBVIOUS
    <3>2. i # 1 /\ j < i - 1
      BY <3>1, <2>1
    <3> QED
      BY <3>1, <3>2, <2>1
  <2>5. held[worker] = "open" => \A j \in 1..Len(events') : events'[j][1] = "state" =>
              \/ events'[j][2] = worker /\ events'[j][3] = FALSE
              \/ \E i \in 1..Len(events') : j < i /\ events'[i][1] = "recording"
    BY <2>1, <2>2, <2>4 DEF Following
  <2> QED
    BY <2>2, <2>3, <2>5 DEF Following, Running
<1>13. CASE OnLiveState
  <2>1. /\ \A i \in 1..Len(events') : events'[i] = events[i + 1] /\ i + 1 \in 1..Len(events) /\ 1 < i + 1
        /\ \A i \in 1..Len(events) : i # 1 => i - 1 \in 1..Len(events') /\ events'[i - 1] = events[i]
        /\ 1 \in 1..Len(events) /\ events[1] = Head(events) /\ events[1][1] = "state"
        /\ Len(events) \in Nat /\ Head(events) \in Messages
    BY <1>13, AfterEvent DEF OnLiveState
  <2>2. polled' \in {0, polled} /\ shown' = events[1][2] /\ (events[1][3] = FALSE => polled' = polled)
        /\ UNCHANGED <<worker, held, asking>>
    BY <1>13, <2>1 DEF OnLiveState, Who, workers
  <2>3. (\A i \in 1..Len(events') : events'[i][1] # "recording")
          => (\A i \in 1..Len(events) : events[i][1] # "recording")
    BY <2>1
  <2>4. \A j \in 1..Len(events') : (\E i \in 1..Len(events) : j + 1 < i /\ events[i][1] = "recording")
          => \E i \in 1..Len(events') : j < i /\ events'[i][1] = "recording"
    <3> TAKE j \in 1..Len(events')
    <3> HAVE \E i \in 1..Len(events) : j + 1 < i /\ events[i][1] = "recording"
    <3>1. PICK i \in 1..Len(events) : j + 1 < i /\ events[i][1] = "recording"
      OBVIOUS
    <3>2. i # 1 /\ j < i - 1
      BY <3>1, <2>1
    <3> QED
      BY <3>1, <3>2, <2>1
  <2>5. CASE Running /\ held[worker] = "open"
    <3>1. \A j \in 1..Len(events') : events'[j][1] = "state" =>
              \/ events'[j][2] = worker /\ events'[j][3] = FALSE
              \/ \E i \in 1..Len(events') : j < i /\ events'[i][1] = "recording"
      BY <2>1, <2>4, <2>5 DEF Following
    <3>2. ASSUME \A i \in 1..Len(events') : events'[i][1] # "recording"
          PROVE  polled' = worker /\ shown' = worker
      BY <2>1, <2>2, <2>3, <2>5, <3>2 DEF Following
    <3> QED
      BY <2>2, <2>5, <3>1, <3>2 DEF Following, Running
  <2>6. CASE Running /\ held[worker] = "none"
    <3>1. polled' = 0 /\ \A i \in 1..Len(events') : events'[i][1] # "recording"
      BY <2>1, <2>2, <2>6 DEF Following
    <3> QED
      BY <2>2, <2>6, <3>1 DEF Following, Running
  <2>7. CASE ~Running \/ held[worker] = "done"
    BY <2>2, <2>7 DEF Following, Running
  <2> QED
    BY <1>0, <2>5, <2>6, <2>7
<1>14. CASE Teardown
  BY <1>14 DEF Teardown, Following, Running
<1>15. CASE OnCaptureFailed \/ OnDeviceLost \/ OnWorkerStatus
  BY <1>3, <1>15 DEF OnCaptureFailed, OnDeviceLost, OnWorkerStatus, workers, poller
<1>16. CASE StartMicrophone \/ Stop \/ Pause \/ Resume \/ CaptureStop \/ Drain \/ Speak \/ Unplug \/ Replug
            \/ RetryDevice \/ UNCHANGED vars
  BY <1>1, <1>16 DEF StartMicrophone, Stop, Pause, Resume, CaptureStop, Drain, Speak, Unplug, Replug,
                     RetryDevice, workers, controller, poller, vars
<1> QED
  BY <1>6, <1>7, <1>8, <1>9, <1>10, <1>11, <1>12, <1>13, <1>14, <1>15, <1>16
     DEF Next, Operator, Capture, Environment, Slot, Poll, PollAnswer

-----------------------------------------------------------------------------
(* The microphone.                                                         *)

\* Nobody but the capture thread speaks for it.
LEMMA CaptureSpeaks ==
    ASSUME TypeOK, OneAtATime,
           UNCHANGED events \/ (\E e \in Messages : Post(e) /\ e[1] \notin CaptureKinds)
             \/ (\E kinds : Event(kinds)),
           NEW K \in SUBSET CaptureKinds, Posted(K)'
    PROVE  Posted(K)
<1>1. PICK i \in 1..Len(events') : events'[i][1] \in K
  BY DEF Posted
<1>2. CASE UNCHANGED events
  BY <1>1, <1>2 DEF Posted
<1>3. ASSUME NEW e \in Messages, Post(e), e[1] \notin CaptureKinds PROVE Posted(K)
  <2>1. i \in 1..Len(events) /\ events'[i] = events[i]
    BY <1>1, <1>3, AfterPost
  <2> QED
    BY <1>1, <2>1 DEF Posted
<1>4. ASSUME NEW kinds, Event(kinds) PROVE Posted(K)
  <2>1. i + 1 \in 1..Len(events) /\ events'[i] = events[i + 1]
    BY <1>1, <1>4, AfterEvent
  <2> QED
    BY <1>1, <2>1 DEF Posted
<1> QED
  BY <1>2, <1>3, <1>4

LEMMA WorkerIsNoCapture ==
    ASSUME TypeOK, NEW w \in Meetings, Worker(w) \/ SendBack(w)
    PROVE  UNCHANGED events \/ \E e \in Messages : Post(e) /\ e[1] \notin CaptureKinds
<1>1. \A k \in WorkerKinds : <<k, w>> \in Messages /\ <<k, w>>[1] \notin CaptureKinds
  BY AreMessages, Apart
<1> QED
  BY <1>1, WorkerSays

LEMMA PollIsNoCapture ==
    ASSUME TypeOK, Poll
    PROVE  UNCHANGED events \/ \E e \in Messages : Post(e) /\ e[1] \notin CaptureKinds
<1>0. asking # 0 => asking \in Meetings
  BY ClientAssumption DEF TypeOK, Meetings
<1>1. UNCHANGED events \/ (Post(<<"state", asking, held[asking] = "done">>) /\ asking \in Meetings)
  BY <1>0 DEF Poll, PollAsk, PollAnswer
<1>2. (held[asking] = "done") \in BOOLEAN
  OBVIOUS
<1>3. asking \in Meetings => /\ <<"state", asking, held[asking] = "done">> \in Messages
                             /\ <<"state", asking, held[asking] = "done">>[1] = "state"
  BY <1>2, AreMessages
<1> QED
  BY <1>1, <1>3, Apart

LEMMA MicrophoneStep ==
    ASSUME Races \cap {"pending", "click"} = {}, TypeOK, OneAtATime, EndsAreLast, Microphone, [Next]_vars
    PROVE  Microphone'
<1>0. Meetings = 1..MaxMeetings /\ MaxMeetings \in Nat /\ worker \in 0..MaxMeetings /\ next \in 0..MaxMeetings
      /\ {pending, wanted, open, present} \subseteq BOOLEAN
  BY ClientAssumption DEF TypeOK, Meetings
<1>1. {"failed"} \in SUBSET CaptureKinds /\ CaptureKinds \in SUBSET CaptureKinds
  BY DEF CaptureKinds
\* What is none of the microphone's business.
<1>2. ASSUME UNCHANGED events \/ (\E e \in Messages : Post(e) /\ e[1] \notin CaptureKinds)
               \/ (\E kinds : Event(kinds)),
             UNCHANGED <<worker, wanted, pending, cmds, open>>, stop' = stop, device' = device \/ open
      PROVE  Microphone'
  BY <1>1, <1>2, CaptureSpeaks DEF Microphone, Running
<1>3. CASE StartMicrophone
  <2>1. ~Running /\ ~pending /\ CaptureIsIdle
    BY <1>3 DEF StartMicrophone, NotPending, Unhurried
  <2>2. cmds = <<>> /\ ~wanted /\ ~open /\ device = <<>> /\ ~Posted(CaptureKinds)
    BY <2>1 DEF Microphone, CaptureIsIdle, Posted, CaptureKinds
  <2>3. cmds' = <<"start">>
    BY <1>3, <2>2 DEF StartMicrophone
  <2>4. /\ wanted' = TRUE /\ pending' = TRUE /\ UNCHANGED <<worker, events, open, device, stop>>
    BY <1>3 DEF StartMicrophone, capture, workers
  <2>5. ~Posted(CaptureKinds)'
    BY <2>2, <2>4 DEF Posted
  <2>6. ~Posted({"failed"})'
    BY <2>5 DEF Posted, CaptureKinds
  <2> QED
    BY <2>1, <2>2, <2>3, <2>4, <2>5, <2>6 DEF Microphone, Running
<1>4. CASE StartFile
  <2>1. ~Running /\ ~pending /\ ~wanted
    BY <1>4 DEF StartFile, NotPending, Microphone
  <2>2. wanted' = FALSE /\ UNCHANGED <<pending, events, cmds, open, device, stop>>
    BY <1>4 DEF StartFile, capture
  <2> QED
    BY <2>1, <2>2 DEF Microphone
<1>5. CASE Stop
  <2>1. Running /\ ~pending
    BY <1>5 DEF Stop, OneAtATime
  <2>2. wanted => cmds' # <<>> /\ cmds'[Len(cmds')] = "stop"
    BY <1>5, AfterAsking DEF Stop
  <2>3. ~wanted => cmds' = cmds
    BY <1>5 DEF Stop
  <2>4. wanted' = FALSE /\ UNCHANGED <<worker, pending, open, device>>
    BY <1>5 DEF Stop, capture
  <2> QED
    BY <2>1, <2>2, <2>3, <2>4 DEF Microphone, Running
<1>6. CASE RetryDevice
  <2>1. CASE wanted /\ Running
    <3>1. ~pending
      BY <2>1 DEF OneAtATime
    <3> QED
      BY <1>6, <2>1, <3>1 DEF RetryDevice, Microphone, Running, capture, workers
  <2>2. CASE ~(wanted /\ Running)
    <3>1. retry' = FALSE
      BY <1>6, <2>2 DEF RetryDevice
    <3> QED
      BY <1>2, <1>6, <3>1 DEF RetryDevice, capture, workers
  <2> QED
    BY <2>1, <2>2
<1>7. CASE CaptureStart
  <2>1. /\ cmds # <<>> /\ Head(cmds) = "start" /\ cmds' = Tail(cmds)
        /\ open' = (open \/ present) /\ UNCHANGED <<worker, wanted, pending, device, stop>>
    BY <1>7 DEF CaptureStart, controller, workers
  <2>2. /\ cmds' # <<>> => cmds'[Len(cmds')] = cmds[Len(cmds)]
        /\ cmds' = <<>> => Head(cmds) = cmds[Len(cmds)]
        /\ cmds = <<"start">> => cmds' = <<>>
    BY <2>1, AfterDoing
  <2>3. ASSUME pending, Posted({"failed"})' PROVE cmds' = <<>> /\ ~open'
    <3>1. cmds = <<"start">> /\ ~open /\ ~Posted(CaptureKinds)
      BY <2>1, <2>3 DEF Microphone
    <3>2. ASSUME open' PROVE FALSE
      <4>1. Post(<<"opened">>) /\ <<"opened">> \in Messages /\ <<"opened">>[1] = "opened"
        BY <1>7, <3>1, <3>2, <2>1, AreMessages DEF CaptureStart, CaptureKinds
      <4>2. PICK i \in 1..Len(events') : events'[i][1] = "failed"
        BY <2>3 DEF Posted
      <4>3. i \in 1..Len(events) /\ events'[i] = events[i]
        BY <4>1, <4>2, AfterPost
      <4> QED
        BY <3>1, <4>2, <4>3 DEF Posted, CaptureKinds
    <3> QED
      BY <2>2, <3>1, <3>2
  <2>4. pending => cmds = <<"start">> /\ cmds' = <<>>
    BY <2>1, <2>2 DEF Microphone
  <2>5. ~open' => ~open
    BY <2>1
  <2> QED
    BY <2>1, <2>2, <2>3, <2>4, <2>5 DEF Microphone, Running
<1>8. CASE CaptureStop
  <2>1. /\ cmds # <<>> /\ Head(cmds) = "stop" /\ cmds' = Tail(cmds)
        /\ open' = FALSE /\ device' = <<>> /\ UNCHANGED <<worker, wanted, pending, events, stop>>
    BY <1>8 DEF CaptureStop, controller
  <2>2. cmds' # <<>> => cmds'[Len(cmds')] = cmds[Len(cmds)]
    BY <2>1, AfterDoing
  <2>3. ~pending
    BY <2>1 DEF Microphone
  <2> QED
    BY <2>1, <2>2, <2>3 DEF Microphone, Running
<1>9. CASE Drain \/ Speak
  BY <1>2, <1>9 DEF Drain, Speak, controller, workers
<1>10. CASE DeviceLost
  <2>1. /\ open /\ open' = FALSE /\ device' = <<>> /\ UNCHANGED <<worker, wanted, pending, cmds, stop>>
        /\ Post(<<"lost">>)
    BY <1>10 DEF DeviceLost, controller, workers
  <2>2. pending => cmds = <<>>
    BY <2>1 DEF Microphone
  <2> QED
    BY <2>1, <2>2 DEF Microphone, Running
<1>11. ASSUME NEW w \in Meetings, Worker(w) \/ SendBack(w) PROVE Microphone'
  <2>1. UNCHANGED <<worker, wanted, pending, cmds, open, stop, device>>
    BY <1>11 DEF Worker, SendBack, StartOk, Fails, LoopPaused, LoopTake, LoopStop, SendOk,
                 SendLost, StopSession, StopOk, controller, capture
  <2> QED
    BY <1>2, <1>11, <2>1, WorkerIsNoCapture
<1>12. CASE Poll
  <2>1. UNCHANGED <<worker, wanted, pending, cmds, open, stop, device>>
    BY <1>12 DEF Poll, PollAsk, PollAnswer, controller, capture, workers
  <2> QED
    BY <1>2, <1>12, <2>1, PollIsNoCapture
<1>13. CASE OnCaptureStarted
  <2>1. \E kinds : Event(kinds)
    BY <1>13 DEF OnCaptureStarted
  <2>2. CASE pending
    <3>1. worker' = next + 1 /\ next + 1 \in Meetings /\ pending' = FALSE /\ UNCHANGED <<wanted, cmds, open, device, stop>>
      BY <1>0, <1>13, <2>2 DEF OnCaptureStarted, Begin, OneAtATime, capture
    <3>2. next + 1 \notin stop /\ next + 1 # 0
      BY <1>0, <3>1 DEF OneAtATime
    <3> QED
      BY <3>1, <3>2 DEF Microphone, Running
  <2>3. CASE ~pending
    <3>1. pending' = pending
      BY <1>0, <1>13, <2>3 DEF OnCaptureStarted
    <3> QED
      BY <1>2, <1>13, <2>1, <2>3, <3>1 DEF OnCaptureStarted, capture
  <2> QED
    BY <2>2, <2>3
<1>14. CASE OnCaptureFailed
  <2>1. 1 \in 1..Len(events) /\ events[1][1] = "failed"
    BY <1>14, AfterEvent DEF OnCaptureFailed
  <2>2. Posted({"failed"})
    BY <2>1 DEF Posted
  <2>3. pending' = FALSE /\ UNCHANGED <<worker, cmds, open, device, stop>>
    BY <1>14 DEF OnCaptureFailed, capture, workers
  <2>4. CASE pending
    <3>1. wanted' = FALSE /\ cmds = <<>> /\ ~open
      BY <1>0, <1>14, <2>2, <2>4 DEF OnCaptureFailed, Microphone
    <3> QED
      BY <2>3, <3>1 DEF Microphone
  <2>5. CASE ~pending
    <3>1. wanted' = wanted
      BY <1>0, <1>14, <2>5 DEF OnCaptureFailed
    <3> QED
      BY <2>3, <2>5, <3>1 DEF Microphone, Running
  <2> QED
    BY <2>4, <2>5
<1>15. CASE OnDeviceLost \/ OnSessionStarted \/ OnWorkerStatus \/ OnLiveState
  <2>1. \E kinds : Event(kinds)
    BY <1>15 DEF OnDeviceLost, OnSessionStarted, OnWorkerStatus, OnLiveState
  <2> QED
    BY <1>2, <1>15, <2>1 DEF OnDeviceLost, OnSessionStarted, OnWorkerStatus, OnLiveState, capture, workers
<1>16. CASE Teardown
  <2>1. 1 \in 1..Len(events) /\ events[1][1] \in {"finished", "error"}
    BY <1>16, AfterEvent DEF Teardown
  <2>2. Running /\ ~pending
    BY <2>1, Apart DEF EndsAreLast, OneAtATime, Ends
  <2>3. wanted => cmds' # <<>> /\ cmds'[Len(cmds')] = "stop"
    BY <1>16, AfterAsking DEF Teardown, ClosesMicrophone
  <2>4. ~wanted => cmds' = cmds
    BY <1>16 DEF Teardown, ClosesMicrophone
  <2>5. wanted' = FALSE /\ worker' = 0 /\ UNCHANGED <<pending, open, device>>
    BY <1>16 DEF Teardown, ClosesMicrophone, capture
  <2> QED
    BY <2>2, <2>3, <2>4, <2>5 DEF Microphone, Running
<1>17. CASE Pause \/ Resume \/ Unplug \/ Replug \/ UNCHANGED vars
  BY <1>2, <1>17 DEF Pause, Resume, Unplug, Replug, workers, controller, capture, vars
<1> QED
  BY <1>3, <1>4, <1>5, <1>6, <1>7, <1>8, <1>9, <1>10, <1>11, <1>12, <1>13, <1>14, <1>15, <1>16, <1>17
     DEF Next, Operator, Capture, Environment, Slot

-----------------------------------------------------------------------------
(* The end of the audio.                                                   *)

\* What is not wanted and has been asked to close is closed, and empty.
LEMMA ClosedIsEmpty ==
    ASSUME Microphone, ~wanted, cmds = <<>>
    PROVE  ~open /\ device = <<>>
BY DEF Microphone

LEMMA DrainedStep ==
    ASSUME Races \cap {"pending", "click", "tail"} = {}, TypeOK, OneAtATime, Microphone, Drained, [Next]_vars
    PROVE  Drained'
<1> DEFINE Draining == {"drain", "stopping", "finished"}
<1>0. /\ Meetings = 1..MaxMeetings /\ MaxMeetings \in Nat /\ worker \in 0..MaxMeetings
      /\ next \in 0..MaxMeetings
      /\ pc \in [Meetings -> {"none", "starting", "loop", "push", "drain", "lost", "stopping",
                              "finished", "failed"}]
      /\ kind \in [Meetings -> {"none", "microphone", "file"}]
      /\ buf \in [Meetings -> Seq(1..MaxFrames)] /\ sent \in [Meetings -> Seq(1..MaxFrames)]
      /\ Packet \in Nat \ {0} /\ {pending, wanted} \subseteq BOOLEAN
  BY ClientAssumption DEF TypeOK, Meetings
<1>1. Running => worker \in Meetings
  BY <1>0 DEF Running
\* Nothing happens to a worker, and the capture thread is asked nothing new.
<1>2. ASSUME UNCHANGED <<kind, pc, buf, sent>>, stop \subseteq stop', worker' \in {0, worker},
             Running /\ (kind[worker] = "file" \/ (kind[worker] = "microphone" /\ pc[worker] \in Draining))
               => wanted' = wanted /\ cmds' = cmds /\ queue' \in {queue, <<>>}
      PROVE  Drained'
  BY <1>1, <1>2 DEF Drained, Running, Microphone
\* A session begins.
<1>3. ASSUME NEW k \in {"microphone", "file"}, ~Running, next < MaxMeetings, Begin(k), stop' = stop,
             UNCHANGED <<buf, sent>>, k = "file" => wanted' = FALSE /\ cmds' = <<>>
      PROVE  Drained'
  <2>1. worker' = next + 1 /\ next + 1 \in Meetings
        /\ kind' = [kind EXCEPT ![next + 1] = k] /\ pc' = [pc EXCEPT ![next + 1] = "starting"]
    BY <1>0, <1>3 DEF Begin
  <2>2. \A w \in Meetings : w # next + 1 => pc'[w] = pc[w] /\ kind'[w] = kind[w]
    BY <1>0, <2>1
  <2>3. pc'[next + 1] = "starting" /\ kind'[next + 1] = k
    BY <1>0, <2>1
  <2>4. buf[next + 1] = <<>> /\ sent[next + 1] = <<>>
    BY <1>0, <2>1 DEF OneAtATime
  <2> QED
    BY <1>3, <2>1, <2>2, <2>3, <2>4 DEF Drained, Running
<1>4. CASE StartMicrophone
  BY <1>2, <1>4 DEF StartMicrophone, workers
<1>5. CASE StartFile
  <2>1. ~Running /\ ~pending /\ CaptureIsIdle
    BY <1>5 DEF StartFile, NotPending, Unhurried
  <2>2. cmds' = <<>>
    BY <1>5, <2>1 DEF StartFile, CaptureIsIdle
  <2> QED
    BY <1>3, <1>5, <2>1, <2>2 DEF StartFile
<1>6. CASE Stop
  <2>1. Running /\ worker \notin stop /\ UNCHANGED <<worker, kind, pc, buf, sent, queue>> /\ stop' = stop \cup {worker}
        /\ wanted' = FALSE /\ (~wanted => cmds' = cmds)
    BY <1>6 DEF Stop, audio
  <2>2. kind[worker] = "file" => ~wanted
    BY <2>1 DEF Drained
  <2>3. ~(kind[worker] = "microphone" /\ pc[worker] \in Draining)
    BY <1>1, <2>1 DEF Drained
  <2> QED
    BY <1>0, <1>2, <2>1, <2>2, <2>3
<1>7. CASE Pause \/ Resume \/ Speak \/ Unplug \/ Replug \/ DeviceLost \/ OnDeviceLost \/ OnSessionStarted
           \/ OnWorkerStatus \/ OnLiveState \/ PollAsk \/ PollAnswer \/ UNCHANGED vars
  BY <1>2, <1>7 DEF Pause, Resume, Speak, Unplug, Replug, DeviceLost, OnDeviceLost, OnSessionStarted,
                    OnWorkerStatus, OnLiveState, PollAsk, PollAnswer, vars, controller, audio, workers
<1>8. CASE RetryDevice
  <2>1. Running /\ (kind[worker] = "file" \/ (kind[worker] = "microphone" /\ pc[worker] \in Draining)) => ~wanted
    BY <1>1 DEF Drained, Microphone
  <2> QED
    BY <1>2, <1>8, <2>1 DEF RetryDevice, audio, workers
<1>9. CASE CaptureStart \/ CaptureStop
  <2>1. cmds # <<>> /\ UNCHANGED <<kind, pc, buf, sent, stop, worker>>
    BY <1>9 DEF CaptureStart, CaptureStop, controller, workers
  <2>2. ~(Running /\ (kind[worker] = "file" \/ (kind[worker] = "microphone" /\ pc[worker] \in Draining)))
    BY <2>1 DEF Drained
  <2> QED
    BY <1>2, <2>1, <2>2
<1>10. CASE Drain
  <2>1. open /\ UNCHANGED <<kind, pc, buf, sent, stop, worker, wanted, cmds>>
    BY <1>10 DEF Drain, controller
  <2>2. ~(Running /\ (kind[worker] = "file" \/ (kind[worker] = "microphone" /\ pc[worker] \in Draining)))
    <3>1. ~(~wanted /\ cmds = <<>>)
      BY <2>1, ClosedIsEmpty
    <3>2. Running /\ kind[worker] = "microphone" /\ pc[worker] \in Draining => ~wanted /\ cmds = <<>>
      BY <1>1 DEF Drained, Microphone
    <3>3. Running /\ kind[worker] = "file" => ~wanted /\ cmds = <<>>
      BY DEF Drained
    <3> QED
      BY <3>1, <3>2, <3>3
  <2> QED
    BY <1>2, <2>1, <2>2
<1>11. CASE OnCaptureStarted
  <2>1. CASE pending
    BY <1>3, <1>11, <2>1 DEF OnCaptureStarted, OneAtATime
  <2>2. CASE ~pending
    BY <1>2, <1>11, <2>2 DEF OnCaptureStarted, audio
  <2> QED
    BY <2>1, <2>2
<1>12. CASE OnCaptureFailed
  <2>1. Running => ~pending
    BY DEF OneAtATime
  <2>2. Running => wanted' = wanted
    BY <1>0, <1>12, <2>1 DEF OnCaptureFailed
  <2> QED
    BY <1>2, <1>12, <2>2 DEF OnCaptureFailed, audio, workers
<1>13. CASE Teardown
  BY <1>13 DEF Teardown, Drained, Running
\* The worker.
<1>14. ASSUME NEW w \in Meetings, Worker(w) \/ SendBack(w) PROVE Drained'
  <2>1. worker = w /\ Running /\ pc[w] \notin Over /\ kind[w] \in {"microphone", "file"}
    <3>1. pc[w] \notin Over
      BY <1>14 DEF Worker, SendBack, StartOk, Fails, Sends, GivesUp, LoopPaused, LoopTake, LoopStop, SendOk,
                 SendLost, StopSession, StopOk, Over
    <3> QED
      BY <1>0, <3>1, RunningWorker
  <2>2. UNCHANGED <<worker, wanted, cmds, kind, stop>>
    BY <1>14 DEF Worker, SendBack, StartOk, Fails, LoopPaused, LoopTake, LoopStop, SendOk,
                 SendLost, StopSession, StopOk, controller
  <2>3. \A v \in Meetings : v # w => buf'[v] = buf[v] /\ sent'[v] = sent[v] /\ pc'[v] = pc[v]
    BY <1>0, <1>14 DEF Worker, SendBack, StartOk, Fails, LoopPaused, LoopTake, LoopStop, SendOk,
                 SendLost, StopSession, StopOk, Goes
  <2>4. ASSUME kind[w] = "file" PROVE Drained'
    <3>1. buf[w] = <<>> /\ pc[w] \notin {"loop", "push", "lost"} /\ ~Ready(w)
      <4>1. buf[w] = <<>> /\ pc[w] \notin {"loop", "push", "lost"}
        BY <2>4 DEF Drained
      <4>2. Len(buf[w]) = 0
        BY <4>1
      <4> QED
        BY <1>0, <4>1, <4>2 DEF Ready
    <3>2. StartOk(w) \/ Fails(w) \/ StopSession(w) \/ StopOk(w)
      BY <1>14, <3>1 DEF Worker, SendBack, LoopPaused, LoopTake, LoopStop, SendOk, SendLost
    <3>3. UNCHANGED <<buf, sent, queue>> /\ pc'[w] \in {"drain", "stopping", "finished", "failed"}
      BY <1>0, <2>4, <3>2 DEF StartOk, Fails, StopSession, StopOk, Goes, audio
    <3> QED
      BY <2>1, <2>2, <2>3, <2>4, <3>1, <3>3 DEF Drained, Running
  <2>5. ASSUME kind[w] = "microphone", pc'[w] \notin Draining PROVE Drained'
    BY <2>1, <2>2, <2>3, <2>5 DEF Drained, Running
  <2>6. ASSUME kind[w] = "microphone", pc'[w] \in Draining,
               w \in stop, cmds = <<>>, queue' = <<>>, pc'[w] # "drain" => buf'[w] = <<>>
        PROVE  Drained'
    BY <2>1, <2>2, <2>3, <2>6 DEF Drained, Running
  <2>7. CASE kind[w] = "microphone"
    <3>1. pc[w] \in Draining => w \in stop /\ cmds = <<>> /\ queue = <<>>
      BY <2>1, <2>7 DEF Drained
    <3>2. CASE StartOk(w) \/ Fails(w) \/ SendLost(w) \/ SendBack(w) \/ LoopTake(w)
      <4>1. pc'[w] \notin Draining
        BY <1>0, <2>7, <3>2 DEF StartOk, Fails, SendLost, SendBack, LoopTake, Goes
      <4> QED
        BY <2>5, <2>7, <4>1
    <3>3. CASE LoopPaused(w)
      BY <2>5, <2>7, <3>3 DEF LoopPaused
    <3>4. CASE LoopStop(w)
      <4>1. pc'[w] = "drain" /\ cmds = <<>> /\ w \in stop /\ queue' = <<>>
        BY <1>0, <3>4 DEF LoopStop, Goes, TailIsIn
      <4> QED
        BY <2>6, <2>7, <4>1
    <3>5. CASE SendOk(w)
      <4>1. pc'[w] \in {pc[w], "loop"} /\ pc[w] \in {"push", "drain"} /\ queue' = queue
        BY <1>0, <3>5 DEF SendOk, Goes, Sends, audio
      <4> QED
        BY <2>5, <2>6, <2>7, <3>1, <4>1
    <3>6. CASE StopSession(w)
      <4>1. pc'[w] = "stopping" /\ pc[w] = "drain" /\ queue' = queue /\ buf'[w] = <<>>
        BY <1>0, <3>6 DEF StopSession, Goes, audio
      <4> QED
        BY <2>6, <2>7, <3>1, <4>1
    <3>7. CASE StopOk(w)
      <4>1. pc'[w] = "finished" /\ pc[w] = "stopping" /\ queue' = queue /\ buf' = buf
        BY <1>0, <3>7 DEF StopOk, Goes, audio
      <4>2. buf[w] = <<>>
        BY <4>1 DEF Drained
      <4> QED
        BY <2>6, <2>7, <3>1, <4>1, <4>2
    <3> QED
      BY <1>14, <3>2, <3>3, <3>4, <3>5, <3>6, <3>7 DEF Worker
  <2> QED
    BY <2>1, <2>4, <2>7
<1> QED
  BY <1>4, <1>5, <1>6, <1>7, <1>8, <1>9, <1>10, <1>11, <1>12, <1>13, <1>14
     DEF Next, Operator, Capture, Environment, Slot, Poll

-----------------------------------------------------------------------------
(* The way of the audio.                                                   *)

\* Whose audio is on its way changes only when the next microphone is opened.
LEMMA WhoseAudio ==
    ASSUME "pending" \notin Races, TypeOK, OneAtATime, EndsAreLast, [Next]_vars, ~StartMicrophone
    PROVE  Takes' => Takes /\ For' = For
<1>0. Meetings = 1..MaxMeetings /\ next \in 0..MaxMeetings /\ worker \in 0..MaxMeetings /\ MaxMeetings \in Nat
      /\ kind \in [Meetings -> {"none", "microphone", "file"}] /\ pending \in BOOLEAN
  BY ClientAssumption DEF TypeOK, Meetings
<1>1. ASSUME UNCHANGED <<worker, pending, next, kind>> PROVE Takes' => Takes /\ For' = For
  BY <1>1 DEF Takes, For, Running
<1>2. CASE StartFile
  <2>1. ~pending /\ UNCHANGED pending /\ next + 1 \in Meetings
    BY <1>0, <1>2 DEF StartFile, NotPending
  <2>2. worker' = next + 1 /\ kind' = [kind EXCEPT ![next + 1] = "file"]
    BY <1>2 DEF StartFile, Begin
  <2>3. kind'[worker'] = "file"
    BY <1>0, <2>1, <2>2
  <2> QED
    BY <2>1, <2>3 DEF Takes
<1>3. CASE OnCaptureStarted
  <2>1. CASE pending
    <3>1. worker' = next + 1 /\ ~Running
      BY <1>3, <2>1 DEF OnCaptureStarted, Begin, OneAtATime
    <3> QED
      BY <1>0, <2>1, <3>1 DEF Takes, For, Running
  <2>2. CASE ~pending
    <3>1. UNCHANGED <<worker, pending, next, kind>>
      BY <1>0, <1>3, <2>2 DEF OnCaptureStarted
    <3> QED
      BY <1>1, <3>1
  <2> QED
    BY <2>1, <2>2
<1>4. CASE OnCaptureFailed
  <2>1. CASE pending
    BY <1>4, <2>1 DEF OnCaptureFailed, OneAtATime, Takes, Running
  <2>2. CASE ~pending
    <3>1. UNCHANGED <<worker, pending, next, kind>>
      BY <1>0, <1>4, <2>2 DEF OnCaptureFailed, workers
    <3> QED
      BY <1>1, <3>1
  <2> QED
    BY <2>1, <2>2
<1>5. CASE Teardown
  <2>1. 1 \in 1..Len(events) /\ events[1][1] \in {"finished", "error"}
    BY <1>5, AfterEvent DEF Teardown
  <2>2. ~pending
    BY <2>1, Apart DEF EndsAreLast, OneAtATime, Ends
  <2> QED
    BY <1>5, <2>2 DEF Teardown, Takes, Running
<1>6. ASSUME NEW w \in Meetings, Worker(w) \/ SendBack(w) PROVE UNCHANGED <<worker, pending, next, kind>>
  BY <1>6 DEF Worker, SendBack, StartOk, Fails, LoopPaused, LoopTake, LoopStop, SendOk,
                 SendLost, StopSession, StopOk, controller
<1>7. CASE Stop \/ Pause \/ Resume \/ RetryDevice \/ Capture \/ Speak \/ Unplug \/ Replug \/ Poll
           \/ OnDeviceLost \/ OnSessionStarted \/ OnWorkerStatus \/ OnLiveState \/ UNCHANGED vars
  BY <1>1, <1>7 DEF Stop, Pause, Resume, RetryDevice, Capture, CaptureStart, CaptureStop, Drain, DeviceLost, Speak,
                    Unplug, Replug, Poll, PollAsk, PollAnswer, OnDeviceLost, OnSessionStarted, OnWorkerStatus,
                    OnLiveState, vars, controller, workers
<1> QED
  BY <1>1, <1>2, <1>3, <1>4, <1>5, <1>6, <1>7 DEF Next, Operator, Environment, Slot

\* What a step can do to the audio that is on its way.
Stays == UNCHANGED <<queue, device, buf, sent, of>> /\ excused \subseteq excused'
Handed ==
    /\ device' = <<>> /\ UNCHANGED <<buf, sent, of>> /\ excused \subseteq excused'
    /\ \/ queue' = queue \o device
       \/ queue' = queue /\ (Takes => ToSet(device) \subseteq excused')
Cut ==
    /\ UNCHANGED <<buf, sent, of>> /\ excused \subseteq excused'
    /\ \/ device' = device /\ queue' = <<>> /\ ToSet(queue) \subseteq excused'
       \/ queue' = queue /\ device' = <<>> /\ ToSet(device) \subseteq excused'
Heard ==
    /\ of' = Append(of, For) /\ device' = Append(device, Len(of) + 1) /\ UNCHANGED <<queue, buf, sent>>
    /\ excused \subseteq excused' /\ (For = 0 => Len(of) + 1 \in excused')
Skipped(w) ==
    /\ buf' = [buf EXCEPT ![w] = <<>>] /\ UNCHANGED <<queue, device, sent, of>>
    /\ excused' = excused \cup ToSet(buf[w])
Taken(w) ==
    /\ worker = w /\ Takes
    /\ buf' = [buf EXCEPT ![w] = @ \o queue] /\ queue' = <<>> /\ UNCHANGED <<device, sent, of, excused>>
Acked(w, size) ==
    /\ sent' = [sent EXCEPT ![w] = @ \o SubSeq(buf[w], 1, size)]
    /\ buf' = [buf EXCEPT ![w] = SubSeq(@, size + 1, Len(@))]
    /\ UNCHANGED <<queue, device, of, excused>>
Opened ==
    /\ ~Takes /\ For = 0 /\ device = <<>> /\ Takes' /\ For' = next + 1 /\ next + 1 \in Meetings
    /\ queue' = <<>> /\ UNCHANGED <<device, buf, sent, of, excused>>

LEMMA OpensAnew ==
    ASSUME Races \cap {"pending", "click"} = {}, TypeOK, OneAtATime, Microphone, StartMicrophone
    PROVE  Opened
<1>0. Meetings = 1..MaxMeetings /\ MaxMeetings \in Nat /\ next \in 0..MaxMeetings
  BY ClientAssumption DEF TypeOK, Meetings
<1>1. ~Running /\ ~pending /\ CaptureIsIdle
  BY DEF StartMicrophone, NotPending, Unhurried
<1>2. device = <<>> /\ ~Takes /\ For = 0
  BY <1>1 DEF Microphone, CaptureIsIdle, Takes, For
<1>3. /\ pending' = TRUE /\ UNCHANGED <<worker, next, device, buf, sent, of, excused>> /\ queue' = <<>>
  BY DEF StartMicrophone, Configure, workers, capture, history
<1>4. Takes' /\ For' = next + 1 /\ next + 1 \in Meetings
  BY <1>0, <1>1, <1>3 DEF Takes, For, Running, StartMicrophone
<1> QED
  BY <1>2, <1>3, <1>4 DEF Opened

LEMMA AudioMoves ==
    ASSUME Races \cap {"pending", "click"} = {}, TypeOK, OneAtATime, Microphone, Drained, Silence, [Next]_vars
    PROVE  \/ Stays \/ Handed \/ Cut \/ Heard \/ (StartMicrophone /\ Opened)
           \/ \E w \in Meetings : pc[w] \notin Over /\ (Skipped(w) \/ Taken(w))
           \/ \E w \in Meetings : \E size \in 0..Len(buf[w]) :
                pc[w] \notin Over /\ SendOk(w) /\ Acked(w, size)
<1>0. Meetings = 1..MaxMeetings /\ MaxMeetings \in Nat /\ next \in 0..MaxMeetings /\ worker \in 0..MaxMeetings
      /\ kind \in [Meetings -> {"none", "microphone", "file"}] /\ Packet \in Nat \ {0} /\ pending \in BOOLEAN
      /\ silent \in BOOLEAN
  BY ClientAssumption DEF TypeOK, Meetings
<1>1. ASSUME PushQueue(device), device' = <<>>, UNCHANGED <<buf, sent, of>> PROVE Handed
  <2>1. excused \subseteq excused'
    BY <1>1 DEF PushQueue
  <2>2. queue' = queue \o device \/ queue' = queue
    BY <1>1 DEF PushQueue
  <2>3. ASSUME ~(~silent /\ Fits(device)), Takes PROVE ToSet(device) \subseteq excused'
    <3>1. CASE silent
      BY <1>1, <2>3, <3>1 DEF PushQueue, Silence
    <3>2. CASE ~silent /\ device = <<>>
      BY <3>2, Frames, Members
    <3>3. CASE ~silent /\ device # <<>>
      BY <1>1, <2>3, <3>3 DEF PushQueue
    <3> QED
      BY <3>1, <3>2, <3>3
  <2>4. ~silent /\ Fits(device) => queue' = queue \o device
    BY <1>1 DEF PushQueue
  <2>5. ~(~silent /\ Fits(device)) => queue' = queue
    BY <1>1 DEF PushQueue
  <2> QED
    BY <1>1, <2>1, <2>3, <2>4, <2>5 DEF Handed
<1>2. CASE StartMicrophone
  BY <1>2, OpensAnew
<1>3. CASE Pause
  <2>1. CASE kind[worker] = "microphone"
    BY <1>3, <2>1 DEF Pause, Cut, capture
  <2>2. CASE kind[worker] # "microphone"
    BY <1>3, <2>2 DEF Pause, Stays, capture, audio
  <2> QED
    BY <2>1, <2>2
<1>4. CASE CaptureStop \/ Drain
  BY <1>1, <1>4 DEF CaptureStop, Drain
<1>5. CASE DeviceLost \/ OnDeviceLost
  BY <1>5 DEF DeviceLost, OnDeviceLost, Cut, audio, capture, workers
<1>6. CASE Speak
  <2>1. excused \subseteq excused' /\ (For = 0 => Len(of) + 1 \in excused')
    BY <1>6 DEF Speak
  <2> QED
    BY <1>6, <2>1 DEF Speak, Heard, audio, workers
<1>7. ASSUME NEW w \in Meetings, LoopPaused(w) \/ LoopTake(w) \/ LoopStop(w)
      PROVE  pc[w] \notin Over /\ (Skipped(w) \/ Taken(w))
  <2>1. pc[w] \notin Over /\ pc[w] = "loop"
    BY <1>7 DEF LoopPaused, LoopTake, LoopStop, Over
  <2>2. worker = w /\ Takes
    <3>1. worker = w /\ Running /\ kind[w] # "none" /\ kind[w] # "file"
      BY <2>1, RunningWorker DEF Drained
    <3> QED
      BY <1>0, <3>1 DEF Takes
  <2>3. CASE LoopPaused(w)
    BY <2>1, <2>3 DEF LoopPaused, Skipped, audio, capture
  <2>4. CASE LoopTake(w)
    BY <2>1, <2>2, <2>4 DEF LoopTake, Taken, capture, history
  <2>5. CASE LoopStop(w)
    BY <2>1, <2>2, <2>5 DEF LoopStop, LastLook, Taken, capture, history
  <2> QED
    BY <1>7, <2>3, <2>4, <2>5
<1>8. ASSUME NEW w \in Meetings, SendOk(w)
      PROVE  \E size \in 0..Len(buf[w]) : pc[w] \notin Over /\ SendOk(w) /\ Acked(w, size)
  <2> DEFINE size == IF Len(buf[w]) < Packet THEN Len(buf[w]) ELSE Packet
  <2>1. pc[w] \notin Over
    BY <1>8 DEF SendOk, Sends, Over
  <2>2. Len(buf[w]) \in Nat
    BY Frames
  <2>3. size \in 0..Len(buf[w])
    BY <1>0, <2>2
  <2>4. Acked(w, size)
    BY <1>8 DEF SendOk, Acked, audio, capture, history
  <2> QED
    BY <1>8, <2>1, <2>3, <2>4
<1>9. ASSUME NEW w \in Meetings, StartOk(w) \/ Fails(w) \/ SendLost(w) \/ SendBack(w) \/ StopSession(w) \/ StopOk(w)
      PROVE  Stays
  BY <1>9 DEF StartOk, Fails, SendLost, SendBack, StopSession, StopOk, Stays, audio, capture, history
<1>10. CASE StartFile \/ Stop \/ Resume \/ RetryDevice \/ CaptureStart \/ Unplug \/ Replug
  BY <1>10 DEF StartFile, Stop, Resume, RetryDevice, CaptureStart, Unplug, Replug, Stays, audio, capture, history,
               workers
<1>11. CASE Poll \/ OnCaptureStarted \/ OnCaptureFailed \/ OnSessionStarted \/ OnWorkerStatus \/ Teardown
            \/ OnLiveState \/ UNCHANGED vars
  BY <1>11 DEF Poll, PollAsk, PollAnswer, OnCaptureStarted, OnCaptureFailed, OnSessionStarted, OnWorkerStatus,
               Teardown, OnLiveState, vars, Stays, audio, capture, history, workers
<1>12. CASE \E w \in Meetings : Worker(w) \/ SendBack(w)
  BY <1>12, <1>7, <1>8, <1>9 DEF Worker
<1> QED
  BY <1>2, <1>3, <1>4, <1>5, <1>6, <1>10, <1>11, <1>12
     DEF Next, Operator, Capture, Environment, Slot

LEMMA AudioStep ==
    ASSUME Races \cap {"pending", "click"} = {}, TypeOK, OneAtATime, EndsAreLast, Microphone, Drained, Silence,
           InOrder, OwnAudio, [Next]_vars
    PROVE  InOrder' /\ OwnAudio'
<1>0. /\ queue \in Seq(Nat) /\ device \in Seq(Nat) /\ of \in Seq(0..MaxMeetings) /\ Len(of) \in Nat
      /\ \A w \in Meetings : buf[w] \in Seq(Nat) /\ sent[w] \in Seq(Nat)
      /\ Meetings = 1..MaxMeetings /\ MaxMeetings \in Nat
      /\ buf \in [Meetings -> Seq(1..MaxFrames)] /\ sent \in [Meetings -> Seq(1..MaxFrames)]
  <2>1. of \in Seq(0..MaxMeetings)
    BY DEF TypeOK
  <2>2. Len(of) \in Nat
    BY <2>1
  <2>3. Meetings = 1..MaxMeetings /\ MaxMeetings \in Nat
    BY ClientAssumption DEF Meetings
  <2>4. buf \in [Meetings -> Seq(1..MaxFrames)] /\ sent \in [Meetings -> Seq(1..MaxFrames)]
    BY DEF TypeOK
  <2> QED
    BY <2>1, <2>2, <2>3, <2>4, Frames
<1>1. ToSet(<<>>) = {} /\ Ascending(<<>>) /\ \A s : Before(s, <<>>) /\ Before(<<>>, s)
  <2>1. <<>> \in Seq(Nat) /\ Len(<<>>) = 0
    OBVIOUS
  <2>2. ToSet(<<>>) = {}
    BY <2>1, Members
  <2>3. Ascending(<<>>)
    BY <2>1 DEF Ascending
  <2> QED
    BY <2>2, <2>3 DEF Before
<1>2. Takes => For \in Meetings
  <2>1. Running => worker \in Meetings
    BY <1>0 DEF Running, TypeOK
  <2>2. pending => next + 1 \in Meetings
    BY <1>0 DEF OneAtATime, TypeOK
  <2> QED
    BY <2>1, <2>2 DEF Takes, For
<1>3. ASSUME StartMicrophone, Opened PROVE InOrder' /\ OwnAudio'
  <2>1. buf[next + 1] = <<>> /\ sent[next + 1] = <<>> /\ next + 1 \in Meetings
    <3>1. next + 1 \in Meetings /\ next \in 0..MaxMeetings
      BY <1>3 DEF Opened, TypeOK
    <3>2. next + 1 > next
      BY <3>1
    <3>3. pc[next + 1] = "none"
      BY <3>1, <3>2 DEF OneAtATime
    <3> QED
      BY <3>1, <3>3 DEF OneAtATime
  <2>2. InOrder'
    BY <1>1, <1>3, <2>1 DEF InOrder, Opened
  <2>3. OwnAudio'
    BY <1>1, <1>3, <2>1 DEF OwnAudio, Opened
  <2> QED
    BY <2>2, <2>3
<1>4. ASSUME Takes' => Takes /\ For' = For, Stays PROVE InOrder' /\ OwnAudio'
  BY <1>4 DEF InOrder, OwnAudio, Stays
<1>5. ASSUME Takes' => Takes /\ For' = For, Handed PROVE InOrder' /\ OwnAudio'
  <2>1. ToSet(queue') \subseteq ToSet(queue) \cup ToSet(device) /\ ToSet(device') = {}
    BY <1>0, <1>1, <1>5, Joined DEF Handed
  <2>2. Ascending(queue') /\ Ascending(device')
    BY <1>0, <1>1, <1>5, AscendingJoined DEF Handed, InOrder
  <2>3. InOrder'
    BY <1>1, <1>5, <2>1, <2>2 DEF InOrder, Before, Handed
  <2>4. OwnAudio'
    BY <1>5, <2>1 DEF OwnAudio, Handed
  <2> QED
    BY <2>3, <2>4
<1>6. ASSUME Takes' => Takes /\ For' = For, Cut PROVE InOrder' /\ OwnAudio'
  BY <1>1, <1>6 DEF InOrder, OwnAudio, Cut
<1>7. ASSUME Takes' => Takes /\ For' = For, Heard PROVE InOrder' /\ OwnAudio'
  <2> DEFINE new == Len(of) + 1
  <2>1. For \in 0..MaxMeetings
    BY <1>0 DEF For, TypeOK, OneAtATime
  <2>2. /\ Len(of') = new /\ of'[new] = For /\ \A f \in 1..Len(of) : of'[f] = of[f]
        /\ 1..Len(of') = (1..Len(of)) \cup {new}
    BY <1>0, <1>7, <2>1 DEF Heard
  <2>3. ToSet(device') = ToSet(device) \cup {new} /\ Len(device') = Len(device) + 1 /\ Len(device) \in Nat
        /\ (\A i \in 1..Len(device) : device'[i] = device[i]) /\ device'[Len(device) + 1] = new
    <3>1. new \in Nat
      BY <1>0
    <3>2. device' = Append(device, new)
      BY <1>7 DEF Heard
    <3>3. Len(device) \in Nat
      BY <1>0
    <3> HIDE DEF new
    <3>4. device \in Seq(Nat)
      BY <1>0
    <3>5. /\ Len(Append(device, new)) = Len(device) + 1
          /\ \A i \in 1..Len(device) : Append(device, new)[i] = device[i]
          /\ Append(device, new)[Len(device) + 1] = new
          /\ ToSet(Append(device, new)) = ToSet(device) \cup {new}
      BY ONLY <3>1, <3>4, Appended
    <3> QED
      BY ONLY <3>2, <3>3, <3>5
  <2>4. \A f \in 1..Len(of) : f < new
    BY <1>0
  <2> HIDE DEF new
  <2>5. Ascending(device')
    <3>1. \A i \in 1..Len(device) : device[i] \in ToSet(device)
      BY <1>0, Members
    <3>2. \A i \in 1..Len(device) : device[i] < new
      BY <2>4, <3>1 DEF OwnAudio
    <3>3. \A i, j \in 1..(Len(device) + 1) : i < j =>
            i \in 1..Len(device) /\ (j \in 1..Len(device) \/ j = Len(device) + 1)
      BY <2>3
    <3> QED
      BY <2>3, <3>2, <3>3 DEF Ascending, InOrder
  <2>6. InOrder'
    <3>1. Before(queue, device')
      BY <2>3, <2>4 DEF Before, InOrder, OwnAudio
    <3>2. Takes => Before(sent[For], device') /\ Before(buf[For], device')
      BY <1>2, <2>3, <2>4 DEF Before, InOrder, OwnAudio
    <3> QED
      BY <1>7, <2>5, <3>1, <3>2 DEF InOrder, Heard
  <2>7. OwnAudio'
    BY <1>7, <2>2, <2>3 DEF OwnAudio, Heard
  <2> QED
    BY <2>6, <2>7
<1>8. ASSUME NEW w \in Meetings, Takes' => Takes /\ For' = For, Skipped(w) PROVE InOrder' /\ OwnAudio'
  <2>1. \A v \in Meetings : buf'[v] \in {buf[v], <<>>}
    BY <1>0, <1>8 DEF Skipped
  <2>2. InOrder'
    BY <1>1, <1>2, <1>8, <2>1 DEF InOrder, Skipped
  <2>3. OwnAudio'
    BY <1>1, <1>8, <2>1 DEF OwnAudio, Skipped
  <2> QED
    BY <2>2, <2>3
<1>9. ASSUME NEW w \in Meetings, Takes' => Takes /\ For' = For, Taken(w) PROVE InOrder' /\ OwnAudio'
  <2>1. For = w
    BY <1>0, <1>9 DEF For, Running, Taken
  <2>2. buf'[w] = buf[w] \o queue /\ \A v \in Meetings : v # w => buf'[v] = buf[v]
    BY <1>0, <1>9 DEF Taken
  <2>3. ToSet(buf'[w]) = ToSet(buf[w]) \cup ToSet(queue) /\ ToSet(queue') = {}
    BY <1>0, <1>1, <1>9, <2>2, Joined DEF Taken
  <2>4. Ascending(buf'[w])
    BY <1>0, <1>9, <2>1, <2>2, AscendingJoined DEF InOrder, Taken
  <2>5. Before(sent[w], buf'[w]) /\ Before(buf'[w], device)
    BY <1>9, <2>1, <2>3 DEF InOrder, Taken, Before
  <2>6. InOrder'
    BY <1>1, <1>9, <2>1, <2>2, <2>4, <2>5 DEF InOrder, Taken
  <2>7. OwnAudio'
    BY <1>9, <2>1, <2>2, <2>3 DEF OwnAudio, Taken
  <2> QED
    BY <2>6, <2>7
<1>10. ASSUME NEW w \in Meetings, NEW size \in 0..Len(buf[w]), Takes' => Takes /\ For' = For, Acked(w, size)
       PROVE  InOrder' /\ OwnAudio'
  <2> DEFINE a == SubSeq(buf[w], 1, size)
             b == SubSeq(buf[w], size + 1, Len(buf[w]))
  <2>1. /\ a \in Seq(Nat) /\ b \in Seq(Nat) /\ ToSet(a) \cup ToSet(b) = ToSet(buf[w])
        /\ Ascending(a) /\ Ascending(b) /\ Before(a, b)
    BY <1>0, Split DEF InOrder
  <2>2. sent'[w] = sent[w] \o a /\ buf'[w] = b
        /\ \A v \in Meetings : v # w => buf'[v] = buf[v] /\ sent'[v] = sent[v]
    BY <1>0, <1>10 DEF Acked
  <2> HIDE DEF a, b
  <2>3. Before(sent[w], a) /\ Before(sent[w], b)
    BY <2>1 DEF InOrder, Before
  <2>4. ToSet(sent'[w]) = ToSet(sent[w]) \cup ToSet(a)
    BY <1>0, <2>1, <2>2, Joined
  <2>5. Ascending(sent'[w])
    BY <1>0, <2>1, <2>2, <2>3, AscendingJoined DEF InOrder
  <2>6. Before(sent'[w], buf'[w])
    BY <2>1, <2>2, <2>3, <2>4 DEF Before
  <2>7. ToSet(sent'[w]) \subseteq ToSet(sent[w]) \cup ToSet(buf[w]) /\ ToSet(buf'[w]) \subseteq ToSet(buf[w])
    BY <2>1, <2>2, <2>4
  <2>8. \A v \in Meetings : Ascending(sent'[v]) /\ Ascending(buf'[v]) /\ Before(sent'[v], buf'[v])
    BY <2>1, <2>2, <2>5, <2>6 DEF InOrder
  <2>9. \A v \in Meetings : /\ ToSet(sent'[v]) \subseteq ToSet(sent[v]) \cup ToSet(buf[v])
                            /\ ToSet(buf'[v]) \subseteq ToSet(buf[v])
    BY <2>2, <2>7
  <2>10. UNCHANGED <<queue, device, of>>
    BY <1>10 DEF Acked
  <2>11. Takes => /\ Before(sent'[For], queue) /\ Before(sent'[For], device)
                  /\ Before(buf'[For], queue) /\ Before(buf'[For], device)
    BY <1>2, <2>9 DEF InOrder, Before
  <2>12. InOrder'
    BY <1>10, <2>8, <2>10, <2>11 DEF InOrder
  <2>13. OwnAudio'
    BY <1>10, <2>9, <2>10 DEF OwnAudio
  <2> QED
    BY <2>12, <2>13
<1>11. CASE StartMicrophone
  <2>1. StartMicrophone => Opened
    BY <1>0, <1>11, OpensAnew
  <2> QED
    BY <1>3, <1>11, <2>1
<1>12. CASE ~StartMicrophone
  <2>1. Takes' => Takes /\ For' = For
    BY <1>12, WhoseAudio
  <2> QED
    BY <1>4, <1>5, <1>6, <1>7, <1>8, <1>9, <1>10, <1>12, <2>1, AudioMoves
<1> QED
  BY <1>11, <1>12

-----------------------------------------------------------------------------
(* No frame is lost.                                                       *)

LEMMA SilenceStep ==
    ASSUME "pending" \notin Races, TypeOK, OneAtATime, EndsAreLast, Silence, [Next]_vars
    PROVE  Silence'
<1>0. kind \in [Meetings -> {"none", "microphone", "file"}] /\ {pending, silent} \subseteq BOOLEAN
  BY DEF TypeOK
<1>1. CASE StartMicrophone
  BY <1>1 DEF StartMicrophone, Configure, Silence
<1>2. ASSUME ~StartMicrophone PROVE Takes' => Takes
  BY <1>2, WhoseAudio
<1>3. ASSUME UNCHANGED <<silent, paused>>, worker' = worker \/ worker' = 0 \/ ~silent, pending' => pending,
             ~StartMicrophone
      PROVE  Silence'
  BY <1>2, <1>3 DEF Silence, Takes, Running
<1>4. CASE Pause
  <2>1. ~pending
    BY <1>4 DEF Pause, OneAtATime
  <2>2. UNCHANGED <<worker, pending, kind>> /\ worker \in paused'
    BY <1>4 DEF Pause
  <2> QED
    BY <2>1, <2>2 DEF Silence
<1>5. CASE Resume
  <2>1. ~pending /\ UNCHANGED <<worker, pending, kind>>
    BY <1>5 DEF Resume, OneAtATime
  <2>2. kind[worker] = "microphone" => silent' = FALSE
    BY <1>5 DEF Resume
  <2> QED
    BY <2>1, <2>2 DEF Silence, Takes
<1>6. CASE StartFile
  <2>1. ~pending /\ UNCHANGED pending
    BY <1>6 DEF StartFile, NotPending
  <2>2. Takes' => Takes
    BY <1>6, WhoseAudio, <1>2 DEF StartFile, StartMicrophone, Takes, Running
  <2>3. ~Takes
    BY <1>6, <2>1 DEF StartFile, Takes
  <2> QED
    BY <2>1, <2>2, <2>3 DEF Silence
<1>7. CASE OnCaptureStarted
  <2>1. CASE pending
    BY <1>7, <2>1 DEF OnCaptureStarted, Silence, audio
  <2>2. CASE ~pending
    BY <1>7, <2>2 DEF OnCaptureStarted, Silence, audio, Takes, Running
  <2> QED
    BY <2>1, <2>2
<1>8. ASSUME NEW w \in Meetings, Worker(w) \/ SendBack(w) PROVE UNCHANGED <<silent, paused, worker, pending, kind>>
  BY <1>8 DEF Worker, SendBack, StartOk, Fails, LoopPaused, LoopTake, LoopStop, SendOk,
                 SendLost, StopSession, StopOk, controller, audio
<1>9. ASSUME UNCHANGED <<silent, paused, worker, pending, kind>> PROVE Silence'
  BY <1>9 DEF Silence, Takes, Running
<1>10. CASE Stop \/ RetryDevice \/ Capture \/ Speak \/ Unplug \/ Replug \/ Poll
           \/ OnDeviceLost \/ OnSessionStarted \/ OnWorkerStatus \/ OnLiveState \/ UNCHANGED vars
  BY <1>9, <1>10 DEF Stop, RetryDevice, Capture, CaptureStart, CaptureStop, Drain, DeviceLost, Speak,
                    Unplug, Replug, Poll, PollAsk, PollAnswer, OnDeviceLost, OnSessionStarted, OnWorkerStatus,
                    OnLiveState, vars, controller, workers, audio
<1>11. CASE OnCaptureFailed
  BY <1>11 DEF OnCaptureFailed, Silence, Takes, Running, audio, workers
<1>12. CASE Teardown
  BY <1>12 DEF Teardown, Silence, Takes, Running, audio
<1> QED
  BY <1>1, <1>4, <1>5, <1>6, <1>7, <1>8, <1>9, <1>10, <1>11, <1>12 DEF Next, Operator, Environment, Slot

LEMMA CountedStep ==
    ASSUME Races \cap {"pending", "click"} = {}, TypeOK, OneAtATime, EndsAreLast, Microphone, Drained, Counted,
           [Next]_vars
    PROVE  Counted'
<1>0. /\ Meetings = 1..MaxMeetings /\ MaxMeetings \in Nat /\ next \in 0..MaxMeetings /\ worker \in 0..MaxMeetings
      /\ kind \in [Meetings -> {"none", "microphone", "file"}] /\ pending \in BOOLEAN
      /\ of \in Seq(0..MaxMeetings)
  BY ClientAssumption DEF TypeOK, Meetings
<1>1. \A f \in 1..Len(of) : of[f] \in 0..MaxMeetings
  BY <1>0
<1>2. {"failed"} \in SUBSET CaptureKinds
  BY DEF CaptureKinds
<1>3. ~pending => \A f \in 1..Len(of) : of[f] <= next
  BY DEF Counted
\* Nothing is said, opened or begun.
<1>4. ASSUME UNCHANGED events \/ (\E e \in Messages : Post(e) /\ e[1] \notin CaptureKinds)
               \/ (\E kinds : Event(kinds)),
             UNCHANGED <<of, next, kind, pending>>, pending => cmds' = cmds
      PROVE  Counted'
  <2>1. Posted({"failed"})' => Posted({"failed"})
    BY <1>2, <1>4, CaptureSpeaks
  <2>2. \A f \in 1..Len(of) : of[f] <= next \/ (pending /\ of[f] = next + 1)
    BY DEF Counted
  <2>3. \A f \in 1..Len(of) : of[f] \in Meetings => kind[of[f]] # "file"
    BY DEF Counted
  <2>4. pending /\ (cmds # <<>> \/ Posted({"failed"})) => \A f \in 1..Len(of) : of[f] <= next
    BY DEF Counted
  <2> QED
    BY <1>4, <2>1, <2>2, <2>3, <2>4 DEF Counted
\* Everything that was said is of a meeting there is.
<1>5. ASSUME UNCHANGED <<of, kind>>, next' = next, \A f \in 1..Len(of) : of[f] <= next PROVE Counted'
  BY <1>5 DEF Counted
\* A meeting begins.
<1>6. ASSUME NEW k \in {"microphone", "file"}, Begin(k), next < MaxMeetings, of' = of, pending' = FALSE,
             k = "file" => ~pending
      PROVE  Counted'
  <2>1. next' = next + 1 /\ kind' = [kind EXCEPT ![next + 1] = k] /\ next + 1 \in Meetings
    BY <1>0, <1>6 DEF Begin
  <2>2. \A w \in Meetings : w # next + 1 => kind'[w] = kind[w]
    BY <1>0, <2>1
  <2>3. kind'[next + 1] = k
    BY <1>0, <2>1
  <2>4. \A f \in 1..Len(of) : of[f] <= next + 1 /\ (k = "file" => of[f] # next + 1)
    BY <1>0, <1>1, <1>3, <1>6 DEF Counted
  <2>5. \A f \in 1..Len(of) : of[f] \in Meetings => kind'[of[f]] # "file"
    BY <1>6, <2>2, <2>3, <2>4 DEF Counted
  <2> QED
    BY <1>6, <2>1, <2>4, <2>5 DEF Counted
<1>7. CASE StartMicrophone
  <2>1. ~pending
    BY <1>7 DEF StartMicrophone, NotPending
  <2> QED
    BY <1>3, <1>5, <1>7, <2>1 DEF StartMicrophone, workers, history
<1>8. CASE StartFile
  <2>1. ~pending /\ UNCHANGED pending
    BY <1>8 DEF StartFile, NotPending
  <2>2. pending' = FALSE
    BY <1>0, <2>1
  <2> QED
    BY <1>6, <1>8, <2>1, <2>2 DEF StartFile, history
<1>9. CASE Speak
  <2>1. open
    BY <1>9 DEF Speak
  <2>2. For \in 0..MaxMeetings /\ (For <= next \/ (pending /\ For = next + 1))
    BY <1>0 DEF For, OneAtATime, Running
  <2>3. Len(of') = Len(of) + 1 /\ of'[Len(of) + 1] = For /\ (\A f \in 1..Len(of) : of'[f] = of[f]) /\ Len(of) \in Nat
    BY <1>0, <1>9, <2>2, Appended DEF Speak
  <2>4. \A f \in 1..Len(of') : f \in 1..Len(of) \/ f = Len(of) + 1
    BY <2>3
  <2>5. For \in Meetings => kind[For] # "file"
    <3>1. Running => kind[worker] # "file"
      BY <2>1, ClosedIsEmpty DEF Drained
    <3>2. pending => kind[next + 1] # "file"
      <4>1. pending => next + 1 \in Meetings /\ next + 1 > next
        BY <1>0 DEF OneAtATime
      <4> QED
        BY <4>1 DEF OneAtATime
    <3> QED
      BY <1>0, <3>1, <3>2 DEF For
  <2>6. pending => cmds = <<>> /\ ~Posted({"failed"})
    BY <2>1 DEF Microphone
  <2>7. UNCHANGED <<pending, next, kind, cmds, events>>
    BY <1>9 DEF Speak, controller, workers
  <2>8. ~Posted({"failed"}) => ~Posted({"failed"})'
    BY <2>7 DEF Posted
  <2> QED
    BY <2>2, <2>3, <2>4, <2>5, <2>6, <2>7, <2>8 DEF Counted
<1>10. CASE CaptureStart
  <2>1. cmds # <<>> /\ UNCHANGED <<of, kind, next, pending>>
    BY <1>10 DEF CaptureStart, controller, workers, history
  <2>2. \A f \in 1..Len(of) : of[f] <= next
    BY <2>1 DEF Counted
  <2> QED
    BY <1>5, <2>1, <2>2
<1>11. CASE CaptureStop
  <2>1. ~pending
    <3>1. cmds # <<>> /\ Head(cmds) = "stop"
      BY <1>11 DEF CaptureStop
    <3> QED
      BY <3>1 DEF Microphone
  <2> QED
    BY <1>4, <1>11, <2>1 DEF CaptureStop, controller
<1>12. CASE DeviceLost
  <2>1. <<"lost">> \in Messages /\ Post(<<"lost">>) /\ <<"lost">>[1] = "lost"
    BY <1>12, AreMessages DEF DeviceLost, CaptureKinds
  <2>2. Posted({"failed"})' => Posted({"failed"})
    <3> SUFFICES ASSUME Posted({"failed"})' PROVE Posted({"failed"})
      OBVIOUS
    <3>1. PICK i \in 1..Len(events') : events'[i][1] = "failed"
      BY DEF Posted
    <3>2. i \in 1..Len(events) /\ events'[i] = events[i]
      BY <2>1, <3>1, AfterPost
    <3> QED
      BY <3>1, <3>2 DEF Posted
  <2>3. UNCHANGED <<of, next, kind, pending, cmds>>
    BY <1>12 DEF DeviceLost, controller, workers
  <2> QED
    BY <2>2, <2>3 DEF Counted
<1>13. ASSUME NEW w \in Meetings, Worker(w) \/ SendBack(w) PROVE Counted'
  <2>1. UNCHANGED <<of, next, kind, pending, cmds>>
    BY <1>13 DEF Worker, SendBack, StartOk, Fails, LoopPaused, LoopTake, LoopStop, SendOk,
                 SendLost, StopSession, StopOk, controller, history
  <2> QED
    BY <1>4, <1>13, <2>1, WorkerIsNoCapture
<1>14. CASE Poll
  <2>1. UNCHANGED <<of, next, kind, pending, cmds>>
    BY <1>14 DEF Poll, PollAsk, PollAnswer, controller, workers, history
  <2> QED
    BY <1>4, <1>14, <2>1, PollIsNoCapture
<1>15. CASE OnCaptureStarted
  <2>1. CASE pending
    BY <1>6, <1>15, <2>1 DEF OnCaptureStarted, OneAtATime, history
  <2>2. CASE ~pending
    <3>1. UNCHANGED <<of, next, kind>> /\ next' = next
      BY <1>15, <2>2 DEF OnCaptureStarted, history
    <3> QED
      BY <1>3, <1>5, <2>2, <3>1
  <2> QED
    BY <2>1, <2>2
<1>16. CASE OnCaptureFailed
  <2>1. 1 \in 1..Len(events) /\ events[1][1] = "failed"
    BY <1>16, AfterEvent DEF OnCaptureFailed
  <2>2. Posted({"failed"})
    BY <2>1 DEF Posted
  <2>3. \A f \in 1..Len(of) : of[f] <= next
    BY <1>3, <2>2 DEF Counted
  <2> QED
    BY <1>5, <1>16, <2>3 DEF OnCaptureFailed, workers, history
<1>17. CASE Teardown
  <2>1. 1 \in 1..Len(events) /\ events[1][1] \in {"finished", "error"}
    BY <1>17, AfterEvent DEF Teardown
  <2>2. ~pending
    BY <2>1, Apart DEF EndsAreLast, OneAtATime, Ends
  <2> QED
    BY <1>3, <1>5, <1>17, <2>2 DEF Teardown, history
<1>18. CASE RetryDevice
  <2>1. pending => cmds' = cmds
    BY <1>18 DEF RetryDevice, OneAtATime
  <2> QED
    BY <1>4, <1>18, <2>1 DEF RetryDevice, workers, history
<1>19. CASE Stop
  <2>1. ~pending
    BY <1>19 DEF Stop, OneAtATime
  <2> QED
    BY <1>4, <1>19, <2>1 DEF Stop, history
<1>20. CASE Pause \/ Resume \/ Drain \/ Unplug \/ Replug \/ UNCHANGED vars
  BY <1>4, <1>20 DEF Pause, Resume, Drain, Unplug, Replug, vars, controller, workers, history
<1>21. CASE OnDeviceLost \/ OnSessionStarted \/ OnWorkerStatus \/ OnLiveState
  <2>1. \E kinds : Event(kinds)
    BY <1>21 DEF OnDeviceLost, OnSessionStarted, OnWorkerStatus, OnLiveState
  <2> QED
    BY <1>4, <1>21, <2>1 DEF OnDeviceLost, OnSessionStarted, OnWorkerStatus, OnLiveState, workers, history
<1> QED
  BY <1>7, <1>8, <1>9, <1>10, <1>11, <1>12, <1>13, <1>14, <1>15, <1>16, <1>17, <1>18, <1>19, <1>20, <1>21
     DEF Next, Operator, Capture, Environment, Slot


\* Whose audio a frame is changes only with the start and the end of a session,
\* and a session that failed stays so.
LEMMA WhoseFor ==
    ASSUME TypeOK, OneAtATime, [Next]_vars, ~StartMicrophone, ~StartFile, ~OnCaptureFailed, ~Teardown
    PROVE  /\ For' = For /\ next <= next'
           /\ \A v \in Meetings : pc[v] = "failed" => pc'[v] = "failed"
<1>0. Meetings = 1..MaxMeetings /\ next \in 0..MaxMeetings /\ MaxMeetings \in Nat
      /\ pc \in [Meetings -> {"none", "starting", "loop", "push", "drain", "lost", "stopping",
                              "finished", "failed"}]
  BY ClientAssumption DEF TypeOK, Meetings
<1>1. ASSUME UNCHANGED <<worker, pending, next, pc>>
      PROVE  /\ For' = For /\ next <= next'
             /\ \A v \in Meetings : pc[v] = "failed" => pc'[v] = "failed"
  BY <1>0, <1>1 DEF For, Running
<1>2. CASE OnCaptureStarted
  <2>1. CASE pending
    <3>1. worker' = next + 1 /\ next' = next + 1 /\ pc' = [pc EXCEPT ![next + 1] = "starting"] /\ ~Running
      BY <1>2, <2>1 DEF OnCaptureStarted, Begin, OneAtATime
    <3>2. next + 1 \in Meetings /\ pc[next + 1] = "none"
      BY <1>0, <2>1 DEF OneAtATime
    <3> QED
      BY <1>0, <2>1, <3>1, <3>2 DEF For, Running
  <2>2. CASE ~pending
    <3>1. UNCHANGED <<worker, next, pc>> /\ pending' = FALSE
      BY <1>2, <2>2 DEF OnCaptureStarted
    <3>2. For' = For
      BY <2>2, <3>1 DEF For, Running
    <3> QED
      BY <1>0, <3>1, <3>2
  <2> QED
    BY <2>1, <2>2
<1>3. ASSUME NEW w \in Meetings, Worker(w) \/ SendBack(w)
      PROVE  /\ For' = For /\ next <= next'
             /\ \A v \in Meetings : pc[v] = "failed" => pc'[v] = "failed"
  <2>1. UNCHANGED <<worker, pending, next>>
    BY <1>3 DEF Worker, SendBack, StartOk, Fails, LoopPaused, LoopTake, LoopStop, SendOk,
                 SendLost, StopSession, StopOk, controller
  <2>2. pc[w] # "failed"
    BY <1>3 DEF Worker, SendBack, StartOk, Fails, Sends, GivesUp, LoopPaused, LoopTake, LoopStop, SendOk,
                 SendLost, StopSession, StopOk
  <2>3. \A v \in Meetings : v # w => pc'[v] = pc[v]
    BY <1>0, <1>3 DEF Worker, SendBack, StartOk, Fails, LoopPaused, LoopTake, LoopStop, SendOk,
                 SendLost, StopSession, StopOk, Goes
  <2>4. For' = For /\ next <= next'
    BY <1>0, <2>1 DEF For, Running
  <2> QED
    BY <2>2, <2>3, <2>4
<1>4. CASE Stop \/ Pause \/ Resume \/ RetryDevice \/ Capture \/ Speak \/ Unplug \/ Replug \/ Poll
           \/ OnDeviceLost \/ OnSessionStarted \/ OnWorkerStatus \/ OnLiveState \/ UNCHANGED vars
  BY <1>1, <1>4 DEF Stop, Pause, Resume, RetryDevice, Capture, CaptureStart, CaptureStop, Drain, DeviceLost, Speak,
                    Unplug, Replug, Poll, PollAsk, PollAnswer, OnDeviceLost, OnSessionStarted, OnWorkerStatus,
                    OnLiveState, vars, controller, workers
<1> QED
  BY <1>2, <1>3, <1>4 DEF Next, Operator, Environment, Slot

LEMMA KeptStep ==
    ASSUME Races \cap {"pending", "click"} = {}, TypeOK, OneAtATime, EndsAreLast, Microphone, Drained, Silence,
           OwnAudio, Counted, Kept, [Next]_vars
    PROVE  Kept'
<1>0. /\ Meetings = 1..MaxMeetings /\ MaxMeetings \in Nat /\ next \in 0..MaxMeetings /\ worker \in 0..MaxMeetings
      /\ kind \in [Meetings -> {"none", "microphone", "file"}] /\ pending \in BOOLEAN
      /\ buf \in [Meetings -> Seq(1..MaxFrames)] /\ sent \in [Meetings -> Seq(1..MaxFrames)]
      /\ of \in Seq(0..MaxMeetings) /\ Len(of) \in Nat
      /\ pc \in [Meetings -> {"none", "starting", "loop", "push", "drain", "lost", "stopping",
                              "finished", "failed"}]
  <2>1. of \in Seq(0..MaxMeetings)
    BY DEF TypeOK
  <2>2. Len(of) \in Nat
    BY <2>1
  <2> QED
    BY <2>1, <2>2, ClientAssumption DEF TypeOK, Meetings
<1>1. queue \in Seq(Nat) /\ device \in Seq(Nat) /\ \A w \in Meetings : buf[w] \in Seq(Nat) /\ sent[w] \in Seq(Nat)
  BY Frames
<1>2. ToSet(<<>>) = {}
  <2>1. <<>> \in Seq(Nat)
    OBVIOUS
  <2> QED
    BY <2>1, Members
<1>3. \A f \in 1..Len(of) : of[f] # 0 => of[f] \in Meetings
  BY <1>0
\* What was on its way is given up, or there was nothing.
<1>4. ASSUME \A f \in 1..Len(of) : of[f] # 0 /\ of[f] = For /\ f \in ToSet(queue) \cup ToSet(device) =>
               of[f] <= next /\ pc[of[f]] = "failed",
             UNCHANGED <<buf, sent, of, excused>>, next <= next', next' \in Int,
             \A w \in Meetings : w <= next => pc'[w] = pc[w]
      PROVE  Kept'
  <2> SUFFICES ASSUME NEW f \in 1..Len(of), of[f] # 0, f \notin excused
               PROVE  of[f] <= next' /\ (pc'[of[f]] = "failed" \/ f \in ToSet(sent[of[f]]) \cup ToSet(buf[of[f]]))
    BY <1>4 DEF Kept
  <2>1. of[f] <= next /\ (pc[of[f]] = "failed" \/ f \in ToSet(sent[of[f]]) \cup ToSet(buf[of[f]]))
    BY <1>4 DEF Kept
  <2>2. of[f] \in Meetings
    BY <1>3
  <2> QED
    BY <1>0, <1>4, <2>1, <2>2
\* What is on its way goes on.
<1>5. ASSUME For' = For, next <= next', next' \in Int, \A v \in Meetings : pc[v] = "failed" => pc'[v] = "failed",
             UNCHANGED of, excused \subseteq excused',
             \A f \in 1..Len(of) : of[f] # 0 /\ of[f] = For /\ f \in ToSet(queue) \cup ToSet(device) =>
               \/ f \in excused' \cup ToSet(queue') \cup ToSet(device')
               \/ of[f] <= next /\ f \in ToSet(buf'[of[f]]),
             \A w \in Meetings : ToSet(sent[w]) \cup ToSet(buf[w]) \subseteq
               ToSet(sent'[w]) \cup ToSet(buf'[w]) \cup excused'
      PROVE  Kept'
  <2> SUFFICES ASSUME NEW f \in 1..Len(of), of[f] # 0, f \notin excused'
               PROVE  \/ of[f] = For /\ f \in ToSet(queue') \cup ToSet(device')
                      \/ /\ of[f] <= next'
                         /\ pc'[of[f]] = "failed" \/ f \in ToSet(sent'[of[f]]) \cup ToSet(buf'[of[f]])
    BY <1>5 DEF Kept
  <2>1. of[f] \in Meetings
    BY <1>3
  <2>2. of[f] <= next => of[f] <= next'
    BY <1>0, <1>5, <2>1
  <2>3. CASE of[f] = For /\ f \in ToSet(queue) \cup ToSet(device)
    BY <1>5, <2>2, <2>3
  <2>4. CASE of[f] <= next /\ (pc[of[f]] = "failed" \/ f \in ToSet(sent[of[f]]) \cup ToSet(buf[of[f]]))
    BY <1>5, <2>1, <2>2, <2>4
  <2> QED
    BY <1>5, <2>3, <2>4 DEF Kept
<1>6. CASE StartMicrophone \/ StartFile
  <2>1. ~Running /\ ~pending /\ For = 0
    BY <1>6 DEF StartMicrophone, StartFile, NotPending, For
  <2>2. UNCHANGED <<buf, sent, of, excused>>
    BY <1>6 DEF StartMicrophone, StartFile, workers, history
  <2>3. next' \in {next, next + 1}
    BY <1>6 DEF StartMicrophone, StartFile, Begin, workers
  <2>4. \A w \in Meetings : w <= next => pc'[w] = pc[w]
    <3>1. CASE StartMicrophone
      BY <3>1 DEF StartMicrophone, workers
    <3>2. CASE StartFile
      BY <1>0, <3>2 DEF StartFile, Begin
    <3> QED
      BY <1>6, <3>1, <3>2
  <2> QED
    BY <1>0, <1>4, <2>1, <2>2, <2>3, <2>4
<1>7. CASE OnCaptureFailed
  <2>1. UNCHANGED <<queue, device, buf, sent, of, excused, next, pc, worker>> /\ pending' = FALSE
    BY <1>7 DEF OnCaptureFailed, capture, audio, workers, history
  <2>2. CASE pending
    <3>1. 1 \in 1..Len(events) /\ events[1][1] = "failed"
      BY <1>7, AfterEvent DEF OnCaptureFailed
    <3>2. \A f \in 1..Len(of) : of[f] <= next
      BY <2>2, <3>1 DEF Counted, Posted
    <3>3. For = next + 1
      BY <2>2 DEF For, OneAtATime
    <3>4. \A f \in 1..Len(of) : of[f] # For
      BY <1>0, <3>2, <3>3
    <3> QED
      BY <1>0, <1>4, <2>1, <3>4
  <2>3. CASE ~pending
    <3>1. For' = For
      BY <2>1, <2>3 DEF For, Running
    <3> QED
      BY <1>0, <1>5, <2>1, <3>1
  <2> QED
    BY <2>2, <2>3
<1>8. CASE Teardown
  <2>1. UNCHANGED <<queue, device, buf, sent, of, excused, next, pc>>
    BY <1>8 DEF Teardown, capture, audio, history
  <2>2. 1 \in 1..Len(events) /\ events[1][1] \in Ends
    BY <1>8, AfterEvent DEF Teardown, Ends
  <2>3. Running /\ pc[worker] \in Over
    BY <2>2, Apart DEF EndsAreLast
  <2>4. worker = next /\ worker \in Meetings /\ For = worker /\ pc[worker] \in {"finished", "failed"}
        /\ kind[worker] # "none"
    BY <1>0, <2>3 DEF OneAtATime, Running, For, Over
  <2>5. CASE pc[worker] = "failed"
    <3>1. \A f \in 1..Len(of) : of[f] = For => of[f] <= next /\ pc[of[f]] = "failed"
      BY <1>0, <2>4, <2>5
    <3> QED
      BY <1>0, <1>4, <2>1, <3>1
  <2>6. CASE pc[worker] = "finished" /\ kind[worker] = "file"
    <3>1. \A f \in 1..Len(of) : of[f] # For
      BY <2>4, <2>6 DEF Counted
    <3> QED
      BY <1>0, <1>4, <2>1, <3>1
  <2>7. CASE pc[worker] = "finished" /\ kind[worker] = "microphone"
    <3>1. cmds = <<>> /\ queue = <<>> /\ worker \in stop
      BY <2>3, <2>4, <2>7 DEF Drained
    <3>2. device = <<>>
      BY <2>3, <3>1, ClosedIsEmpty DEF Microphone
    <3> QED
      BY <1>0, <1>2, <1>4, <2>1, <3>1, <3>2
  <2> QED
    BY <1>0, <2>4, <2>5, <2>6, <2>7
<1>9. CASE ~StartMicrophone /\ ~StartFile /\ ~OnCaptureFailed /\ ~Teardown
  <2>1. For' = For /\ next <= next' /\ \A v \in Meetings : pc[v] = "failed" => pc'[v] = "failed"
    BY <1>9, WhoseFor
  <2>2. next' \in Int
    <3>1. TypeOK'
      BY TypeStep
    <3> QED
      BY <3>1, <1>0 DEF TypeOK
  <2>3. CASE Stays
    BY <1>5, <2>1, <2>2, <2>3 DEF Stays
  <2>4. CASE Handed
    <3>1. \A f \in 1..Len(of) : of[f] # 0 /\ of[f] = For => Takes
      <4>1. Running => worker \in Meetings /\ kind[worker] # "none"
        BY <1>0 DEF OneAtATime, Running
      <4> QED
        BY <1>0, <4>1 DEF Takes, For, Counted
    <3>2. ToSet(queue \o device) = ToSet(queue) \cup ToSet(device)
      BY <1>1, Joined
    <3> QED
      BY <1>5, <2>1, <2>2, <2>4, <3>1, <3>2 DEF Handed
  <2>5. CASE Cut
    BY <1>5, <2>1, <2>2, <2>5 DEF Cut
  <2>6. CASE Heard
    <3>1. For \in 0..MaxMeetings
      BY <1>0 DEF For, OneAtATime
    <3>2. /\ Len(of') = Len(of) + 1 /\ of'[Len(of) + 1] = For /\ \A f \in 1..Len(of) : of'[f] = of[f]
          /\ \A f \in 1..Len(of') : f \in 1..Len(of) \/ f = Len(of) + 1
      BY <1>0, <2>6, <3>1, Appended DEF Heard
    <3>3. ToSet(device') = ToSet(device) \cup {Len(of) + 1}
      <4>1. Len(of) + 1 \in Nat
        BY <1>0
      <4> QED
        BY ONLY <1>1, <2>6, <4>1, Appended DEF Heard
    <3>4. UNCHANGED <<queue, buf, sent>> /\ excused \subseteq excused' /\ (For = 0 => Len(of) + 1 \in excused')
      BY <2>6 DEF Heard
    <3> SUFFICES ASSUME NEW f \in 1..Len(of'), of'[f] # 0, f \notin excused'
                 PROVE  \/ of'[f] = For /\ f \in ToSet(queue') \cup ToSet(device')
                        \/ /\ of'[f] <= next'
                           /\ \/ pc'[of'[f]] = "failed"
                              \/ f \in ToSet(sent'[of'[f]]) \cup ToSet(buf'[of'[f]])
      BY <2>1 DEF Kept
    <3>5. CASE f = Len(of) + 1
      BY <3>2, <3>3, <3>5
    <3>6. CASE f \in 1..Len(of)
      <4>1. of'[f] = of[f] /\ of[f] \in Meetings
        BY <1>3, <3>2, <3>6
      <4>2. of[f] <= next => of[f] <= next'
        BY <1>0, <2>1, <2>2, <4>1
      <4>3. \/ of[f] = For /\ f \in ToSet(queue) \cup ToSet(device)
            \/ of[f] <= next /\ (pc[of[f]] = "failed" \/ f \in ToSet(sent[of[f]]) \cup ToSet(buf[of[f]]))
        BY <3>4, <3>6, <4>1 DEF Kept
      <4> QED
        BY <2>1, <3>3, <3>4, <4>1, <4>2, <4>3
    <3> QED
      BY <3>2, <3>5, <3>6
  <2>7. ASSUME NEW w \in Meetings, Skipped(w) PROVE Kept'
    <3>1. UNCHANGED <<queue, device, sent, of>> /\ excused' = excused \cup ToSet(buf[w])
          /\ \A v \in Meetings : v # w => buf'[v] = buf[v]
      BY <1>0, <2>7 DEF Skipped
    <3> QED
      BY <1>5, <2>1, <2>2, <3>1
  <2>8. ASSUME NEW w \in Meetings, Taken(w) PROVE Kept'
    <3>1. UNCHANGED <<device, sent, of, excused>> /\ worker = w
          /\ buf'[w] = buf[w] \o queue /\ \A v \in Meetings : v # w => buf'[v] = buf[v]
      BY <1>0, <2>8 DEF Taken
    <3>2. ToSet(buf'[w]) = ToSet(buf[w]) \cup ToSet(queue)
      BY <1>1, <3>1, Joined
    <3>3. For = w /\ w <= next
      BY <1>0, <3>1 DEF For, Running, OneAtATime
    <3> QED
      BY <1>5, <2>1, <2>2, <3>1, <3>2, <3>3
  <2>9. ASSUME NEW w \in Meetings, NEW size \in 0..Len(buf[w]), Acked(w, size) PROVE Kept'
    <3> DEFINE a == SubSeq(buf[w], 1, size)
               b == SubSeq(buf[w], size + 1, Len(buf[w]))
    <3>1. a \in Seq(Nat) /\ ToSet(a) \cup ToSet(b) = ToSet(buf[w])
      BY <1>1, Split
    <3>2. sent'[w] = sent[w] \o a /\ buf'[w] = b
          /\ \A v \in Meetings : v # w => buf'[v] = buf[v] /\ sent'[v] = sent[v]
      BY <1>0, <2>9 DEF Acked
    <3> HIDE DEF a, b
    <3>3. ToSet(sent'[w]) = ToSet(sent[w]) \cup ToSet(a)
      BY <1>1, <3>1, <3>2, Joined
    <3>4. UNCHANGED <<queue, device, of, excused>>
      BY <2>9 DEF Acked
    <3>5. \A v \in Meetings : ToSet(sent[v]) \cup ToSet(buf[v]) \subseteq ToSet(sent'[v]) \cup ToSet(buf'[v])
      BY <3>1, <3>2, <3>3
    <3> QED
      BY <1>5, <2>1, <2>2, <3>4, <3>5
  <2> QED
    BY <1>9, <2>3, <2>4, <2>5, <2>6, <2>7, <2>8, <2>9, AudioMoves
<1> QED
  BY <1>6, <1>7, <1>8, <1>9

-----------------------------------------------------------------------------
(* What always holds, and the theorems.                                    *)

LEMMA InitHolds ==
    ASSUME Init
    PROVE  /\ TypeOK /\ OneAtATime /\ EndsAreLast /\ Following /\ Microphone /\ InOrder /\ OwnAudio
           /\ Drained /\ Silence /\ Counted /\ Kept
<1>0. MaxMeetings \in Nat \ {0} /\ MaxFaults \in Nat /\ Capacity \in Nat /\ Meetings = 1..MaxMeetings
  BY ClientAssumption DEF Meetings
<1>1. Len(<<>>) = 0 /\ 1..Len(<<>>) = {} /\ (\A S : <<>> \in Seq(S))
  OBVIOUS
<1>2. ToSet(<<>>) = {}
  BY <1>1, Members
<1>3. TypeOK
  <2>1. <<>> \in Seq(Messages) /\ <<>> \in Seq({"start", "stop"}) /\ <<>> \in Seq(1..MaxFrames)
        /\ <<>> \in Seq(0..MaxMeetings)
    OBVIOUS
  <2>2. /\ events \in Seq(Messages) /\ cmds \in Seq({"start", "stop"}) /\ of \in Seq(0..MaxMeetings)
        /\ device \in Seq(1..MaxFrames) /\ queue \in Seq(1..MaxFrames) /\ Len(queue) <= Capacity
    BY <1>0, <1>1, <2>1 DEF Init
  <2>3. buf \in [Meetings -> Seq(1..MaxFrames)] /\ sent \in [Meetings -> Seq(1..MaxFrames)]
    BY <2>1 DEF Init
  <2>4. /\ worker \in 0..MaxMeetings /\ shown \in 0..MaxMeetings /\ polled \in 0..MaxMeetings
        /\ next \in 0..MaxMeetings /\ asking \in 0..MaxMeetings /\ faults \in 0..MaxFaults
    BY <1>0 DEF Init
  <2>5. /\ {pending, wanted, retry, open, present, silent} \subseteq BOOLEAN
        /\ stop \cup paused \cup dropped \subseteq Meetings /\ excused \subseteq 1..MaxFrames
    BY DEF Init
  <2>6. /\ mic \in {"idle", "starting", "recording", "paused", "network", "reconnecting",
                     "finalizing", "stopped", "error"}
        /\ kind \in [Meetings -> {"none", "microphone", "file"}]
        /\ held \in [Meetings -> {"none", "open", "done"}]
        /\ pc \in [Meetings -> {"none", "starting", "loop", "push", "drain", "lost", "stopping",
                                "finished", "failed"}]
    BY DEF Init
  <2> QED
    BY <2>2, <2>3, <2>4, <2>5, <2>6 DEF TypeOK
<1>4. ~Running /\ ~pending /\ ~Takes /\ For = 0
  BY DEF Init, Running, Takes, For
<1>5. OneAtATime /\ EndsAreLast /\ Following
  BY <1>0, <1>1, <1>4 DEF Init, OneAtATime, EndsAreLast, Following, Over, Running
<1>6. Microphone /\ Drained /\ Silence /\ Counted /\ Kept
  BY <1>0, <1>1, <1>4 DEF Init, Microphone, Drained, Silence, Counted, Kept
<1>7. Ascending(<<>>) /\ Before(<<>>, <<>>)
  BY <1>1, <1>2 DEF Ascending, Before
<1>8. \A w \in Meetings : buf[w] = <<>> /\ sent[w] = <<>>
  BY DEF Init
<1>9. queue = <<>> /\ device = <<>>
  BY DEF Init
<1>10. InOrder /\ OwnAudio
  BY <1>2, <1>4, <1>7, <1>8, <1>9 DEF InOrder, OwnAudio
<1> QED
  BY <1>3, <1>5, <1>6, <1>10

\* What every argument rests on.
Base == TypeOK /\ OneAtATime /\ EndsAreLast

LEMMA BaseHolds == ASSUME "pending" \notin Races PROVE Spec => []Base
<1>1. Init => Base
  BY InitHolds DEF Base
<1>2. Base /\ [Next]_vars => Base'
  BY TypeStep, OneAtATimeStep, EndsAreLastStep DEF Base
<1> QED
  BY <1>1, <1>2, PTL DEF Spec

\* The state keeps its types, if no session is started while the last one's
\* microphone is being opened: the opening would otherwise make a second worker over
\* the first, and one more than are counted (SessionController::start,
\* onCaptureStarted).
THEOREM ClientTypeCorrect == ASSUME "pending" \notin Races PROVE Spec => []TypeOK
<1>1. Base => TypeOK
  BY DEF Base
<1> QED
  BY <1>1, BaseHolds, PTL

\* The running meeting is polled and shown, if no poll of the last meeting is
\* answered after the next began (SessionController::onSessionStarted, onLiveState).
THEOREM RunningMeetingIsFollowed ==
    ASSUME Races \cap {"pending", "stale"} = {} PROVE Spec => []RunningIsFollowed
<1>1. Init => Base /\ Following
  BY InitHolds DEF Base
<1>2. Base /\ Following /\ [Next]_vars => (Base /\ Following)'
  BY TypeStep, OneAtATimeStep, EndsAreLastStep, FollowingStep DEF Base
<1>3. ASSUME Base, Following PROVE RunningIsFollowed
  <2> SUFFICES ASSUME Running, held[worker] = "open",
                      \A i \in 1..Len(events) : events[i] # <<"recording", worker>>
               PROVE  polled = worker /\ shown = worker
    BY DEF RunningIsFollowed
  <2>1. ASSUME NEW i \in 1..Len(events), events[i][1] = "recording" PROVE events[i] = <<"recording", worker>>
    <3>1. events[i] \in Messages
      BY <1>3 DEF Base, TypeOK
    <3>2. events[i][2] = worker
      BY <1>3, <2>1, Apart DEF Base, EndsAreLast
    <3>3. CASE events[i] \in WorkerKinds \X Meetings
      BY <2>1, <3>2, <3>3
    <3>4. CASE events[i] \in {<<k>> : k \in CaptureKinds}
      BY <2>1, <3>4 DEF CaptureKinds
    <3>5. CASE events[i] \in {"state"} \X Meetings \X BOOLEAN
      BY <2>1, <3>5
    <3> QED
      BY <3>1, <3>3, <3>4, <3>5 DEF Messages
  <2>2. \A i \in 1..Len(events) : events[i][1] # "recording"
    BY <2>1
  <2> QED
    BY <1>3, <2>2 DEF Following
<1> QED
  BY <1>1, <1>2, <1>3, PTL DEF Spec

\* The microphone is open only for a session that runs or is about to, if the next
\* session is started when the capture thread has done what the end of the last one
\* asked of it (SessionController::teardownWorker, stop, onCaptureFailed).
THEOREM MicrophoneIsAlwaysReleased ==
    ASSUME Races \cap {"pending", "click"} = {} PROVE Spec => []MicrophoneIsReleased
<1>1. Init => Base /\ Microphone
  BY InitHolds DEF Base
<1>2. Base /\ Microphone /\ [Next]_vars => (Base /\ Microphone)'
  BY TypeStep, OneAtATimeStep, EndsAreLastStep, MicrophoneStep DEF Base
<1>3. ASSUME Base, Microphone PROVE MicrophoneIsReleased
  BY <1>3 DEF Microphone, MicrophoneIsReleased, CaptureIsIdle
<1> QED
  BY <1>1, <1>2, <1>3, PTL DEF Spec

Flow == Microphone /\ InOrder /\ OwnAudio /\ Drained /\ Silence /\ Counted /\ Kept

\* A finished meeting has its own audio, in order, once, and all of it that was not
\* given up with a notice, if moreover the worker looks at the queue a last time
\* only when the capture thread has handed over what the device still held
\* (SessionController::stop, SessionWorker::runMicrophone, AudioQueue::configure).
THEOREM SpokenAudioIsSent ==
    ASSUME Races \cap {"pending", "click", "tail"} = {} PROVE Spec => []SpokenIsSent
<1>1. Init => Base /\ Flow
  BY InitHolds DEF Base, Flow
<1>2. ASSUME Base, Flow, [Next]_vars PROVE (Base /\ Flow)'
  <2>1. Base'
    BY <1>2, TypeStep, OneAtATimeStep, EndsAreLastStep DEF Base
  <2>2. Microphone' /\ Drained' /\ Silence'
    BY <1>2, MicrophoneStep, DrainedStep, SilenceStep DEF Base, Flow
  <2>3. InOrder' /\ OwnAudio'
    BY <1>2, AudioStep DEF Base, Flow
  <2>4. Counted' /\ Kept'
    BY <1>2, CountedStep, KeptStep DEF Base, Flow
  <2> QED
    BY <2>1, <2>2, <2>3, <2>4 DEF Flow
<1>3. ASSUME Base, Flow PROVE SpokenIsSent
  <2>1. TypeOK /\ OneAtATime /\ EndsAreLast /\ Microphone /\ InOrder /\ OwnAudio /\ Drained /\ Counted /\ Kept
    BY <1>3 DEF Base, Flow
  <2> SUFFICES ASSUME NEW w \in Meetings
               PROVE  /\ \A i \in 1..Len(sent[w]) : of[sent[w][i]] = w
                      /\ \A i, j \in 1..Len(sent[w]) : i < j => sent[w][i] < sent[w][j]
                      /\ pc[w] = "finished" =>
                           \A f \in 1..Len(of) : of[f] = w => f \in ToSet(sent[w]) \cup excused
    BY DEF SpokenIsSent
  <2>2. sent[w] \in Seq(Nat) /\ Meetings = 1..MaxMeetings /\ worker \in 0..MaxMeetings /\ next \in 0..MaxMeetings
        /\ MaxMeetings \in Nat /\ kind \in [Meetings -> {"none", "microphone", "file"}]
    BY <2>1, Frames, ClientAssumption DEF TypeOK, Meetings
  <2>3. \A i \in 1..Len(sent[w]) : of[sent[w][i]] = w
    BY <2>1, <2>2, Members DEF OwnAudio
  <2>4. \A i, j \in 1..Len(sent[w]) : i < j => sent[w][i] < sent[w][j]
    BY <2>1 DEF InOrder, Ascending
  <2>5. ASSUME pc[w] = "finished", NEW f \in 1..Len(of), of[f] = w, f \notin excused
        PROVE  f \in ToSet(sent[w])
    <3>1. buf[w] = <<>> /\ ToSet(<<>>) = {}
      <4>1. buf[w] = <<>>
        BY <2>1, <2>5 DEF Drained
      <4>2. <<>> \in Seq(Nat)
        OBVIOUS
      <4> QED
        BY <4>1, <4>2, Members
    <3>2. w <= next /\ kind[w] = "microphone"
      BY <2>1, <2>2, <2>5 DEF OneAtATime, Counted
    <3>3. CASE of[f] = For /\ f \in ToSet(queue) \cup ToSet(device)
      <4>1. For = w /\ worker = w /\ Running
        BY <2>1, <2>2, <2>5, <3>2, <3>3 DEF For, Running
      <4>2. cmds = <<>> /\ queue = <<>> /\ w \in stop
        BY <2>1, <2>5, <3>2, <4>1 DEF Drained
      <4>3. device = <<>>
        BY <2>1, <4>1, <4>2, ClosedIsEmpty DEF Microphone
      <4> QED
        BY <3>1, <3>3, <4>2, <4>3
    <3> QED
      BY <2>1, <2>2, <2>5, <3>1, <3>3 DEF Kept
  <2> QED
    BY <2>3, <2>4, <2>5
<1> QED
  BY <1>1, <1>2, <1>3, PTL DEF Spec

-----------------------------------------------------------------------------
(* The transcript on screen.  How the words of a slot lock it.             *)

\* A row's word is committed and an edge's is not, with letters that were decided.
IsWord(w) ==
    /\ w.text \in [letters : Nat, mark : Marks] /\ w.low \in BOOLEAN
    /\ w.at # "none" <=> w.text.letters > 0
IsRow(w) == IsWord(w) /\ w.at \in {"none", "committed"}
IsEdge(w) == IsWord(w) /\ w.at \in {"none", "provisional"} /\ ~w.low
IsDisplay(d) ==
    d \in [text : [letters : Nat, mark : Marks], committed : BOOLEAN, rev : Nat]
IsLane(l) == l = [lane |-> l.lane, committed |-> l.committed] /\ l.committed \in BOOLEAN

\* What the words of a slot make of its display lock.
Redisplay(d, d2, row, edge, m) ==
    /\ IsDisplay(d2)
    /\ d2 = d \/ d2.rev = m.rev
    /\ Visible(row, m) =>
         /\ d2.committed /\ m.rev <= d2.rev
         /\ d.committed => d2.text = d.text \/ d2.text = row.text
         /\ d.committed /\ d2.text.letters # d.text.letters => d.rev < m.rev /\ d2.text = row.text
         /\ d.committed /\ d.rev < m.rev => d2.text = row.text
         /\ ~d.committed => d2.text = row.text /\ d2.rev = m.rev
    /\ ~Visible(row, m) =>
         /\ d2.committed = d.committed
         /\ d.committed => d2.text = d.text /\ d.rev <= d2.rev
         /\ ~d.committed /\ d # Unshown => d2 = d
    /\ Visible(row, m) \/ Visible(edge, m) => d2 # Unshown
    /\ ~Visible(row, m) /\ ~Visible(edge, m) => d2 = d

LEMMA OnceDisplayed ==
    ASSUME NEW d, NEW w, NEW m, IsDisplay(d), IsWord(w), m.rev \in Nat, w.at = "committed"
    PROVE  LET e == DisplayLocked(d, w, m.rev) IN
           /\ IsDisplay(e) /\ e.committed /\ m.rev <= e.rev /\ (e = d \/ e.rev = m.rev)
           /\ d.committed => e.text = d.text \/ e.text = w.text
           /\ d.committed /\ e.text.letters # d.text.letters => d.rev < m.rev /\ e.text = w.text
           /\ d.committed /\ d.rev < m.rev => e.text = w.text
           /\ ~d.committed => e.text = w.text /\ e.rev = m.rev
<1> DEFINE e == DisplayLocked(d, w, m.rev)
<1>1. IsCommitted(w)
  BY DEF IsCommitted
<1>2. CASE ~d.committed
  <2>1. e = [text |-> w.text, committed |-> TRUE, rev |-> m.rev]
    BY <1>1, <1>2 DEF DisplayLocked
  <2> QED BY <2>1, <1>2 DEF IsDisplay, IsWord
<1>3. CASE d.committed /\ Accepts(d, w, m.rev)
  <2>1. e = [text |-> w.text, committed |-> TRUE, rev |-> m.rev]
    BY <1>1, <1>3 DEF DisplayLocked, IsDisplay
  <2>2. e.text.letters # d.text.letters => d.rev < m.rev
    BY <1>3, <2>1 DEF Accepts, Upgrades, IsDisplay
  <2> QED BY <2>1, <2>2, <1>3 DEF IsDisplay, IsWord
<1>4. CASE d.committed /\ ~Accepts(d, w, m.rev)
  <2>1. e = [text |-> d.text, committed |-> TRUE, rev |-> IF m.rev > d.rev THEN m.rev ELSE d.rev]
    BY <1>1, <1>4 DEF DisplayLocked, IsDisplay
  <2>2. d.rev < m.rev => d.text = w.text
    BY <1>4 DEF Accepts, IsDisplay
  <2> QED BY <2>1, <2>2, <1>4 DEF IsDisplay, IsWord
<1> QED BY <1>2, <1>3, <1>4

LEMMA OnceGuessed ==
    ASSUME NEW d, NEW w, NEW m, IsDisplay(d), IsWord(w), m.rev \in Nat, w.at = "provisional"
    PROVE  LET e == DisplayLocked(d, w, m.rev) IN
           /\ IsDisplay(e) /\ e.committed = d.committed /\ (e = d \/ e.rev = m.rev) /\ e # Unshown
           /\ d.committed => e.text = d.text /\ d.rev <= e.rev /\ m.rev <= e.rev
           /\ ~d.committed /\ d # Unshown => e = d
<1> DEFINE e == DisplayLocked(d, w, m.rev)
<1>1. ~IsCommitted(w)
  BY DEF IsCommitted
<1>2. CASE d.committed
  <2>1. e = [text |-> d.text, committed |-> TRUE, rev |-> IF m.rev > d.rev THEN m.rev ELSE d.rev]
    BY <1>1, <1>2 DEF DisplayLocked, IsDisplay
  <2>2. e.committed
    BY <2>1, <1>2
  <2> QED BY <2>1, <2>2, <1>2 DEF IsDisplay, Unshown
<1>3. CASE ~d.committed /\ d # Unshown
  <2>1. e = d
    BY <1>1, <1>3 DEF DisplayLocked
  <2> QED BY <2>1, <1>3 DEF IsDisplay
<1>4. CASE d = Unshown
  <2>1. ~d.committed
    BY <1>4 DEF Unshown
  <2>2. e = [text |-> w.text, committed |-> FALSE, rev |-> m.rev]
    <3>1. IsCommitted(w) = FALSE
      BY <1>1
    <3> HIDE DEF IsCommitted
    <3> QED BY <3>1, <1>4, <2>1 DEF DisplayLocked
  <2>3. e.text.letters # 0 /\ Unshown.text.letters = 0
    BY <2>2 DEF IsWord, Unshown, Bare
  <2>4. IsDisplay(e) /\ e.committed = FALSE /\ e.rev = m.rev /\ e # Unshown
    BY <2>2, <2>3 DEF IsDisplay, IsWord
  <2>5. d.committed = FALSE
    BY <1>4 DEF Unshown
  <2> HIDE DEF e
  <2> QED BY <2>4, <2>5, <1>4 DEF e
<1> QED BY <1>2, <1>3, <1>4

LEMMA Displays ==
    ASSUME NEW d, NEW m, NEW p, IsDisplay(d), m.rev \in Nat, IsRow(m.rows[p]), IsEdge(m.edge[p])
    PROVE  /\ Redisplay(d, DisplayOf(d, m, p), m.rows[p], m.edge[p], m)
           /\ Visible(m.rows[p], m) =>
                /\ Redisplayed(d, m.rows[p], m).committed
                /\ Redisplayed(d, m.rows[p], m).text = DisplayOf(d, m, p).text
<1> DEFINE row == m.rows[p]
           edge == m.edge[p]
           d1 == Redisplayed(d, row, m)
           d2 == DisplayOf(d, m, p)
<1>1. IsRow(row) /\ IsEdge(edge) /\ IsWord(row) /\ IsWord(edge)
  BY DEF IsRow, IsEdge
<1>2. d2 = Redisplayed(d1, edge, m)
  BY DEF DisplayOf
<1> HIDE DEF row, edge
<1>3. CASE ~Visible(row, m) /\ ~Visible(edge, m)
  <2>1. d1 = d /\ d2 = d
    BY <1>2, <1>3 DEF Redisplayed
  <2>2. d2.committed = d.committed /\ d.rev <= d2.rev
    BY <2>1 DEF IsDisplay
  <2> HIDE DEF d1, d2
  <2> QED BY <2>1, <2>2, <1>3 DEF Redisplay, row, edge, d1, d2
<1>4. CASE ~Visible(row, m) /\ Visible(edge, m)
  <2>1. d1 = d /\ d2 = DisplayLocked(d, edge, m.rev)
    BY <1>2, <1>4 DEF Redisplayed
  <2>2. edge.at = "provisional"
    BY <1>1, <1>4 DEF IsEdge, Visible
  <2> HIDE DEF d1, d2
  <2>3. /\ IsDisplay(d2) /\ d2.committed = d.committed /\ (d2 = d \/ d2.rev = m.rev) /\ d2 # Unshown
        /\ d.committed => d2.text = d.text /\ d.rev <= d2.rev /\ m.rev <= d2.rev
        /\ ~d.committed /\ d # Unshown => d2 = d
    BY <1>1, <2>1, <2>2, OnceGuessed
  <2> QED BY <2>3, <1>4 DEF Redisplay, row, edge, d1, d2
<1>5. CASE Visible(row, m)
  <2>1. d1 = DisplayLocked(d, row, m.rev)
    BY <1>5 DEF Redisplayed
  <2>2. row.at = "committed"
    BY <1>1, <1>5 DEF IsRow, Visible
  <2> HIDE DEF d1, d2
  <2>3. /\ IsDisplay(d1) /\ d1.committed /\ m.rev <= d1.rev /\ (d1 = d \/ d1.rev = m.rev)
        /\ d.committed => d1.text = d.text \/ d1.text = row.text
        /\ d.committed /\ d1.text.letters # d.text.letters => d.rev < m.rev /\ d1.text = row.text
        /\ d.committed /\ d.rev < m.rev => d1.text = row.text
        /\ ~d.committed => d1.text = row.text /\ d1.rev = m.rev
    BY <1>1, <2>1, <2>2, OnceDisplayed
  <2>4. /\ IsDisplay(d2) /\ d2.committed /\ d2.text = d1.text /\ d1.rev <= d2.rev
        /\ (d2 = d1 \/ d2.rev = m.rev)
    <3>1. CASE ~Visible(edge, m)
      <4>1. d2 = d1
        BY <1>2, <3>1 DEF Redisplayed
      <4> QED BY <4>1, <2>3 DEF IsDisplay
    <3>2. CASE Visible(edge, m)
      <4>1. d2 = DisplayLocked(d1, edge, m.rev) /\ edge.at = "provisional"
        BY <1>1, <1>2, <3>2 DEF Redisplayed, IsEdge, Visible
      <4> QED BY <4>1, <2>3, <1>1, OnceGuessed
    <3> QED BY <3>1, <3>2
  <2>5. d2 # Unshown
    BY <2>4 DEF Unshown
  <2>6. m.rev <= d2.rev
    BY <2>3, <2>4 DEF IsDisplay
  <2>7. ~d.committed => d2.rev = m.rev
    BY <2>3, <2>4 DEF IsDisplay
  <2>8. d2 = d \/ d2.rev = m.rev
    BY <2>3, <2>4
  <2> QED BY <2>3, <2>4, <2>5, <2>6, <2>7, <2>8, <1>5 DEF Redisplay, row, edge, d1, d2
<1> QED BY <1>3, <1>4, <1>5

\* What they make of its lane lock.
LEMMA LanesLock ==
    ASSUME NEW l, NEW m, NEW p, IsLane(l), IsRow(m.rows[p]), IsEdge(m.edge[p])
    PROVE  LET l2 == LaneOf(l, m, p) IN
           /\ IsLane(l2)
           /\ Visible(m.rows[p], m) => l2.committed /\ l2 = Relaned(l, m.rows[p], m)
           /\ Visible(m.rows[p], m) \/ Visible(m.edge[p], m) => l2 # Unlocked
           /\ l.committed => l2.committed /\ (l2.lane = l.lane \/ (~Verified(l.lane) /\ Verified(l2.lane)))
           /\ l # Unlocked /\ ~Visible(m.rows[p], m) => l2 = l
           /\ ~Visible(m.rows[p], m) /\ ~Visible(m.edge[p], m) => l2 = l
<1> DEFINE row == m.rows[p]
           edge == m.edge[p]
           l1 == Relaned(l, row, m)
           l2 == LaneOf(l, m, p)
<1>1. IsRow(row) /\ IsEdge(edge)
  OBVIOUS
<1>2. l2 = Relaned(l1, edge, m)
  BY DEF LaneOf
<1>3. \A w : LaneKey(w) # <<>>
  BY DEF LaneKey
<1> HIDE DEF row, edge
<1>4. CASE Visible(row, m)
  <2>1. row.at = "committed" /\ l1 = LaneLocked(l, row)
    BY <1>1, <1>4 DEF IsRow, Visible, Relaned
  <2>2. CASE Relanes(l, row)
    <3>1. l1 = [lane |-> LaneKey(row), committed |-> TRUE]
      BY <2>1, <2>2 DEF LaneLocked, IsCommitted
    <3>2. l.committed => ~Verified(l.lane) /\ Verified(LaneKey(row))
      BY <2>2 DEF Relanes, Unlocked
    <3>3. IsLane(l1) /\ l1.committed /\ l1 # Unlocked
      BY <3>1, <1>3 DEF IsLane, Unlocked
    <3>4. l2 = l1
      BY <1>1, <1>2, <3>3 DEF Relaned, LaneLocked, Relanes, IsCommitted, IsEdge
    <3> QED BY <3>1, <3>2, <3>3, <3>4, <1>4 DEF row, edge
  <2>3. CASE ~Relanes(l, row)
    <3>1. l1 = l /\ l.committed /\ l # Unlocked
      BY <2>1, <2>3 DEF LaneLocked, Relanes, IsCommitted
    <3>2. l2 = l
      BY <1>1, <1>2, <3>1 DEF Relaned, LaneLocked, Relanes, IsCommitted, IsEdge
    <3> QED BY <3>1, <3>2, <1>4 DEF row, edge
  <2> QED BY <2>2, <2>3
<1>5. CASE ~Visible(row, m) /\ ~Visible(edge, m)
  <2>1. l1 = l /\ l2 = l
    BY <1>2, <1>5 DEF Relaned
  <2> HIDE DEF l1, l2
  <2> QED BY <2>1, <1>5 DEF row, edge, l1, l2
<1>6. CASE ~Visible(row, m) /\ Visible(edge, m)
  <2>1. l1 = l /\ l2 = LaneLocked(l, edge) /\ ~IsCommitted(edge)
    BY <1>1, <1>2, <1>6 DEF Relaned, Visible, IsEdge, IsCommitted
  <2>2. CASE l = Unlocked
    <3>1. l2 = [lane |-> LaneKey(edge), committed |-> FALSE]
      <4>1. IsCommitted(edge) = FALSE
        BY <2>1
      <4> QED BY <4>1, <2>1, <2>2 DEF LaneLocked, Relanes
    <3>2. ~l.committed
      BY <2>2 DEF Unlocked
    <3>3. IsLane(l2) /\ l2 # Unlocked
      BY <3>1, <1>3 DEF IsLane, Unlocked
    <3> HIDE DEF l2
    <3> QED BY <3>2, <3>3, <2>2, <1>6 DEF row, edge, l2
  <2>3. CASE l # Unlocked
    <3>1. l2 = l
      BY <2>1, <2>3 DEF LaneLocked, Relanes
    <3> HIDE DEF l2
    <3> QED BY <3>1, <2>3, <1>6 DEF row, edge, l2
  <2> QED BY <2>2, <2>3
<1> QED BY <1>4, <1>5, <1>6

\* What is drawn of a slot whose locks are l2 and d2 by then.
Drawing(set, row, edge, m, l2, d2) ==
    /\ Visible(row, m) =>
         set = {[lane |-> l2.lane, text |-> d2.text, committed |-> TRUE, settled |-> TRUE]}
    /\ ~Visible(row, m) /\ Visible(edge, m) =>
         set = {[lane |-> l2.lane, text |-> d2.text, committed |-> d2.committed, settled |-> FALSE]}
    /\ ~Visible(row, m) /\ ~Visible(edge, m) => set = {}

LEMMA Draws ==
    ASSUME NEW l, NEW d, NEW m, NEW p, IsLane(l), IsDisplay(d), m.rev \in Nat,
           IsRow(m.rows[p]), IsEdge(m.edge[p])
    PROVE  Drawing(Drawn(l, d, m, p), m.rows[p], m.edge[p], m, LaneOf(l, m, p), DisplayOf(d, m, p))
<1> DEFINE row == m.rows[p]
           edge == m.edge[p]
           l1 == Relaned(l, row, m)
           d1 == Redisplayed(d, row, m)
           l2 == LaneOf(l, m, p)
           d2 == DisplayOf(d, m, p)
           first == DrawnRow(l, d, m, p)
           second == DrawnEdge(l, d, m, p)
<1>1. /\ Visible(row, m) => d1.committed /\ d1.text = d2.text /\ d2.committed /\ l2 = l1
      /\ Redisplay(d, d2, row, edge, m)
  BY Displays, LanesLock DEF Redisplay
<1>2. /\ Visible(row, m) => IsCommitted(row) = TRUE
      /\ Visible(edge, m) => IsCommitted(edge) = FALSE
  BY DEF IsRow, IsEdge, Visible, IsCommitted
<1>3. IsDisplay(d2)
  BY <1>1 DEF Redisplay
<1>4. Drawn(l, d, m, p) = first \cup {x \in second : \A e \in first : e.lane # x.lane}
  BY DEF Drawn
<1>5. CASE Visible(row, m)
  <2>1. first = {DrawnWord(l1, d1, row)}
    BY <1>5 DEF DrawnRow
  <2>2. d1.committed = TRUE
    <3>1. IsWord(row)
      BY DEF IsRow
    <3>2. row.at = "committed"
      BY <1>5 DEF IsRow, Visible
    <3>3. d1 = DisplayLocked(d, row, m.rev)
      BY <1>5 DEF Redisplayed
    <3>4. IsDisplay(d1)
      <4> HIDE DEF row, d1
      <4> QED BY <3>1, <3>2, <3>3, OnceDisplayed
    <3> QED BY <3>4, <1>1, <1>5 DEF IsDisplay
  <2>3. DrawnWord(l1, d1, row) = [lane |-> l2.lane, text |-> d2.text, committed |-> TRUE, settled |-> TRUE]
    <3> HIDE DEF row, d1, l1, l2, d2
    <3> QED BY <1>1, <1>2, <1>5, <2>2 DEF DrawnWord
  <2>4. \A x \in second : x.lane = l2.lane
    BY DEF DrawnEdge, DrawnWord
  <2>5. Drawn(l, d, m, p) = {DrawnWord(l1, d1, row)}
    <3>1. DrawnWord(l1, d1, row).lane = l2.lane
      BY <2>3
    <3> HIDE DEF row, d1, l1, l2, d2, first, second
    <3> QED BY <1>4, <2>1, <2>4, <3>1
  <2> HIDE DEF row, d1, l1, l2, d2, first, second
  <2> QED BY <2>3, <2>5, <1>5 DEF Drawing, row, edge, l2, d2
<1>6. CASE ~Visible(row, m) /\ Visible(edge, m)
  <2>1. first = {} /\ second = {DrawnWord(l2, d2, edge)}
    BY <1>6 DEF DrawnRow, DrawnEdge
  <2>2. DrawnWord(l2, d2, edge)
          = [lane |-> l2.lane, text |-> d2.text, committed |-> d2.committed, settled |-> FALSE]
    <3> HIDE DEF edge, l2, d2
    <3> QED BY <1>2, <1>6 DEF DrawnWord
  <2>3. Drawn(l, d, m, p) = {DrawnWord(l2, d2, edge)}
    <3> HIDE DEF l2, d2, edge, first, second
    <3> QED BY <1>4, <2>1
  <2> HIDE DEF row, l2, d2, first, second
  <2> QED BY <2>2, <2>3, <1>6 DEF Drawing, row, edge, l2, d2
<1>7. CASE ~Visible(row, m) /\ ~Visible(edge, m)
  <2>1. first = {} /\ second = {}
    BY <1>7 DEF DrawnRow, DrawnEdge
  <2>2. Drawn(l, d, m, p) = {}
    <3> HIDE DEF first, second
    <3> QED BY <1>4, <2>1
  <2> HIDE DEF row, edge
  <2> QED BY <2>2, <1>7 DEF Drawing, row, edge
<1> QED BY <1>5, <1>6, <1>7

LEMMA BoundedAt ==
    ASSUME NEW locks, NEW none, NEW live, NEW max, NEW p \in Slots, locks = [q \in Slots |-> locks[q]]
    PROVE  /\ Bounded(locks, none, live, max) = [q \in Slots |-> Bounded(locks, none, live, max)[q]]
           /\ p \in live => Bounded(locks, none, live, max)[p] = locks[p]
           /\ Bounded(locks, none, live, max)[p] \in {locks[p], none}
BY DEF Bounded

\* One slot of the client: what is drawn of it and how it is locked.
TypeOn(p) == IsLane(laneLock[p]) /\ IsDisplay(displayLock[p]) /\ newest[p] \in [rev : Nat, letters : Nat]
DrawnOn(p) ==
    /\ lanes[p] = {} <=> ~Visible(model.rows[p], model) /\ ~Visible(model.edge[p], model)
    /\ lanes[p] # {} => laneLock[p] # Unlocked /\ displayLock[p] # Unshown
    /\ \A d \in lanes[p] :
         /\ d.lane = laneLock[p].lane /\ d.text = displayLock[p].text
         /\ d.committed = displayLock[p].committed
         /\ d.settled \in BOOLEAN
         /\ d.settled => d.committed /\ laneLock[p].committed
         /\ lanes[p] = {[lane |-> d.lane, text |-> d.text, committed |-> d.committed, settled |-> d.settled]}

ModelWords == /\ model = [rev |-> model.rev, rows |-> model.rows, edge |-> model.edge,
                          showLow |-> model.showLow]
              /\ model.rev \in Nat
              /\ \A p \in Slots : IsRow(model.rows[p]) /\ IsEdge(model.edge[p])
Client ==
    /\ ModelWords
    /\ laneLock = [p \in Slots |-> laneLock[p]]
    /\ displayLock = [p \in Slots |-> displayLock[p]]
    /\ \A p \in Slots : TypeOn(p) /\ DrawnOn(p)

\* rebuild(), one slot of it.
Rebuilt(p, m, d) ==
    LET row == m.rows[p]
        edge == m.edge[p] IN
    /\ Visible(row, m) \/ Visible(edge, m) =>
         displayLock'[p] = DisplayOf(d[p], m, p) /\ laneLock'[p] = LaneOf(laneLock[p], m, p)
    /\ ~Visible(row, m) /\ ~Visible(edge, m) =>
         displayLock'[p] \in {d[p], Unshown} /\ laneLock'[p] \in {laneLock[p], Unlocked}
    /\ Drawing(lanes'[p], row, edge, m, laneLock'[p], displayLock'[p])

LEMMA RebuildAt ==
    ASSUME NEW m, NEW d, Rebuild(m, d), NEW p \in Slots, m.rev \in Nat,
           IsLane(laneLock[p]), IsDisplay(d[p]), IsRow(m.rows[p]), IsEdge(m.edge[p])
    PROVE  Rebuilt(p, m, d)
<1> DEFINE live == {q \in Slots : Visible(m.rows[q], m) \/ Visible(m.edge[q], m)}
           ls == [q \in Slots |-> LaneOf(laneLock[q], m, q)]
           ds == [q \in Slots |-> DisplayOf(d[q], m, q)]
           l2 == LaneOf(laneLock[p], m, p)
           d2 == DisplayOf(d[p], m, p)
<1>1. /\ laneLock' = Bounded(ls, Unlocked, live, LaneLockMax)
      /\ displayLock' = Bounded(ds, Unshown, live, DisplayLockMax)
      /\ lanes'[p] = Drawn(laneLock[p], d[p], m, p)
  BY DEF Rebuild
<1>2. ls = [q \in Slots |-> ls[q]] /\ ds = [q \in Slots |-> ds[q]] /\ ls[p] = l2 /\ ds[p] = d2
  OBVIOUS
<1>3. p \in live <=> Visible(m.rows[p], m) \/ Visible(m.edge[p], m)
  OBVIOUS
<1>4. Drawing(lanes'[p], m.rows[p], m.edge[p], m, l2, d2)
  BY <1>1, Draws
<1>5. ~Visible(m.rows[p], m) /\ ~Visible(m.edge[p], m) => l2 = laneLock[p] /\ d2 = d[p]
  <2>1. Redisplay(d[p], d2, m.rows[p], m.edge[p], m)
    BY Displays
  <2>2. ~Visible(m.rows[p], m) /\ ~Visible(m.edge[p], m) => l2 = laneLock[p]
    BY LanesLock
  <2> QED BY <2>1, <2>2 DEF Redisplay
<1> HIDE DEF live, ls, ds, l2, d2
<1>6. /\ p \in live => laneLock'[p] = l2 /\ displayLock'[p] = d2
      /\ laneLock'[p] \in {l2, Unlocked} /\ displayLock'[p] \in {d2, Unshown}
  <2>1. /\ p \in live => Bounded(ls, Unlocked, live, LaneLockMax)[p] = ls[p]
        /\ Bounded(ls, Unlocked, live, LaneLockMax)[p] \in {ls[p], Unlocked}
    BY ONLY p \in Slots, <1>2, BoundedAt
  <2>2. /\ p \in live => Bounded(ds, Unshown, live, DisplayLockMax)[p] = ds[p]
        /\ Bounded(ds, Unshown, live, DisplayLockMax)[p] \in {ds[p], Unshown}
    BY ONLY p \in Slots, <1>2, BoundedAt
  <2> QED BY ONLY <1>1, <1>2, <2>1, <2>2
<1>7. Drawing(lanes'[p], m.rows[p], m.edge[p], m, laneLock'[p], displayLock'[p])
  BY ONLY <1>3, <1>4, <1>6 DEF Drawing
<1> QED BY ONLY <1>3, <1>5, <1>6, <1>7 DEF Rebuilt, l2, d2

\* The types and what is drawn survive every rebuild.
LEMMA RebuildKeeps ==
    ASSUME NEW m, NEW d, NEW p \in Slots, Rebuilt(p, m, d), m.rev \in Nat, model' = m,
           IsLane(laneLock[p]), IsDisplay(d[p]), IsRow(m.rows[p]), IsEdge(m.edge[p])
    PROVE  IsLane(laneLock[p])' /\ IsDisplay(displayLock[p])' /\ DrawnOn(p)'
<1> DEFINE row == m.rows[p]
           edge == m.edge[p]
           l2 == LaneOf(laneLock[p], m, p)
           d2 == DisplayOf(d[p], m, p)
<1>1. Redisplay(d[p], d2, row, edge, m)
  BY Displays
<1>2. /\ IsLane(l2)
      /\ Visible(row, m) => l2.committed
      /\ Visible(row, m) \/ Visible(edge, m) => l2 # Unlocked
  BY LanesLock
<1>3. IsLane(Unlocked) /\ IsDisplay(Unshown)
  BY DEF IsLane, IsDisplay, Unlocked, Unshown, Bare, Marks
<1> HIDE DEF row, edge, l2, d2
<1>4. /\ Visible(row, m) \/ Visible(edge, m) => displayLock'[p] = d2 /\ laneLock'[p] = l2
      /\ ~Visible(row, m) /\ ~Visible(edge, m) =>
           displayLock'[p] \in {d[p], Unshown} /\ laneLock'[p] \in {laneLock[p], Unlocked}
      /\ Drawing(lanes'[p], row, edge, m, laneLock'[p], displayLock'[p])
  BY DEF Rebuilt, row, edge, l2, d2
<1>5. IsLane(laneLock'[p]) /\ IsDisplay(displayLock'[p])
  BY <1>1, <1>2, <1>3, <1>4 DEF Redisplay
<1>6. DrawnOn(p)'
  <2> DEFINE set == lanes'[p]
             lane == laneLock'[p].lane
             display == displayLock'[p]
  <2>1. CASE Visible(row, m)
    <3>1. display.committed = TRUE /\ laneLock'[p].committed
      BY <1>1, <1>2, <1>4, <1>5, <2>1 DEF Redisplay, IsDisplay
    <3>2. set = {[lane |-> lane, text |-> display.text, committed |-> TRUE, settled |-> TRUE]}
      BY <1>4, <2>1 DEF Drawing
    <3>3. laneLock'[p] # Unlocked /\ display # Unshown
      BY <1>1, <1>2, <1>4, <2>1 DEF Redisplay
    <3> HIDE DEF set, lane, display
    <3>4. \A x \in set : /\ x.lane = lane /\ x.text = display.text /\ x.committed = TRUE
                         /\ x.settled = TRUE
                         /\ set = {[lane |-> x.lane, text |-> x.text, committed |-> x.committed,
                                    settled |-> x.settled]}
      <4> TAKE x \in set
      <4>1. x = [lane |-> lane, text |-> display.text, committed |-> TRUE, settled |-> TRUE]
        BY <3>2
      <4>2. x.lane = lane /\ x.text = display.text
        BY <4>1
      <4>3. x.committed = TRUE /\ x.settled = TRUE
        BY <4>1
      <4> QED BY <3>2, <4>2, <4>3
    <3> QED
      BY <3>1, <3>2, <3>3, <3>4, <2>1 DEF DrawnOn, set, lane, display, row, edge
  <2>2. CASE ~Visible(row, m) /\ Visible(edge, m)
    <3>2. set = {[lane |-> lane, text |-> display.text, committed |-> display.committed, settled |-> FALSE]}
      BY <1>4, <2>2 DEF Drawing
    <3>3. laneLock'[p] # Unlocked /\ display # Unshown
      BY <1>1, <1>2, <1>4, <2>2 DEF Redisplay
    <3> HIDE DEF set, lane, display
    <3>4. \A x \in set : /\ x.lane = lane /\ x.text = display.text /\ x.committed = display.committed
                         /\ x.settled = FALSE
                         /\ set = {[lane |-> x.lane, text |-> x.text, committed |-> x.committed,
                                    settled |-> x.settled]}
      <4> TAKE x \in set
      <4>1. x = [lane |-> lane, text |-> display.text, committed |-> display.committed, settled |-> FALSE]
        BY <3>2
      <4>2. x.lane = lane /\ x.text = display.text
        BY <4>1
      <4>3. x.committed = display.committed /\ x.settled = FALSE
        BY <4>1
      <4> QED BY <3>2, <4>2, <4>3
    <3> QED
      BY <3>2, <3>3, <3>4, <2>2 DEF DrawnOn, set, lane, display, row, edge
  <2>3. CASE ~Visible(row, m) /\ ~Visible(edge, m)
    <3>1. set = {}
      BY <1>4, <2>3 DEF Drawing
    <3> QED BY <3>1, <2>3 DEF DrawnOn, row, edge
  <2> QED BY <2>1, <2>2, <2>3
<1> QED BY <1>5, <1>6

\* A step of rebuild() that keeps the display locks leaves guesses as they are,
\* and any step of it leaves committed words in their lanes.
LEMMA RebuildIsStill ==
    ASSUME NEW m, NEW d, NEW p \in Slots, Rebuilt(p, m, d), m.rev \in Nat, model' = m,
           IsLane(laneLock[p]), IsDisplay(displayLock[p]), IsDisplay(d[p]),
           IsRow(m.rows[p]), IsEdge(m.edge[p]), DrawnOn(p), DrawnOn(p)',
           NEW x \in lanes[p], NEW y \in lanes'[p]
    PROVE  /\ ~x.committed /\ ~y.committed /\ d[p] = displayLock[p] => x = y
           /\ x.settled => y.lane = x.lane \/ (~Verified(x.lane) /\ Verified(y.lane))
<1> DEFINE row == m.rows[p]
           edge == m.edge[p]
           l2 == LaneOf(laneLock[p], m, p)
           d2 == DisplayOf(d[p], m, p)
<1>1. Redisplay(d[p], d2, row, edge, m)
  BY Displays
<1>2. /\ laneLock[p].committed =>
           l2.lane = laneLock[p].lane \/ (~Verified(laneLock[p].lane) /\ Verified(l2.lane))
      /\ laneLock[p] # Unlocked /\ ~Visible(row, m) => l2 = laneLock[p]
  BY LanesLock
<1>3. Visible(row, m) \/ Visible(edge, m)
  BY DEF DrawnOn
<1>4. displayLock'[p] = d2 /\ laneLock'[p] = l2
  BY <1>3 DEF Rebuilt
<1>5. /\ laneLock[p] # Unlocked /\ displayLock[p] # Unshown
      /\ x.lane = laneLock[p].lane /\ x.text = displayLock[p].text
      /\ x.committed = displayLock[p].committed
      /\ x.settled => x.committed /\ laneLock[p].committed
      /\ x.settled \in BOOLEAN
      /\ lanes[p] = {[lane |-> x.lane, text |-> x.text, committed |-> x.committed, settled |-> x.settled]}
  BY DEF DrawnOn
<1>6. /\ y.lane = l2.lane /\ y.text = d2.text /\ y.committed = d2.committed
      /\ y.settled => y.committed
      /\ y.settled \in BOOLEAN
      /\ lanes'[p] = {[lane |-> y.lane, text |-> y.text, committed |-> y.committed, settled |-> y.settled]}
  BY <1>4 DEF DrawnOn
<1> HIDE DEF row, edge, l2, d2
<1>7. x.settled => y.lane = x.lane \/ (~Verified(x.lane) /\ Verified(y.lane))
  BY ONLY <1>2, <1>5, <1>6
<1>8. ASSUME ~x.committed, ~y.committed, d[p] = displayLock[p]
      PROVE  x = y
  <2>1. ~Visible(row, m)
    BY <1>1, <1>6, <1>8 DEF Redisplay
  <2>2. d2 = displayLock[p] /\ l2 = laneLock[p]
    BY <1>1, <1>2, <1>5, <1>8, <2>1 DEF Redisplay
  <2>3. x.lane = y.lane /\ x.text = y.text /\ x.committed = y.committed
    BY ONLY <1>5, <1>6, <2>2
  <2>4. ~x.settled /\ ~y.settled
    BY <1>5, <1>6, <1>8
  <2>5. x.settled = y.settled
    BY <1>5, <1>6, <2>4
  <2> QED BY ONLY <1>5, <1>6, <2>3, <2>5
<1> QED BY <1>7, <1>8

LEMMA StillIsStill ==
    ASSUME NEW p \in Slots, DrawnOn(p), NEW x \in lanes[p], NEW y \in lanes[p]
    PROVE  x = y
BY DEF DrawnOn

LEMMA DrawnOnce ==
    ASSUME NEW set,
           \A d \in set : set = {[lane |-> d.lane, text |-> d.text, committed |-> d.committed,
                                  settled |-> d.settled]}
    PROVE  Cardinality(set) <= 1
<1>1. CASE set = {}
  BY <1>1, FS_EmptySet
<1>2. CASE set # {}
  <2>1. PICK x : set = {x}
    BY <1>2
  <2>2. Cardinality({x}) = 1
    BY FS_Singleton
  <2> QED BY <2>1, <2>2
<1> QED BY <1>1, <1>2

-----------------------------------------------------------------------------
(* What the server says, and what is on its way.                           *)

Channels == {"poll", "edit"}
IsTranscript(words) ==
    /\ words = [p \in Slots |-> words[p]]
    /\ \A p \in Slots : /\ IsWord(words[p]) /\ words[p].at \in {"none", "provisional", "committed"}
                        /\ words[p].at = "provisional" => ~words[p].low
IsServer ==
    /\ rev \in Nat /\ decided \in Nat /\ IsTranscript(server)
    /\ IsTranscript(saved[1]) /\ saved[2] \in Nat
IsAnswer(a) ==
    /\ a.rev \in Nat
    /\ a.rows = [p \in Slots |-> a.rows[p]]
    /\ \A p \in Slots : /\ IsRow(a.rows[p]) /\ IsEdge(a.edge[p])
                        /\ a.rows[p].at = "none" \/ a.edge[p].at = "none"

\* The transcript as it is, and as the answers under way have it.
Current == SnapshotOf(server, rev)
Versions == {Current} \cup {answers[c] : c \in {k \in Channels : answers[k] # NoAnswer}}

StillInv ==
    /\ IsServer /\ Client
    /\ answers = [c \in Channels |-> answers[c]]
    /\ \A b \in Versions : IsAnswer(b)

\* A revision says what is committed.
Determined == \A a, b \in Versions : a.rev = b.rev => a.rows = b.rows
OneLate(r) ==
    answers["poll"] = NoAnswer \/ answers["edit"] = NoAnswer
      \/ answers["poll"].rev >= r \/ answers["edit"].rev >= r

ModelOn ==
    /\ model.rev <= rev
    /\ \A b \in Versions : b.rev = model.rev =>
         \A p \in Slots : b.rows[p].at # "none" => model.rows[p] = b.rows[p]

RevOn(p) ==
    /\ displayLock[p].rev <= newest[p].rev /\ newest[p].rev <= rev
    /\ lanes[p] # {} => model.rev <= newest[p].rev

\* What the newest answer had is what is locked, and whatever comes late is
\* below the lock's revision.
HeldOn(p) ==
    newest[p].letters > 0 =>
      /\ displayLock[p].committed /\ displayLock[p].text.letters = newest[p].letters
      /\ \A b \in Versions : b.rev < newest[p].rev => b.rev <= displayLock[p].rev
      /\ newest[p].rev = model.rev =>
           /\ model.rows[p].text.letters = newest[p].letters
           /\ model.rows[p].at # "none" /\ model.edge[p].at = "none"

\* Whatever comes next is above it, or has what is locked.
NextOn(p) ==
    \A b \in Versions : Visible(b.rows[p], model) /\ newest[p].rev <= b.rev =>
      \/ ~displayLock[p].committed \/ displayLock[p].rev < b.rev
      \/ displayLock[p].text.letters = b.rows[p].text.letters

ViewInv ==
    /\ StillInv
    /\ \A b \in Versions : b.rev <= rev
    /\ Determined /\ ModelOn /\ OneLate(model.rev)
    /\ \A p \in Slots : OneLate(newest[p].rev) /\ RevOn(p) /\ HeldOn(p) /\ NextOn(p)

\* A step of the server, of an answer being given, or of one that is lost.
Said ==
    /\ UNCHANGED <<model, laneLock, displayLock, lanes, newest>>
    /\ IsServer'
    /\ answers' = [c \in Channels |-> answers'[c]]
    /\ \A c \in Channels : answers'[c] \in {NoAnswer, Current', answers[c]}
Says ==
    /\ Said
    /\ \/ rev' = rev + 1
       \/ rev' = rev /\ At(server, "committed")' = At(server, "committed")

LEMMA CurrentIsAnswer ==
    ASSUME IsServer PROVE IsAnswer(Current)
<1>1. /\ Current.rev = rev
      /\ Current.rows = [p \in Slots |-> IF server[p].at = "committed" THEN server[p] ELSE Absent]
      /\ Current.edge = [p \in Slots |-> IF server[p].at = "provisional" THEN server[p] ELSE Absent]
  BY DEF Current, SnapshotOf, At
<1>2. IsWord(Absent) /\ Absent.at = "none" /\ ~Absent.low
  BY DEF IsWord, Absent, Bare, Marks
<1> HIDE DEF Current
<1>3. ASSUME NEW p \in Slots
      PROVE  /\ IsRow(Current.rows[p]) /\ IsEdge(Current.edge[p])
             /\ Current.rows[p].at = "none" \/ Current.edge[p].at = "none"
  <2>1. IsWord(server[p]) /\ server[p].at \in {"none", "provisional", "committed"}
        /\ (server[p].at = "provisional" => ~server[p].low)
    BY DEF IsServer, IsTranscript
  <2>2. Current.rows[p] = IF server[p].at = "committed" THEN server[p] ELSE Absent
    BY <1>1
  <2>3. Current.edge[p] = IF server[p].at = "provisional" THEN server[p] ELSE Absent
    BY <1>1
  <2> QED BY <2>1, <2>2, <2>3, <1>2 DEF IsRow, IsEdge
<1> QED BY <1>1, <1>3 DEF IsAnswer, IsServer

LEMMA SaidVersions ==
    ASSUME Said, NEW b \in Versions' PROVE b \in Versions \/ b = Current'
<1>1. CASE b = Current'
  BY <1>1
<1>2. CASE b # Current'
  <2>1. PICK c \in Channels : answers'[c] # NoAnswer' /\ b = answers'[c]
    BY <1>2 DEF Versions
  <2>2. NoAnswer' = NoAnswer
    BY DEF NoAnswer, Nothing, Absent, Bare
  <2>3. b = answers[c] /\ answers[c] # NoAnswer
    BY <1>2, <2>1, <2>2 DEF Said
  <2> QED BY <2>3 DEF Versions
<1> QED BY <1>1, <1>2

LEMMA SaidKeeps ==
    ASSUME StillInv, Said
    PROVE  StillInv'
<1>1. /\ IsServer /\ Client /\ IsServer'
      /\ \A b \in Versions : IsAnswer(b)
      /\ model' = model /\ laneLock' = laneLock /\ displayLock' = displayLock
      /\ lanes' = lanes /\ newest' = newest
  BY DEF StillInv, Said
<1>2. IsAnswer(Current)'
  BY <1>1, CurrentIsAnswer, PTL
<1> HIDE DEF Current
<1>3. Client'
  BY <1>1 DEF Client, ModelWords, TypeOn, DrawnOn
<1>4. \A b \in Versions' : IsAnswer(b)'
  <2>1. \A b \in Versions : IsAnswer(b)'
    BY <1>1 DEF IsAnswer
  <2> QED BY <1>2, <2>1, SaidVersions
<1>5. answers' = [c \in Channels |-> answers'[c]] /\ Channels' = Channels
  BY DEF Said, Channels
<1> QED BY <1>1, <1>3, <1>4, <1>5 DEF StillInv

LEMMA SaysKeeps ==
    ASSUME ViewInv, Says
    PROVE  ViewInv'
<1>1. /\ IsServer /\ Client /\ IsServer' /\ Said
      /\ \A b \in Versions : IsAnswer(b) /\ b.rev <= rev
      /\ model' = model /\ laneLock' = laneLock /\ displayLock' = displayLock
      /\ lanes' = lanes /\ newest' = newest
      /\ rev \in Nat /\ rev' \in Nat
  BY DEF ViewInv, StillInv, Says, Said, IsServer
<1>2. /\ Current \in Versions /\ Current.rev = rev /\ Current'.rev = rev'
      /\ Current.rows = At(server, "committed") /\ Current'.rows = At(server, "committed")'
  BY DEF Versions, Current, SnapshotOf
<1> HIDE DEF Current
<1>3. rev <= rev'
  BY <1>1 DEF Says
<1>4. Current'.rev = rev + 1 \/ (Current'.rev = rev /\ Current'.rows = Current.rows)
  BY <1>2 DEF Says
<1>5. ASSUME NEW b \in Versions' PROVE b \in Versions \/ b = Current'
  BY <1>1, SaidVersions
<1>6. StillInv'
  BY <1>1, SaidKeeps DEF ViewInv
<1>7. \A b \in Versions' : b.rev <= rev'
  <2> SUFFICES ASSUME NEW b \in Versions' PROVE b.rev <= rev'
    OBVIOUS
  <2>1. CASE b \in Versions
    <3>1. b.rev \in Nat /\ b.rev <= rev
      BY <2>1, <1>1 DEF IsAnswer
    <3> QED BY <3>1, <1>1, <1>3
  <2> QED BY <1>1, <1>2, <1>5, <2>1
<1>8. Determined'
  <2> SUFFICES ASSUME NEW a \in Versions', NEW b \in Versions', a.rev = b.rev
               PROVE  a.rows = b.rows
    BY DEF Determined
  <2>1. \A x, y \in Versions : x.rev = y.rev => x.rows = y.rows
    BY DEF ViewInv, Determined
  <2>2. \A x \in Versions : x.rev <= rev /\ x.rev \in Nat
    BY <1>1 DEF IsAnswer
  <2> QED BY <1>1, <1>2, <1>4, <1>5, <2>1, <2>2
<1>9. ModelOn'
  <2>1. /\ model.rev <= rev /\ model.rev \in Nat
        /\ \A b \in Versions : b.rev = model.rev =>
             \A p \in Slots : b.rows[p].at # "none" => model.rows[p] = b.rows[p]
    BY <1>1 DEF ViewInv, ModelOn, Client, ModelWords
  <2>2. model.rev <= rev'
    BY <1>1, <1>3, <2>1
  <2>3. ASSUME NEW b \in Versions', b.rev = model.rev, NEW p \in Slots, b.rows[p].at # "none"
        PROVE  model.rows[p] = b.rows[p]
    BY <1>1, <1>2, <1>4, <1>5, <2>1, <2>3
  <2> QED BY <1>1, <2>2, <2>3 DEF ModelOn
<1>10. ASSUME NEW r \in Nat, r <= rev, OneLate(r) PROVE OneLate(r)'
  <2>1. NoAnswer' = NoAnswer
    BY DEF NoAnswer, Nothing, Absent, Bare
  <2>2. \A c \in Channels : answers'[c] \in {NoAnswer, Current', answers[c]}
    BY <1>1 DEF Said
  <2>3. Current'.rev >= r
    BY <1>10, <1>1, <1>2, <1>3
  <2>4. "poll" \in Channels /\ "edit" \in Channels
    BY DEF Channels
  <2> QED BY <1>10, <2>1, <2>2, <2>3, <2>4 DEF OneLate
<1>11. ASSUME NEW p \in Slots PROVE OneLate(newest[p].rev)' /\ RevOn(p)' /\ HeldOn(p)' /\ NextOn(p)'
  <2>1. OneLate(newest[p].rev) /\ RevOn(p) /\ HeldOn(p) /\ NextOn(p)
    BY DEF ViewInv
  <2>2. newest[p].rev \in Nat /\ newest[p].letters \in Nat /\ displayLock[p].rev \in Nat
    BY <1>1 DEF Client, TypeOn, IsDisplay
  <2>3. newest[p].rev <= rev /\ displayLock[p].rev <= newest[p].rev
    BY <2>1 DEF RevOn
  <2>4. OneLate(newest[p].rev)'
    BY <1>10, <2>1, <2>2, <2>3, <1>1
  <2>5. RevOn(p)'
    BY <1>1, <1>3, <2>1, <2>2 DEF RevOn
  <2>6. HeldOn(p)'
    BY <1>1, <1>2, <1>3, <1>5, <2>1, <2>2, <2>3 DEF HeldOn
  <2>7. NextOn(p)'
    <3> SUFFICES ASSUME NEW b \in Versions', Visible(b.rows[p], model), newest[p].rev <= b.rev
                 PROVE  \/ ~displayLock[p].committed \/ displayLock[p].rev < b.rev
                        \/ displayLock[p].text.letters = b.rows[p].text.letters
      BY <1>1 DEF NextOn
    <3>1. CASE b \in Versions
      BY <3>1, <2>1 DEF NextOn
    <3>2. CASE b = Current' /\ b.rev = rev + 1
      BY <3>2, <1>1, <2>2, <2>3
    <3>3. CASE b = Current' /\ b.rev = rev /\ b.rows = Current.rows
      BY <3>3, <1>2, <2>1 DEF NextOn
    <3> QED BY <1>4, <1>5, <3>1, <3>2, <3>3
  <2> QED BY <2>4, <2>5, <2>6, <2>7
<1>12. OneLate(model.rev)'
  <2>1. OneLate(model.rev) /\ model.rev \in Nat /\ model.rev <= rev
    BY <1>1 DEF ViewInv, ModelOn, Client, ModelWords
  <2>2. OneLate(model.rev)'
    BY <1>1, <1>10, <2>1
  <2> QED BY <2>2
<1> QED
  BY <1>1, <1>6, <1>7, <1>8, <1>9, <1>11, <1>12 DEF ViewInv

\* mergeLiveRows, one slot of it.
LEMMA MergeKeeps ==
    ASSUME ModelWords, NEW a, IsAnswer(a), NEW p \in Slots
    PROVE  LET m == Updated(a) IN
           /\ IsRow(m.rows[p]) /\ IsEdge(m.edge[p])
           /\ a.rows[p].at # "none" => m.rows[p] = a.rows[p]
           /\ m.rev = a.rev /\ m.edge = a.edge /\ m.showLow = model.showLow
<1> DEFINE m == Updated(a)
           merged == Merged(model.rows, a.rows)
<1>1. /\ m.rev = a.rev /\ m.edge = a.edge /\ m.showLow = model.showLow /\ m.rows = merged
      /\ m = [rev |-> a.rev, rows |-> merged, edge |-> a.edge, showLow |-> model.showLow]
  BY DEF Updated
<1>2. merged[p] = IF a.rows[p].at # "none" THEN a.rows[p]
                  ELSE IF \E q \in {s \in Slots : a.rows[s].at # "none"} : q <= p THEN Absent
                  ELSE model.rows[p]
  BY DEF Merged
<1>3. IsRow(Absent)
  BY DEF IsRow, IsWord, Absent, Bare, Marks
<1>4. IsRow(merged[p]) /\ IsEdge(a.edge[p]) /\ (a.rows[p].at # "none" => merged[p] = a.rows[p])
  <2>1. IsRow(a.rows[p]) /\ IsEdge(a.edge[p]) /\ IsRow(model.rows[p])
    BY DEF IsAnswer, ModelWords
  <2> HIDE DEF merged
  <2> QED BY <1>2, <1>3, <2>1
<1> HIDE DEF m, merged
<1> QED BY <1>1, <1>4 DEF m, merged

\* What is under way after an answer was taken or lost was under way before.
LEMMA TakenVersions ==
    ASSUME NEW c \in Channels, answers' = [answers EXCEPT ![c] = NoAnswer],
           answers = [k \in Channels |-> answers[k]], UNCHANGED serverVars
    PROVE  /\ Versions' \subseteq Versions
           /\ answers'[c] = NoAnswer
           /\ answers' = [k \in Channels |-> answers'[k]]
           /\ \A b \in Versions' : b = Current \/ \E k \in Channels \ {c} : b = answers[k] /\ answers[k] # NoAnswer
<1>1. NoAnswer' = NoAnswer /\ Current' = Current
  BY DEF NoAnswer, Nothing, Absent, Bare, Current, SnapshotOf, At, serverVars
<1> HIDE DEF Current, NoAnswer
<1>2. \A k \in Channels : answers'[k] = IF k = c THEN NoAnswer ELSE answers[k]
  OBVIOUS
<1>3. \A b \in Versions' : b = Current \/ \E k \in Channels \ {c} : b = answers[k] /\ answers[k] # NoAnswer
  BY <1>1, <1>2 DEF Versions
<1>4. Versions' \subseteq Versions
  BY <1>3 DEF Versions
<1> QED BY <1>2, <1>3, <1>4

LEMMA DeliverStill ==
    ASSUME StillInv, NEW c \in Channels, Deliver(c)
    PROVE  /\ StillInv'
           /\ LET m == Updated(answers[c]) IN
              /\ IsAnswer(answers[c]) /\ answers[c] \in Versions /\ model' = m
              /\ m.rev = answers[c].rev /\ m.edge = answers[c].edge /\ m.showLow = model.showLow
              /\ \A p \in Slots : /\ Rebuilt(p, m, displayLock) /\ IsRow(m.rows[p]) /\ IsEdge(m.edge[p])
                                  /\ answers[c].rows[p].at # "none" => m.rows[p] = answers[c].rows[p]
<1> DEFINE a == answers[c]
           m == Updated(a)
<1>1. /\ IsServer /\ Client /\ ModelWords
      /\ answers = [k \in Channels |-> answers[k]] /\ \A b \in Versions : IsAnswer(b)
      /\ \A p \in Slots : TypeOn(p) /\ DrawnOn(p)
  BY DEF StillInv, Client
<1>2. /\ a # NoAnswer /\ answers' = [answers EXCEPT ![c] = NoAnswer] /\ UNCHANGED serverVars
      /\ Rebuild(m, displayLock)
      /\ newest' = [p \in Slots |-> NewestAfter(p, a)]
  BY DEF Deliver
<1>3. a \in Versions
  BY <1>2 DEF Versions
<1>4. IsAnswer(a)
  BY <1>1, <1>3
<1>5. ASSUME NEW p \in Slots
      PROVE  /\ IsRow(m.rows[p]) /\ IsEdge(m.edge[p])
             /\ a.rows[p].at # "none" => m.rows[p] = a.rows[p]
  <2> HIDE DEF a
  <2> QED BY <1>1, <1>4, MergeKeeps
<1>6. m.rev = a.rev /\ m.edge = a.edge /\ m.showLow = model.showLow /\ m.rows = Merged(model.rows, a.rows)
  BY DEF Updated
<1>9. a.rev \in Nat
  BY <1>4 DEF IsAnswer
<1> HIDE DEF a, m
<1>10. model' = m
  BY <1>2 DEF Rebuild
<1>11. ASSUME NEW p \in Slots
       PROVE  /\ Rebuilt(p, m, displayLock)
              /\ IsLane(laneLock[p])' /\ IsDisplay(displayLock[p])' /\ DrawnOn(p)'
  <2>1. IsLane(laneLock[p]) /\ IsDisplay(displayLock[p])
    BY <1>1 DEF TypeOn
  <2>2. Rebuilt(p, m, displayLock)
    BY <1>5, <1>6, <1>2, <1>9, <2>1, RebuildAt
  <2>3. IsLane(laneLock[p])' /\ IsDisplay(displayLock[p])' /\ DrawnOn(p)'
    BY <1>5, <1>6, <1>9, <1>10, <2>1, <2>2, RebuildKeeps
  <2> QED BY <2>2, <2>3
<1>12. ASSUME NEW p \in Slots PROVE newest'[p] \in [rev : Nat, letters : Nat]
  <2>1. newest'[p] = NewestAfter(p, a)
    BY <1>2
  <2>2. newest[p] \in [rev : Nat, letters : Nat] /\ Unheard \in [rev : Nat, letters : Nat]
    BY <1>1 DEF TypeOn, Unheard
  <2>3. a.rows[p].text.letters \in Nat
    BY <1>4 DEF IsAnswer, IsRow, IsWord
  <2> QED BY <1>9, <2>1, <2>2, <2>3 DEF NewestAfter
<1>13. Client'
  <2>1. /\ laneLock' = Bounded([p \in Slots |-> LaneOf(laneLock[p], m, p)], Unlocked,
              {p \in Slots : Visible(m.rows[p], m) \/ Visible(m.edge[p], m)}, LaneLockMax)
        /\ displayLock' = Bounded([p \in Slots |-> DisplayOf(displayLock[p], m, p)], Unshown,
              {p \in Slots : Visible(m.rows[p], m) \/ Visible(m.edge[p], m)}, DisplayLockMax)
    BY <1>2 DEF Rebuild
  <2>2. laneLock' = [p \in Slots |-> laneLock'[p]] /\ displayLock' = [p \in Slots |-> displayLock'[p]]
    BY <2>1 DEF Bounded
  <2>3. \A p \in Slots : TypeOn(p)' /\ DrawnOn(p)'
    BY <1>11, <1>12 DEF TypeOn
  <2>4. m = [rev |-> m.rev, rows |-> m.rows, edge |-> m.edge, showLow |-> m.showLow]
    BY DEF m, Updated
  <2>5. ModelWords'
    BY <1>5, <1>6, <1>9, <1>10, <2>4 DEF ModelWords
  <2> QED BY <2>2, <2>3, <2>5 DEF Client
<1>14. IsServer'
  BY <1>1, <1>2 DEF IsServer, IsTranscript, serverVars
<1>15. /\ \A b \in Versions' : IsAnswer(b)' 
       /\ answers' = [k \in Channels |-> answers'[k]] /\ Channels' = Channels
  <2>1. Versions' \subseteq Versions /\ answers' = [k \in Channels |-> answers'[k]]
    BY <1>1, <1>2, TakenVersions
  <2>2. \A b \in Versions : IsAnswer(b)'
    BY <1>1 DEF IsAnswer
  <2> QED BY <2>1, <2>2 DEF Channels
<1>16. StillInv'
  BY <1>13, <1>14, <1>15 DEF StillInv
<1> QED BY <1>3, <1>4, <1>5, <1>6, <1>10, <1>11, <1>16 DEF a, m

\* What an answer makes of one slot.
LEMMA DeliverSlot ==
    ASSUME ViewInv, NEW c \in Channels, Deliver(c), NEW p \in Slots
    PROVE  RevOn(p)' /\ HeldOn(p)' /\ NextOn(p)' /\ OneLate(newest[p].rev)'
<1> DEFINE a == answers[c]
           m == Updated(a)
           D == displayLock[p]
           D1 == displayLock'[p]
           N == newest[p]
           N1 == newest'[p]
           row == m.rows[p]
           edge == m.edge[p]
           d2 == DisplayOf(D, m, p)
           old == a.rows[p]
<1>1. /\ StillInv /\ RevOn(p) /\ HeldOn(p) /\ NextOn(p) /\ OneLate(N.rev)
      /\ Determined /\ \A b \in Versions : b.rev <= rev
  BY DEF ViewInv
<1>2. /\ StillInv' /\ IsAnswer(a) /\ a \in Versions /\ model' = m
      /\ m.rev = a.rev /\ m.edge = a.edge /\ m.showLow = model.showLow
      /\ Rebuilt(p, m, displayLock) /\ IsRow(row) /\ IsEdge(edge)
      /\ old.at # "none" => row = old
  BY <1>1, DeliverStill
<1>3. /\ answers' = [answers EXCEPT ![c] = NoAnswer] /\ UNCHANGED serverVars
      /\ N1 = NewestAfter(p, a) /\ a # NoAnswer
  BY DEF Deliver
<1>4. /\ Versions' \subseteq Versions /\ answers'[c] = NoAnswer
      /\ \A b \in Versions' : b = Current \/ \E k \in Channels \ {c} : b = answers[k] /\ answers[k] # NoAnswer
  BY <1>1, <1>3, TakenVersions DEF StillInv
<1>5. /\ IsDisplay(D) /\ N \in [rev : Nat, letters : Nat] /\ IsDisplay(D1)
      /\ a.rev \in Nat /\ rev \in Nat
      /\ \A b \in Versions : b.rev \in Nat
      /\ IsWord(old) /\ (old.at = "none" \/ a.edge[p].at = "none")
  <2>1. TypeOn(p) /\ TypeOn(p)' /\ IsServer /\ \A b \in Versions : IsAnswer(b)
    BY <1>1, <1>2 DEF StillInv, Client
  <2> QED BY <2>1, <1>2 DEF TypeOn, IsServer, IsAnswer, IsRow
<1>6. Redisplay(D, d2, row, edge, m)
  BY <1>2, <1>5, Displays
<1>7. /\ Visible(row, m) \/ Visible(edge, m) => D1 = d2
      /\ ~Visible(row, m) /\ ~Visible(edge, m) => D1 \in {D, Unshown}
      /\ lanes'[p] = {} <=> ~Visible(row, m) /\ ~Visible(edge, m)
  <2>1. DrawnOn(p)'
    BY <1>2 DEF StillInv, Client
  <2>2. lanes'[p] = {} <=> ~Visible(row, m) /\ ~Visible(edge, m)
    BY <1>2, <2>1 DEF DrawnOn
  <2> QED BY <1>2, <2>2 DEF Rebuilt
<1>8. /\ Unshown.rev = 0 /\ ~Unshown.committed /\ Unheard.rev = 0 /\ Unheard.letters = 0
      /\ NoAnswer' = NoAnswer /\ Current.rev = rev /\ rev' = rev
  BY <1>3 DEF Unshown, Unheard, NoAnswer, Nothing, Absent, Bare, Current, SnapshotOf, serverVars
<1>9. OneLate(newest[p].rev)'
  BY <1>4, <1>8 DEF OneLate, Channels
<1>10. \A w : Visible(w, model') <=> Visible(w, model)
  BY <1>2 DEF Visible
<1>11. D1 = D \/ D1 = Unshown \/ D1.rev = a.rev
  BY <1>2, <1>6, <1>7 DEF Redisplay
<1>12. N1 = IF lanes'[p] = {} /\ D1 = Unshown THEN Unheard
            ELSE IF a.rev < N.rev THEN N
            ELSE [rev |-> a.rev, letters |-> IF lanes'[p] = {} THEN 0 ELSE old.text.letters]
  BY <1>3 DEF NewestAfter
<1>13. a.rev <= rev /\ D.rev <= N.rev /\ N.rev <= rev
  BY <1>1, <1>2 DEF RevOn
<1>14. m.rev = model'.rev /\ row = model'.rows[p] /\ edge = model'.edge[p] /\ edge = a.edge[p]
  BY <1>2
<1> HIDE DEF a, m, D, D1, N, N1, row, edge, d2, old, Current
\* Nothing is left of it.
<1>15. CASE lanes'[p] = {} /\ D1 = Unshown
  <2>1. N1 = Unheard
    BY <1>12, <1>15
  <2>2. N1.rev = 0 /\ N1.letters = 0 /\ D1.rev = 0 /\ ~D1.committed
    BY <1>8, <1>15, <2>1
  <2>3. RevOn(p)'
    BY <1>5, <1>8, <1>15, <2>2 DEF RevOn, N1, D1
  <2>4. HeldOn(p)'
    BY <2>2 DEF HeldOn, N1, D1
  <2>5. NextOn(p)'
    BY <2>2 DEF NextOn, N1, D1
  <2> QED BY <2>3, <2>4, <2>5, <1>9
\* The answer was overtaken.
<1>16. CASE ~(lanes'[p] = {} /\ D1 = Unshown) /\ a.rev < N.rev
  <2>1. N1 = N
    BY <1>12, <1>16
  <2>2. lanes'[p] # {} => D1 = d2
    BY <1>7
  <2>3. D1 # Unshown
    BY <1>6, <1>7, <1>16 DEF Redisplay
  <2>4. RevOn(p)'
    <3>1. D1.rev <= N1.rev
      BY <1>5, <1>8, <1>11, <1>13, <1>16, <2>1
    <3>2. m.rev <= N1.rev
      BY <1>2, <1>5, <1>16, <2>1
    <3> QED BY <1>8, <1>13, <1>14, <2>1, <3>1, <3>2 DEF RevOn, N1, D1
  <2>5. HeldOn(p)'
    <3> SUFFICES ASSUME N.letters > 0
                 PROVE  /\ D1.committed /\ D1.text.letters = N.letters
                        /\ \A b \in Versions' : b.rev < N.rev => b.rev <= D1.rev
                        /\ N.rev # m.rev
      BY <1>14, <2>1 DEF HeldOn, N1, D1
    <3>1. /\ D.committed /\ D.text.letters = N.letters
          /\ \A b \in Versions : b.rev < N.rev => b.rev <= D.rev
      BY <1>1 DEF HeldOn, N, D
    <3>2. a.rev <= D.rev
      BY <3>1, <1>2, <1>16
    <3>3. D1.committed /\ D1.text.letters = N.letters
      <4>1. CASE Visible(row, m)
        <5>1. d2.committed /\ (d2.text.letters # D.text.letters => D.rev < m.rev)
          BY <1>6, <3>1, <4>1 DEF Redisplay
        <5>2. d2.text.letters = D.text.letters
          BY <5>1, <3>2, <1>2, <1>5 DEF IsDisplay
        <5> QED BY <5>1, <5>2, <3>1, <4>1, <1>7
      <4>2. CASE ~Visible(row, m)
        <5>1. d2.committed = D.committed /\ d2.text = D.text
          BY <1>6, <3>1, <4>2 DEF Redisplay
        <5>2. D1 = D \/ D1 = d2
          BY <1>7, <2>3
        <5> QED BY <3>1, <5>1, <5>2
      <4> QED BY <4>1, <4>2
    <3>4. ASSUME NEW b \in Versions' PROVE N.rev <= b.rev
      <4>1. CASE b = Current
        BY <4>1, <1>8, <1>13
      <4>2. ASSUME NEW k \in Channels \ {c}, b = answers[k], answers[k] # NoAnswer
            PROVE  N.rev <= b.rev
        <5>1. answers["poll"].rev >= N.rev \/ answers["edit"].rev >= N.rev
          BY <4>2, <1>1, <1>3 DEF OneLate, Channels, a, N
        <5>2. answers[c].rev < N.rev
          BY <1>16 DEF a
        <5>3. answers[c].rev \in Nat
          BY <1>5 DEF a
        <5>4. answers[k].rev >= N.rev
          BY <4>2, <5>1, <5>2, <5>3, <1>5 DEF Channels
        <5>5. answers[k].rev \in Nat
          BY <4>2, <1>4, <1>5
        <5> QED BY <4>2, <5>4, <5>5, <1>5
      <4> QED BY <1>4, <4>1, <4>2
    <3>5. \A b \in Versions' : ~(b.rev < N.rev)
      BY <3>4, <1>4, <1>5
    <3>6. N.rev # m.rev
      BY <1>2, <1>5, <1>16
    <3> QED BY <3>3, <3>5, <3>6
  <2>6. NextOn(p)'
    <3> SUFFICES ASSUME NEW b \in Versions', Visible(b.rows[p], model), N.rev <= b.rev
                 PROVE  \/ ~D1.committed \/ D1.rev < b.rev \/ D1.text.letters = b.rows[p].text.letters
      BY <1>10, <2>1 DEF NextOn, N1, D1
    <3>1. ~D.committed \/ D.rev < b.rev \/ D.text.letters = b.rows[p].text.letters
      BY <1>1, <1>4 DEF NextOn, N, D
    <3>2. CASE D1 = D
      BY <3>1, <3>2
    <3>3. CASE D1.rev = a.rev
      BY <3>3, <1>4, <1>5, <1>16
    <3> QED BY <1>8, <1>11, <3>2, <3>3
  <2> QED BY <2>4, <2>5, <2>6, <1>9
\* The answer is the newest yet.
<1>17. CASE ~(lanes'[p] = {} /\ D1 = Unshown) /\ ~(a.rev < N.rev)
  <2>1. /\ N1.rev = a.rev /\ N.rev <= a.rev
        /\ N1.letters = IF lanes'[p] = {} THEN 0 ELSE old.text.letters
    BY <1>5, <1>12, <1>17
  <2>2. D1.rev <= a.rev
    BY <1>5, <1>8, <1>11, <1>13, <2>1 DEF IsDisplay
  <2>3. RevOn(p)'
    <3>1. D1.rev <= N1.rev /\ N1.rev <= rev'
      BY <1>8, <1>13, <2>1, <2>2
    <3>2. m.rev <= N1.rev
      BY <1>2, <1>5, <2>1
    <3> QED BY <1>14, <3>1, <3>2 DEF RevOn, N1, D1
  <2>4. ASSUME old.at # "none", Visible(row, m)
        PROVE  D1.committed /\ D1.text.letters = old.text.letters /\ a.rev <= D1.rev
    <3>1. row = old /\ D1 = d2
      BY <1>2, <1>7, <2>4
    <3>2. D.committed => D.rev < a.rev \/ D.text.letters = old.text.letters
      <4>1. Visible(old, model)
        BY <2>4, <3>1, <1>2, <1>10
      <4> QED BY <4>1, <1>1, <1>2, <2>1 DEF NextOn, N, D, old
    <3>3. d2.committed /\ a.rev <= d2.rev
      BY <1>2, <1>6, <2>4 DEF Redisplay
    <3>4. d2.text.letters = old.text.letters
      BY <1>2, <1>6, <2>4, <3>1, <3>2 DEF Redisplay
    <3> QED BY <3>1, <3>3, <3>4
  <2>5. HeldOn(p)'
    <3> SUFFICES ASSUME N1.letters > 0
                 PROVE  /\ D1.committed /\ D1.text.letters = N1.letters
                        /\ \A b \in Versions' : b.rev < N1.rev => b.rev <= D1.rev
                        /\ row.text.letters = N1.letters /\ row.at # "none" /\ edge.at = "none"
      BY <1>14 DEF HeldOn, N1, D1
    <3>1. lanes'[p] # {} /\ N1.letters = old.text.letters
      BY <2>1
    <3>2. old.at # "none"
      BY <3>1, <1>5 DEF IsWord
    <3>3. edge.at = "none" /\ row = old
      BY <3>2, <1>2, <1>5, <1>14
    <3>4. Visible(row, m)
      BY <3>1, <3>3, <1>7 DEF Visible
    <3>5. D1.committed /\ D1.text.letters = N1.letters /\ a.rev <= D1.rev
      BY <2>4, <3>1, <3>2, <3>4
    <3>6. \A b \in Versions' : b.rev < N1.rev => b.rev <= D1.rev
      BY <1>4, <1>5, <2>1, <3>5 DEF IsDisplay
    <3> QED BY <3>1, <3>2, <3>3, <3>5, <3>6
  <2>6. NextOn(p)'
    <3> SUFFICES ASSUME NEW b \in Versions', Visible(b.rows[p], model), a.rev <= b.rev
                 PROVE  \/ ~D1.committed \/ D1.rev < b.rev \/ D1.text.letters = b.rows[p].text.letters
      BY <1>10, <2>1 DEF NextOn, N1, D1
    <3>1. b \in Versions /\ b.rev \in Nat
      BY <1>4, <1>5
    <3>2. CASE b.rev = a.rev
      <4>1. b.rows = a.rows
        BY <3>1, <3>2, <1>1, <1>2 DEF Determined
      <4>2. b.rows[p] = old
        BY <4>1 DEF old
      <4>3. old.at # "none" /\ Visible(row, m)
        <5>1. Visible(old, model) /\ old.at # "none"
          BY <4>2 DEF Visible
        <5> QED BY <5>1, <1>2, <1>10
      <4> QED BY <2>4, <4>2, <4>3
    <3>3. CASE b.rev # a.rev
      <4>1. N.rev <= b.rev /\ a.rev < b.rev
        BY <3>1, <3>3, <2>1, <1>5
      <4>2. ~D.committed \/ D.rev < b.rev \/ D.text.letters = b.rows[p].text.letters
        BY <3>1, <4>1, <1>1 DEF NextOn, N, D
      <4> QED BY <4>1, <4>2, <1>8, <1>11
    <3> QED BY <3>2, <3>3
  <2> QED BY <2>3, <2>5, <2>6, <1>9
<1> QED BY <1>15, <1>16, <1>17

LEMMA DeliverKeeps ==
    ASSUME ViewInv, NEW c \in Channels, Deliver(c)
    PROVE  ViewInv'
<1> DEFINE a == answers[c]
           m == Updated(a)
<1>1. /\ StillInv /\ Determined /\ \A b \in Versions : b.rev <= rev
  BY DEF ViewInv
<1>2. /\ StillInv' /\ a \in Versions /\ model' = m /\ m.rev = a.rev
      /\ \A p \in Slots : a.rows[p].at # "none" => m.rows[p] = a.rows[p]
  BY <1>1, DeliverStill
<1>3. answers' = [answers EXCEPT ![c] = NoAnswer] /\ UNCHANGED serverVars
  BY DEF Deliver
<1>4. Versions' \subseteq Versions /\ answers'[c] = NoAnswer
  BY <1>1, <1>3, TakenVersions DEF StillInv
<1>5. rev' = rev /\ NoAnswer' = NoAnswer
  BY <1>3 DEF serverVars, NoAnswer, Nothing, Absent, Bare
<1> HIDE DEF a, m, Versions, NoAnswer
<1>6. Determined' /\ \A b \in Versions' : b.rev <= rev'
  BY <1>1, <1>4, <1>5 DEF Determined
<1>7. ModelOn'
  <2>1. \A b \in Versions' : b.rev = a.rev => b.rows = a.rows
    BY <1>1, <1>2, <1>4 DEF Determined
  <2> QED BY <1>1, <1>2, <1>5, <2>1 DEF ModelOn
<1>8. OneLate(model.rev)'
  BY <1>4, <1>5 DEF OneLate, Channels
<1>9. \A p \in Slots : RevOn(p)' /\ HeldOn(p)' /\ NextOn(p)' /\ OneLate(newest[p].rev)'
  BY DeliverSlot
<1> QED BY <1>2, <1>6, <1>7, <1>8, <1>9 DEF ViewInv

\* The threshold is switched: everything is locked anew.
LEMMA ToggleStill ==
    ASSUME StillInv, Toggle
    PROVE  /\ StillInv'
           /\ model'.rev = model.rev /\ model'.rows = model.rows /\ model'.edge = model.edge
           /\ model'.showLow = ~model.showLow
           /\ Versions' = Versions /\ answers' = answers /\ rev' = rev /\ NoAnswer' = NoAnswer
           /\ \A p \in Slots : /\ Rebuilt(p, model', [q \in Slots |-> Unshown])
                               /\ IsRow(model.rows[p]) /\ IsEdge(model.edge[p])
<1> DEFINE m == model'
           d == [q \in Slots |-> Unshown]
<1>1. /\ IsServer /\ Client /\ ModelWords
      /\ answers = [k \in Channels |-> answers[k]] /\ \A b \in Versions : IsAnswer(b)
      /\ \A p \in Slots : TypeOn(p) /\ DrawnOn(p) /\ IsRow(model.rows[p]) /\ IsEdge(model.edge[p])
      /\ model.rev \in Nat
  BY DEF StillInv, Client, ModelWords
<1>2. Rebuild([model EXCEPT !.showLow = ~@], d) /\ UNCHANGED <<server, rev, decided, saved, answers>>
  BY DEF Toggle
<1>3. m = [model EXCEPT !.showLow = ~@] /\ Rebuild(m, d)
  BY <1>2 DEF Rebuild
<1>4. /\ m = [rev |-> model.rev, rows |-> model.rows, edge |-> model.edge, showLow |-> ~model.showLow]
  <2>1. model = [rev |-> model.rev, rows |-> model.rows, edge |-> model.edge, showLow |-> model.showLow]
    BY <1>1 DEF ModelWords
  <2> QED BY <1>3, <2>1
<1>5. /\ m.rev = model.rev /\ m.rows = model.rows /\ m.edge = model.edge /\ m.showLow = ~model.showLow
      /\ m = [rev |-> m.rev, rows |-> m.rows, edge |-> m.edge, showLow |-> m.showLow]
  BY <1>4
<1>6. NoAnswer' = NoAnswer /\ Versions' = Versions /\ Channels' = Channels
  BY <1>2 DEF NoAnswer, Nothing, Absent, Bare, Versions, Current, SnapshotOf, At, Channels
<1>7. ASSUME NEW p \in Slots
      PROVE  /\ Rebuilt(p, m, d)
             /\ IsLane(laneLock[p])' /\ IsDisplay(displayLock[p])' /\ DrawnOn(p)'
  <2>1. IsLane(laneLock[p]) /\ IsDisplay(Unshown) /\ d[p] = Unshown
    BY <1>1 DEF TypeOn, IsDisplay, Unshown, Bare, Marks
  <2>2. m.rev \in Nat /\ IsRow(m.rows[p]) /\ IsEdge(m.edge[p]) /\ IsDisplay(d[p])
    BY <1>1, <1>5, <2>1
  <2> HIDE DEF d
  <2>3. Rebuilt(p, m, d)
    BY <1>3, <2>1, <2>2, RebuildAt
  <2>4. IsLane(laneLock[p])' /\ IsDisplay(displayLock[p])' /\ DrawnOn(p)'
    BY <2>1, <2>2, <2>3, RebuildKeeps
  <2> QED BY <2>3, <2>4
<1>8. ASSUME NEW p \in Slots PROVE newest'[p] \in [rev : Nat, letters : Nat]
  <2>1. newest'[p] \in {Unheard, newest[p], [rev |-> model.rev, letters |-> model.rows[p].text.letters]}
    BY DEF Toggle
  <2>2. newest[p] \in [rev : Nat, letters : Nat] /\ Unheard \in [rev : Nat, letters : Nat]
    BY <1>1 DEF TypeOn, Unheard
  <2>3. model.rows[p].text.letters \in Nat
    BY <1>1 DEF IsRow, IsWord
  <2> QED BY <1>1, <2>1, <2>2, <2>3
<1>9. Client'
  <2>1. /\ laneLock' = Bounded([p \in Slots |-> LaneOf(laneLock[p], m, p)], Unlocked,
              {p \in Slots : Visible(m.rows[p], m) \/ Visible(m.edge[p], m)}, LaneLockMax)
        /\ displayLock' = Bounded([p \in Slots |-> DisplayOf(d[p], m, p)], Unshown,
              {p \in Slots : Visible(m.rows[p], m) \/ Visible(m.edge[p], m)}, DisplayLockMax)
    BY <1>3 DEF Rebuild
  <2>2. laneLock' = [p \in Slots |-> laneLock'[p]] /\ displayLock' = [p \in Slots |-> displayLock'[p]]
    BY <2>1 DEF Bounded
  <2>3. \A p \in Slots : TypeOn(p)' /\ DrawnOn(p)'
    BY <1>7, <1>8 DEF TypeOn
  <2>4. ModelWords'
    BY <1>1, <1>5 DEF ModelWords
  <2> QED BY <2>2, <2>3, <2>4 DEF Client
<1>10. IsServer'
  BY <1>1, <1>2 DEF IsServer, IsTranscript
<1>11. /\ \A b \in Versions' : IsAnswer(b)'
       /\ answers' = [k \in Channels |-> answers'[k]]
  <2>1. \A b \in Versions : IsAnswer(b)'
    BY <1>1 DEF IsAnswer
  <2> QED BY <1>1, <1>2, <1>6, <2>1
<1>12. StillInv'
  BY <1>6, <1>9, <1>10, <1>11 DEF StillInv
<1> QED BY <1>1, <1>2, <1>5, <1>6, <1>7, <1>12

LEMMA ToggleKeeps ==
    ASSUME ViewInv, Toggle, IsNewest
    PROVE  ViewInv'
<1>1. /\ StillInv /\ Determined /\ ModelOn /\ OneLate(model.rev)
      /\ \A b \in Versions : b.rev <= rev
      /\ \A p \in Slots : OneLate(newest[p].rev) /\ RevOn(p) /\ HeldOn(p) /\ NextOn(p)
  BY DEF ViewInv
<1>2. /\ StillInv'
      /\ model'.rev = model.rev /\ model'.rows = model.rows /\ model'.edge = model.edge
      /\ model'.showLow = ~model.showLow
      /\ Versions' = Versions /\ answers' = answers /\ rev' = rev /\ NoAnswer' = NoAnswer
      /\ \A p \in Slots : /\ Rebuilt(p, model', [q \in Slots |-> Unshown])
                          /\ IsRow(model.rows[p]) /\ IsEdge(model.edge[p])
  BY <1>1, ToggleStill
<1>3. model.rev \in Nat /\ rev \in Nat /\ model.rev <= rev /\ \A b \in Versions : b.rev \in Nat
  BY <1>1 DEF StillInv, Client, ModelWords, IsServer, ModelOn, IsAnswer
<1> HIDE DEF NoAnswer, Versions
<1>4. Determined' /\ \A b \in Versions' : b.rev <= rev'
  BY <1>1, <1>2 DEF Determined
<1>5. ModelOn' /\ OneLate(model.rev)'
  BY <1>1, <1>2 DEF ModelOn, OneLate
<1>6. OneLate(0)'
  BY <1>2, <1>3 DEF OneLate, Versions, Channels
<1>7. ASSUME NEW p \in Slots
      PROVE  OneLate(newest[p].rev)' /\ RevOn(p)' /\ HeldOn(p)' /\ NextOn(p)'
  <2> DEFINE m == model'
             row == model.rows[p]
             edge == model.edge[p]
             d == [q \in Slots |-> Unshown]
             d2 == DisplayOf(Unshown, m, p)
             D1 == displayLock'[p]
             N == newest[p]
             N1 == newest'[p]
  <2>1. /\ Rebuilt(p, m, d) /\ IsRow(row) /\ IsEdge(edge) /\ m.rows[p] = row /\ m.edge[p] = edge
        /\ m.rev = model.rev
    BY <1>2
  <2>2. IsDisplay(Unshown) /\ Unshown.committed = FALSE /\ Unshown.rev = 0 /\ d[p] = Unshown
        /\ Unheard.rev = 0 /\ Unheard.letters = 0
    BY DEF IsDisplay, Unshown, Bare, Marks, Unheard
  <2>3. Redisplay(Unshown, d2, row, edge, m)
    <3>1. m.rev \in Nat /\ IsRow(m.rows[p]) /\ IsEdge(m.edge[p])
      BY <1>3, <2>1
    <3> QED BY <2>1, <2>2, <3>1, Displays
  <2>4. /\ Visible(row, m) \/ Visible(edge, m) => D1 = d2
        /\ ~Visible(row, m) /\ ~Visible(edge, m) => D1 = Unshown
    BY <2>1, <2>2 DEF Rebuilt
  <2>5. /\ lanes'[p] = {} <=> ~Visible(row, m) /\ ~Visible(edge, m)
        /\ lanes[p] = {} <=> ~Visible(row, model) /\ ~Visible(edge, model)
    <3>1. DrawnOn(p) /\ DrawnOn(p)'
      BY <1>1, <1>2 DEF StillInv, Client
    <3> QED BY <3>1, <2>1 DEF DrawnOn
  <2>6. N1 = IF lanes'[p] = {} THEN Unheard
             ELSE IF lanes[p] # {} THEN N
             ELSE [rev |-> model.rev, letters |-> row.text.letters]
    BY DEF Toggle
  <2>7. N \in [rev : Nat, letters : Nat] /\ N1 \in [rev : Nat, letters : Nat] /\ N.rev <= model.rev
    BY <1>1, <1>2 DEF StillInv, Client, TypeOn, IsNewest
  <2>8. RevOn(p) /\ HeldOn(p) /\ ModelOn
    BY <1>1
  <2> HIDE DEF m, row, edge, d, d2, D1, N, N1
  <2>9. CASE lanes'[p] = {}
    <3>1. N1.rev = 0 /\ N1.letters = 0 /\ D1.rev = 0 /\ D1.committed = FALSE
      BY <2>2, <2>4, <2>5, <2>6, <2>9
    <3>2. RevOn(p)' /\ HeldOn(p)' /\ NextOn(p)'
      <4>1. RevOn(p)'
        BY <1>2, <1>3, <2>9, <3>1 DEF RevOn, N1, D1
      <4>2. HeldOn(p)'
        BY <3>1 DEF HeldOn, N1
      <4>3. NextOn(p)'
        BY <3>1 DEF NextOn, D1
      <4> QED BY <4>1, <4>2, <4>3
    <3>3. OneLate(newest[p].rev)'
      BY <1>6, <3>1 DEF OneLate, N1
    <3> QED BY <3>2, <3>3
  <2>10. CASE lanes'[p] # {}
    <3>1. N1.rev = model.rev
      BY <1>3, <2>6, <2>7, <2>8, <2>10 DEF RevOn, N
    <3>2. D1 = d2 /\ D1.rev <= model.rev
      BY <1>3, <2>1, <2>2, <2>3, <2>4, <2>5, <2>10 DEF Redisplay
    <3>3. Visible(row, m) => D1.committed /\ D1.text = row.text /\ D1.rev = model.rev
      BY <2>1, <2>2, <2>3, <3>2 DEF Redisplay
    <3>4. ~Visible(row, m) => D1.committed = FALSE
      BY <2>2, <2>3, <3>2 DEF Redisplay
    <3>5. ASSUME N1.letters > 0
          PROVE  row.text.letters = N1.letters /\ row.at # "none" /\ edge.at = "none" /\ Visible(row, m)
      <4>1. CASE lanes[p] # {}
        <5>1. N1 = N
          BY <2>6, <2>10, <4>1
        <5>2. row.text.letters = N1.letters /\ row.at # "none" /\ edge.at = "none"
          BY <2>8, <3>1, <3>5, <5>1 DEF HeldOn, N, row, edge
        <5>3. ~Visible(edge, m)
          BY <5>2 DEF Visible
        <5> QED BY <2>5, <2>10, <5>2, <5>3
      <4>2. CASE lanes[p] = {}
        <5>1. row.text.letters = N1.letters
          BY <2>6, <2>10, <4>2
        <5>2. row.at # "none"
          BY <2>1, <3>5, <5>1 DEF IsRow, IsWord
        <5>3. edge.at = "none"
          BY <2>1, <2>5, <4>2 DEF Visible, IsEdge
        <5>4. ~Visible(edge, m)
          BY <5>3 DEF Visible
        <5> QED BY <2>5, <2>10, <5>1, <5>2, <5>3, <5>4
      <4> QED BY <4>1, <4>2
    <3>6. RevOn(p)'
      <4>1. D1.rev <= N1.rev /\ N1.rev <= rev' /\ m.rev <= N1.rev
        BY <1>2, <1>3, <2>1, <3>1, <3>2
      <4> QED BY <4>1 DEF RevOn, N1, D1, m
    <3>7. HeldOn(p)'
      <4> SUFFICES ASSUME N1.letters > 0
                   PROVE  /\ D1.committed /\ D1.text.letters = N1.letters
                          /\ \A b \in Versions' : b.rev < N1.rev => b.rev <= D1.rev
                          /\ row.text.letters = N1.letters /\ row.at # "none" /\ edge.at = "none"
        BY <2>1 DEF HeldOn, N1, D1, m
      <4>1. \A b \in Versions' : b.rev < N1.rev => b.rev <= D1.rev
        BY <1>2, <1>3, <3>1, <3>3, <3>5
      <4> QED BY <3>3, <3>5, <4>1
    <3>8. NextOn(p)'
      <4> SUFFICES ASSUME NEW b \in Versions', Visible(b.rows[p], m), N1.rev <= b.rev, D1.committed
                   PROVE  D1.rev < b.rev \/ D1.text.letters = b.rows[p].text.letters
        BY DEF NextOn, N1, D1, m
      <4>1. D1.text = row.text /\ D1.rev = model.rev
        BY <3>3, <3>4
      <4>2. b \in Versions /\ b.rev \in Nat /\ model.rev <= b.rev
        BY <1>2, <1>3, <3>1
      <4>3. CASE b.rev = model.rev
        <5>1. row = b.rows[p]
          BY <4>2, <4>3, <2>8 DEF ModelOn, Visible, row
        <5> QED BY <4>1, <5>1
      <4> QED BY <1>3, <4>1, <4>2, <4>3
    <3>9. OneLate(newest[p].rev)'
      BY <1>2, <1>5, <3>1 DEF OneLate, N1
    <3> QED BY <3>6, <3>7, <3>8, <3>9
  <2> QED BY <2>9, <2>10
<1> QED BY <1>2, <1>4, <1>5, <1>7 DEF ViewInv

\* What the server does to its transcript.
LEMMA OneWord ==
    ASSUME IsTranscript(server), NEW p \in Slots, NEW w, server' = [server EXCEPT ![p] = w],
           IsWord(w), w.at \in {"none", "provisional", "committed"}, w.at = "provisional" => ~w.low
    PROVE  IsTranscript(server)'
BY DEF IsTranscript

LEMMA RevisedKeeps ==
    ASSUME IsServer, NextRevision
    PROVE  rev' = rev + 1 /\ rev' \in Nat /\ IsTranscript(saved'[1]) /\ saved'[2] \in Nat
<1>1. IsWord(Absent) /\ Absent.at = "none"
  BY DEF IsWord, Absent, Bare, Marks
<1>2. ASSUME NEW words, IsTranscript(words) PROVE IsTranscript(At(words, "committed"))
  <2>1. At(words, "committed") = [p \in Slots |-> At(words, "committed")[p]]
    BY DEF At
  <2>2. \A p \in Slots : At(words, "committed")[p] = IF words[p].at = "committed" THEN words[p] ELSE Absent
    BY DEF At
  <2> QED BY <1>1, <1>2, <2>1, <2>2 DEF IsTranscript
<1>3. rev' = rev + 1 /\ rev' \in Nat
  BY DEF NextRevision, IsServer
<1>4. CASE "restart" \in ViewRaces
  <2>1. saved' = <<At(server, "committed"), rev>>
    BY <1>4 DEF NextRevision
  <2> QED BY <1>2, <1>3, <2>1 DEF IsServer
<1>5. CASE "restart" \notin ViewRaces
  BY <1>3, <1>5 DEF NextRevision, IsServer
<1> QED BY <1>4, <1>5

LEMMA GuessSays ==
    ASSUME IsServer, answers = [k \in Channels |-> answers[k]], NEW p \in Slots, Guess(p)
    PROVE  Says
<1>1. PICK s \in Speakers :
        server' = [server EXCEPT ![p] = [at |-> "provisional", text |-> [letters |-> decided + 1, mark |-> 0],
                                         speaker |-> s, name |-> NoName, low |-> FALSE]]
  BY DEF Guess
<1> DEFINE w == [at |-> "provisional", text |-> [letters |-> decided + 1, mark |-> 0],
                 speaker |-> s, name |-> NoName, low |-> FALSE]
<1>2. /\ server[p].at # "committed" /\ decided' = decided + 1
      /\ UNCHANGED <<rev, saved, answers, clientVars>>
  BY DEF Guess
<1>3. IsWord(w) /\ w.at = "provisional" /\ ~w.low
  BY DEF IsWord, Marks, IsServer
<1>4. IsTranscript(server)'
  <2> HIDE DEF w
  <2>1. server' = [server EXCEPT ![p] = w]
    BY <1>1 DEF w
  <2> QED BY <1>3, <2>1, OneWord DEF IsServer
<1>5. IsServer'
  BY <1>2, <1>4 DEF IsServer
<1>6. At(server, "committed")' = At(server, "committed")
  <2>1. \A q \in Slots : At(server, "committed")'[q] = At(server, "committed")[q]
    BY <1>1, <1>2 DEF At, IsServer, IsTranscript
  <2> QED BY <2>1 DEF At
<1>7. Said
  BY <1>2, <1>5 DEF Said, Channels, clientVars
<1> QED BY <1>2, <1>6, <1>7 DEF Says

LEMMA RevisionSays ==
    ASSUME IsServer, answers = [k \in Channels |-> answers[k]], NextRevision, IsTranscript(server)',
           decided' \in Nat, UNCHANGED <<answers, clientVars>>
    PROVE  Says
<1>1. rev' = rev + 1 /\ IsServer'
  BY RevisedKeeps DEF IsServer
<1>2. Said
  BY <1>1 DEF Said, clientVars, Channels
<1> QED BY <1>1, <1>2 DEF Says

LEMMA RewordedIsWord ==
    ASSUME NEW w, IsWord(w), w.at = "committed", NEW letters \in Nat, NEW mark \in Marks, letters > 0
    PROVE  IsWord(Worded(w, letters, mark)) /\ Worded(w, letters, mark).at = "committed"
BY DEF IsWord, Worded

LEMMA CommitSays ==
    ASSUME IsServer, answers = [k \in Channels |-> answers[k]], NEW p \in Slots, Commit(p)
    PROVE  Says
<1>1. PICK m \in Marks, s \in Speakers, n \in Names \union {NoName}, low \in BOOLEAN :
         server' = [server EXCEPT ![p] = [at |-> "committed", text |-> [letters |-> decided + 1, mark |-> m],
                                          speaker |-> s, name |-> n, low |-> low]]
  BY DEF Commit
<1> DEFINE w == [at |-> "committed", text |-> [letters |-> decided + 1, mark |-> m],
                 speaker |-> s, name |-> n, low |-> low]
<1>2. NextRevision /\ decided' = decided + 1 /\ UNCHANGED <<answers, clientVars>>
  BY DEF Commit
<1>3. IsWord(w) /\ w.at = "committed"
  BY DEF IsWord, IsServer
<1>4. IsTranscript(server)'
  <2> HIDE DEF w
  <2>1. server' = [server EXCEPT ![p] = w]
    BY <1>1 DEF w
  <2> QED BY <1>3, <2>1, OneWord DEF IsServer
<1>5. decided' \in Nat
  BY <1>2 DEF IsServer
<1> QED BY <1>2, <1>4, <1>5, RevisionSays

LEMMA CorrectSays ==
    ASSUME IsServer, answers = [k \in Channels |-> answers[k]], NEW p \in Slots, Correct(p)
    PROVE  Says
<1>1. /\ NextRevision /\ UNCHANGED <<answers, clientVars>>
      /\ server[p].at = "committed" /\ decided \in Nat
      /\ IsTranscript(server) /\ IsWord(server[p])
  BY DEF Correct, IsServer, IsTranscript
<1>2. server[p].text.letters \in Nat /\ server[p].text.letters > 0 /\ server[p].text.mark \in Marks
  BY <1>1 DEF IsWord
<1>3. CASE /\ server' = [server EXCEPT ![p] = Worded(server[p], decided + 1, server[p].text.mark)]
           /\ decided' = decided + 1
  <2> DEFINE w == Worded(server[p], decided + 1, server[p].text.mark)
  <2>1. IsWord(w) /\ w.at = "committed"
    <3>1. decided + 1 \in Nat /\ decided + 1 > 0
      BY <1>1
    <3> QED BY <1>1, <1>2, <3>1, RewordedIsWord
  <2> HIDE DEF w
  <2>2. IsTranscript(server)'
    BY <1>1, <1>3, <2>1, OneWord DEF w
  <2>3. decided' \in Nat
    BY <1>1, <1>3
  <2> QED BY <1>1, <2>2, <2>3, RevisionSays
<1>4. CASE \E m \in Marks \ {server[p].text.mark} :
            /\ server' = [server EXCEPT ![p] = Worded(server[p], server[p].text.letters, m)]
            /\ UNCHANGED decided
  <2>1. PICK m \in Marks : server' = [server EXCEPT ![p] = Worded(server[p], server[p].text.letters, m)]
    BY <1>4
  <2> DEFINE w == Worded(server[p], server[p].text.letters, m)
  <2>2. IsWord(w) /\ w.at = "committed"
    BY <1>1, <1>2, RewordedIsWord
  <2> HIDE DEF w
  <2>3. IsTranscript(server)'
    BY <1>1, <2>1, <2>2, OneWord DEF w
  <2>4. decided' \in Nat
    BY <1>1, <1>4
  <2> QED BY <1>1, <2>3, <2>4, RevisionSays
<1>5. CASE server' = [server EXCEPT ![p] = Absent] /\ UNCHANGED decided
  <2>1. IsWord(Absent) /\ Absent.at = "none"
    BY DEF IsWord, Absent, Bare, Marks
  <2>2. IsTranscript(server)'
    BY <1>1, <1>5, <2>1, OneWord
  <2>3. decided' \in Nat
    BY <1>1, <1>5
  <2> QED BY <1>1, <2>2, <2>3, RevisionSays
<1> QED BY <1>3, <1>4, <1>5 DEF Correct

LEMMA RenameSays ==
    ASSUME IsServer, answers = [k \in Channels |-> answers[k]],
           NEW from, NEW to, NEW n, Rename(from, to, n)
    PROVE  Says
<1>1. /\ NextRevision /\ UNCHANGED <<decided, answers, clientVars>> /\ decided \in Nat
      /\ server' = [p \in Slots |-> IF server[p].at # "none" /\ server[p].speaker = from
                                    THEN Renamed(server[p], to, n) ELSE server[p]]
  BY DEF Rename, IsServer
<1>2. ASSUME NEW p \in Slots
      PROVE  /\ IsWord(server'[p]) /\ server'[p].at \in {"none", "provisional", "committed"}
             /\ server'[p].at = "provisional" => ~server'[p].low
  <2>1. /\ IsWord(server[p]) /\ server[p].at \in {"none", "provisional", "committed"}
        /\ server[p].at = "provisional" => ~server[p].low
    BY DEF IsServer, IsTranscript
  <2>2. CASE server'[p] = Renamed(server[p], to, n)
    <3>1. server'[p].at = server[p].at /\ server'[p].text = server[p].text
      BY <2>2 DEF Renamed
    <3>2. server'[p].low = server[p].low
      BY <2>2 DEF Renamed
    <3> QED BY <2>1, <3>1, <3>2 DEF IsWord
  <2>3. CASE server'[p] = server[p]
    BY <2>1, <2>3
  <2> QED BY <1>1, <2>2, <2>3
<1>3. IsTranscript(server)'
  BY <1>1, <1>2 DEF IsTranscript
<1> QED BY <1>1, <1>3, RevisionSays

LEMMA EditSays ==
    ASSUME IsServer, answers = [k \in Channels |-> answers[k]], NEW p \in Slots, EditAnswered(p)
    PROVE  Says
<1>1. /\ NextRevision /\ UNCHANGED clientVars
      /\ server[p].at = "committed" /\ decided \in Nat /\ decided' = decided + 1
      /\ IsTranscript(server) /\ IsWord(server[p])
      /\ server' = [server EXCEPT ![p] = Worded(server[p], decided + 1, server[p].text.mark)]
      /\ answers' = [answers EXCEPT !["edit"] = SnapshotOf(server', rev')]
  BY DEF EditAnswered, IsServer, IsTranscript
<1> DEFINE w == Worded(server[p], decided + 1, server[p].text.mark)
<1>2. server[p].text.mark \in Marks
  BY <1>1 DEF IsWord
<1>3. IsWord(w) /\ w.at = "committed"
  <2>1. decided + 1 \in Nat /\ decided + 1 > 0
    BY <1>1
  <2> QED BY <1>1, <1>2, <2>1, RewordedIsWord
<1> HIDE DEF w
<1>4. IsTranscript(server)'
  BY <1>1, <1>3, OneWord DEF w
<1>5. rev' = rev + 1 /\ IsServer'
  BY <1>1, <1>4, RevisedKeeps DEF IsServer
<1>6. Current' = SnapshotOf(server', rev')
  BY DEF Current, SnapshotOf, At
<1> HIDE DEF Current
<1>7. Said
  BY <1>1, <1>5, <1>6 DEF Said, clientVars, Channels
<1> QED BY <1>5, <1>7 DEF Says

LEMMA PollSays ==
    ASSUME IsServer, answers = [k \in Channels |-> answers[k]], PollAnswered
    PROVE  Says
<1>1. /\ UNCHANGED <<serverVars, clientVars>>
      /\ answers' = [answers EXCEPT !["poll"] = SnapshotOf(server, rev)]
  BY DEF PollAnswered
<1>2. Current' = SnapshotOf(server, rev) /\ IsServer' /\ rev' = rev
      /\ At(server, "committed")' = At(server, "committed")
  BY <1>1 DEF Current, SnapshotOf, At, serverVars, IsServer, IsTranscript
<1> HIDE DEF Current
<1>3. Said
  BY <1>1, <1>2 DEF Said, clientVars, Channels
<1> QED BY <1>2, <1>3 DEF Says

LEMMA LoseSays ==
    ASSUME IsServer, answers = [k \in Channels |-> answers[k]], NEW c \in Channels, Lose(c)
    PROVE  Says
<1>1. UNCHANGED <<serverVars, clientVars>> /\ answers' = [answers EXCEPT ![c] = NoAnswer]
  BY DEF Lose
<1>2. IsServer' /\ rev' = rev /\ At(server, "committed")' = At(server, "committed")
  BY <1>1 DEF serverVars, IsServer, IsTranscript, At
<1>3. Said
  BY <1>1, <1>2 DEF Said, clientVars
<1> QED BY <1>2, <1>3 DEF Says

LEMMA RestartSays ==
    ASSUME IsServer, answers = [k \in Channels |-> answers[k]], Restart
    PROVE  Said /\ ("restart" \notin ViewRaces => Says)
<1>1. UNCHANGED <<decided, guessed, saved, answers, clientVars>>
  BY DEF Restart
<1>2. CASE "restart" \in ViewRaces
  <2>1. server' = saved[1] /\ rev' = saved[2]
    BY <1>2 DEF Restart
  <2>2. IsServer'
    BY <1>1, <2>1 DEF IsServer, IsTranscript
  <2>3. Said
    BY <1>1, <2>2 DEF Said, clientVars, Channels
  <2> QED BY <1>2, <2>3
<1>3. CASE "restart" \notin ViewRaces
  <2>1. server' = At(server, "committed") /\ rev' = rev
    BY <1>3 DEF Restart
  <2>2. IsWord(Absent) /\ Absent.at = "none"
    BY DEF IsWord, Absent, Bare, Marks
  <2>3. \A p \in Slots : server'[p] = IF server[p].at = "committed" THEN server[p] ELSE Absent
    BY <2>1 DEF At
  <2>4. server' = [p \in Slots |-> server'[p]]
    BY <2>1 DEF At
  <2>5. IsServer'
    BY <1>1, <2>1, <2>2, <2>3, <2>4 DEF IsServer, IsTranscript
  <2>6. At(server, "committed")' = At(server, "committed")
    <3>1. \A p \in Slots : At(server, "committed")'[p] = At(server, "committed")[p]
      BY <2>2, <2>3 DEF At
    <3> QED BY <3>1 DEF At
  <2>7. Said
    BY <1>1, <2>5 DEF Said, clientVars, Channels
  <2> QED BY <2>1, <2>6, <2>7 DEF Says
<1> QED BY <1>2, <1>3

\* Every step: something is said, an answer is taken, or the threshold switched.
LEMMA Steps ==
    ASSUME StillInv, ViewNext
    PROVE  \/ Said /\ (ViewRaces = {} => Says)
           \/ \E c \in Channels : Deliver(c)
           \/ Toggle /\ (ViewRaces = {} => IsNewest)
<1>1. IsServer /\ answers = [k \in Channels |-> answers[k]]
  BY DEF StillInv
<1>2. ASSUME NEW p \in Slots, Guess(p) \/ Commit(p) \/ Correct(p) \/ EditAnswered(p) PROVE Says
  BY <1>1, <1>2, GuessSays, CommitSays, CorrectSays, EditSays
<1>3. ASSUME NEW from \in Speakers, NEW to \in Speakers, NEW n \in Names \union {NoName}, Rename(from, to, n)
      PROVE  Says
  BY <1>1, <1>3, RenameSays
<1>4. CASE PollAnswered
  BY <1>1, <1>4, PollSays DEF Says
<1>5. CASE Restart
  BY <1>1, <1>5, RestartSays
<1>6. ASSUME NEW c \in Channels, Lose(c) PROVE Says
  BY <1>1, <1>6, LoseSays
<1>7. CASE Toggle
  BY <1>7 DEF Toggle
<1> QED BY <1>2, <1>3, <1>4, <1>5, <1>6, <1>7 DEF ViewNext, Says, Channels

LEMMA ViewStart == ViewInit => ViewInv
<1> SUFFICES ASSUME ViewInit PROVE ViewInv
  OBVIOUS
<1>1. /\ server = [p \in Slots |-> Absent] /\ rev = 0 /\ decided = 0
      /\ saved = <<server, rev>>
      /\ answers = [c \in Channels |-> NoAnswer]
      /\ model = [rev |-> 0, rows |-> [p \in Slots |-> Absent], edge |-> [p \in Slots |-> Absent],
                  showLow |-> FALSE]
      /\ laneLock = [p \in Slots |-> Unlocked]
      /\ displayLock = [p \in Slots |-> Unshown]
      /\ lanes = [p \in Slots |-> {}]
      /\ newest = [p \in Slots |-> Unheard]
  BY DEF ViewInit, Nothing, Channels
<1>2. /\ IsWord(Absent) /\ Absent.at = "none" /\ ~Absent.low /\ Absent.text.letters = 0
      /\ IsDisplay(Unshown) /\ Unshown.rev = 0 /\ ~Unshown.committed
      /\ IsLane(Unlocked)
      /\ Unheard.rev = 0 /\ Unheard.letters = 0 /\ Unheard \in [rev : Nat, letters : Nat]
  BY DEF IsWord, Absent, Bare, Marks, IsDisplay, Unshown, IsLane, Unlocked, Unheard
<1>3. IsServer
  <2>1. IsTranscript(server)
    BY <1>1, <1>2 DEF IsTranscript
  <2> QED BY <1>1, <2>1 DEF IsServer
<1>4. model.rev = 0 /\ model.rows = [p \in Slots |-> Absent] /\ model.edge = [p \in Slots |-> Absent]
  BY <1>1
<1>5. ModelWords
  <2>1. model = [rev |-> model.rev, rows |-> model.rows, edge |-> model.edge, showLow |-> model.showLow]
    BY <1>1
  <2> QED BY <1>2, <1>4, <2>1 DEF ModelWords, IsRow, IsEdge
<1>6. Client
  <2>1. \A p \in Slots : TypeOn(p)
    BY <1>1, <1>2 DEF TypeOn
  <2>2. \A p \in Slots : ~Visible(model.rows[p], model) /\ ~Visible(model.edge[p], model)
    BY <1>2, <1>4 DEF Visible
  <2>3. \A p \in Slots : DrawnOn(p)
    BY <1>1, <2>2 DEF DrawnOn
  <2>4. laneLock = [p \in Slots |-> laneLock[p]] /\ displayLock = [p \in Slots |-> displayLock[p]]
    BY <1>1
  <2> QED BY <1>5, <2>1, <2>3, <2>4 DEF Client
<1>7. Versions = {Current}
  BY <1>1 DEF Versions
<1>8. Current.rev = 0 /\ \A p \in Slots : Current.rows[p] = Absent
  BY <1>1 DEF Current, SnapshotOf, At
<1>9. IsAnswer(Current)
  BY <1>3, CurrentIsAnswer
<1> HIDE DEF Current
<1>10. StillInv
  BY <1>1, <1>3, <1>6, <1>7, <1>9 DEF StillInv
<1>11. Determined /\ ModelOn /\ \A b \in Versions : b.rev <= rev
  BY <1>1, <1>2, <1>4, <1>7, <1>8 DEF Determined, ModelOn
<1>12. \A r : OneLate(r)
  BY <1>1 DEF OneLate, Channels
<1>13. ASSUME NEW p \in Slots PROVE RevOn(p) /\ HeldOn(p) /\ NextOn(p)
  <2>1. displayLock[p] = Unshown /\ newest[p] = Unheard /\ lanes[p] = {}
    BY <1>1
  <2>2. RevOn(p)
    BY <1>1, <1>2, <2>1 DEF RevOn
  <2>3. HeldOn(p)
    BY <1>2, <2>1 DEF HeldOn
  <2>4. NextOn(p)
    BY <1>2, <2>1 DEF NextOn
  <2> QED BY <2>2, <2>3, <2>4
<1> QED BY <1>10, <1>11, <1>12, <1>13 DEF ViewInv

LEMMA StillInvariance == ViewSpec => []StillInv
<1>1. ViewInit => StillInv
  BY ViewStart DEF ViewInv
<1>2. ASSUME StillInv, [ViewNext]_viewVars PROVE StillInv'
  <2>1. CASE ViewNext
    BY <1>2, <2>1, Steps, SaidKeeps, DeliverStill, ToggleStill
  <2>2. CASE UNCHANGED viewVars
    <3>1. Said
      BY <1>2, <2>2 DEF Said, viewVars, StillInv, IsServer, IsTranscript, Channels
    <3> QED BY <1>2, <3>1, SaidKeeps
  <2> QED BY <1>2, <2>1, <2>2
<1> QED BY <1>1, <1>2, PTL DEF ViewSpec

\* An answer that was overtaken never takes a word back, however the locks are
\* bounded: unless a restart goes back by a revision, or the threshold is
\* switched while an old answer is shown, the letters on screen are those of
\* the newest answer (TranscriptModel::rebuild, mergeLiveRows, applyLiveState).
THEOREM NewestWordIsShown == ASSUME ViewRaces = {} PROVE ViewSpec => []NewestIsShown
<1>1. ViewInit => ViewInv
  BY ViewStart
<1>2. ASSUME ViewInv, [ViewNext]_viewVars PROVE ViewInv'
  <2>1. StillInv
    BY <1>2 DEF ViewInv
  <2>2. CASE ViewNext
    BY <1>2, <2>1, <2>2, Steps, SaysKeeps, DeliverKeeps, ToggleKeeps
  <2>3. CASE UNCHANGED viewVars
    <3>1. Said /\ rev' = rev /\ At(server, "committed")' = At(server, "committed")
      BY <2>1, <2>3 DEF Said, viewVars, StillInv, IsServer, IsTranscript, Channels, At
    <3> QED BY <1>2, <3>1, SaysKeeps DEF Says
  <2> QED BY <1>2, <2>2, <2>3
<1>3. ViewInv => NewestIsShown
  BY DEF ViewInv, StillInv, Client, DrawnOn, HeldOn, NewestIsShown
<1> QED BY <1>1, <1>2, <1>3, PTL DEF ViewSpec

\* What is on screen stays where it is and as it is, and is drawn once, also
\* when answers overtake each other, the server goes back, the threshold is
\* switched or locks are dropped (TranscriptModel::rebuild, resolvedDisplayText).
THEOREM TimelineHoldsStill == ViewSpec => HoldsStill
<1>1. ASSUME StillInv, StillInv', [ViewNext]_viewVars PROVE KeepsStill
  <2>1. ASSUME NEW p \in Slots
        PROVE  /\ DrawnOn(p) /\ DrawnOn(p)' /\ IsLane(laneLock[p]) /\ IsDisplay(displayLock[p])
               /\ IsRow(model'.rows[p]) /\ IsEdge(model'.edge[p]) /\ model'.rev \in Nat
    BY <1>1 DEF StillInv, Client, TypeOn, ModelWords
  <2>2. ASSUME NEW p \in Slots PROVE Cardinality(lanes'[p]) <= 1
    <3>1. \A d \in lanes'[p] : lanes'[p] = {[lane |-> d.lane, text |-> d.text, committed |-> d.committed,
                                            settled |-> d.settled]}
      BY <2>1 DEF DrawnOn
    <3> QED BY <3>1, DrawnOnce
  <2>3. ASSUME NEW p \in Slots, NEW x \in lanes[p], NEW y \in lanes'[p]
        PROVE  /\ ~x.committed /\ ~y.committed /\ model.showLow = model'.showLow => x = y
               /\ x.settled => y.lane = x.lane \/ (~Verified(x.lane) /\ Verified(y.lane))
    <3>1. CASE lanes' = lanes
      <4>1. x = y
        BY <2>1, <2>3, <3>1, StillIsStill
      <4> QED BY <4>1
    <3>2. ASSUME NEW c \in Channels, Deliver(c)
          PROVE  /\ ~x.committed /\ ~y.committed => x = y
                 /\ x.settled => y.lane = x.lane \/ (~Verified(x.lane) /\ Verified(y.lane))
      <4>1. Rebuilt(p, model', displayLock)
        BY <1>1, <3>2, DeliverStill
      <4> QED BY <2>1, <2>3, <4>1, RebuildIsStill
    <3>3. ASSUME Toggle
          PROVE  /\ model.showLow # model'.showLow
                 /\ x.settled => y.lane = x.lane \/ (~Verified(x.lane) /\ Verified(y.lane))
      <4> DEFINE d == [q \in Slots |-> Unshown]
      <4>1. Rebuilt(p, model', d) /\ model'.showLow = ~model.showLow
        BY <1>1, <3>3, ToggleStill
      <4>2. IsDisplay(d[p])
        BY DEF IsDisplay, Unshown, Bare, Marks
      <4>3. model.showLow # model'.showLow
        BY <4>1
      <4> HIDE DEF d
      <4>4. x.settled => y.lane = x.lane \/ (~Verified(x.lane) /\ Verified(y.lane))
        BY <2>1, <2>3, <4>1, <4>2, RebuildIsStill
      <4> QED BY <4>3, <4>4
    <3>4. CASE UNCHANGED viewVars
      BY <3>1, <3>4 DEF viewVars
    <3>5. CASE Said
      BY <3>1, <3>5 DEF Said
    <3>6. ViewNext => Said \/ (\E c \in Channels : Deliver(c)) \/ Toggle
      BY <1>1, Steps
    <3> QED BY <1>1, <3>2, <3>3, <3>4, <3>5, <3>6
  <2> QED BY <2>2, <2>3 DEF KeepsStill
<1> QED BY <1>1, StillInvariance, PTL DEF ViewSpec, HoldsStill
=============================================================================
