------------------------------- MODULE Http2 -------------------------------
(***************************************************************************)
(* The hand-written HTTP/2 transport under every unary call between the    *)
(* client and the buffer server: Channel::invoke over Http2Connection on   *)
(* one side, Http2Server with one thread per connection on the other.      *)
(*                                                                         *)
(* A connection is two ordered channels of frames.  Each side sends DATA   *)
(* only against the credit the other granted, at the level of the          *)
(* connection and of the stream, and reads frames only while it waits for  *)
(* credit or for an answer: the client never reads while it can send, so   *)
(* the SETTINGS that raise its windows may reach it in the middle of a     *)
(* body.                                                                   *)
(*                                                                         *)
(* One unit of size is one full DATA frame.  PING, PRIORITY, the SETTINGS  *)
(* acknowledgement, CONTINUATION and padding are left out, and so are the  *)
(* frames only a peer other than these two sends.  The 8 MiB both sides    *)
(* announce is Window + Raise; Window is the 64 KiB of the protocol.       *)
(***************************************************************************)
EXTENDS Integers, Sequences, FiniteSets

CONSTANTS
    MaxCalls,      \* bound: calls the program makes
    MaxBody,       \* bound: size of a request or a reply, in DATA frames
    Window,        \* the window a connection and a stream start with
    Raise,         \* what each preface adds to both
    MaxConns,      \* bound: connections dialled
    Limit,         \* connections the server serves at once
    MaxBreaks      \* bound: deadlines, broken sockets

ASSUME Http2Assumption ==
    /\ {MaxCalls, MaxBody, Window, MaxConns, Limit} \subseteq Nat \ {0}
    /\ {Raise, MaxBreaks} \subseteq Nat

VARIABLES
    toServer, toClient,  \* the frames on the way, per connection
    socket,              \* per connection: "none", "up", "shut" (by the client),
                         \* "gone" (closed by the server) or "broken"
    cl,                  \* the client's Http2Connection and the call on it
    srv,                 \* the server's connection threads
    stopping,            \* Http2Server::stop has been called
    calls,               \* the calls so far: sizes, outcome, times run
    breaks

httpVars == <<toServer, toClient, socket, cl, srv, stopping, calls, breaks>>

Conns == 1..MaxConns
Streams == 1..MaxCalls

Settings == [type |-> "SETTINGS", stream |-> 0, n |-> Raise, last |-> FALSE]
Credit(stream, n) == [type |-> "WINDOW_UPDATE", stream |-> stream, n |-> n, last |-> FALSE]
Data(stream, n, last) == [type |-> "DATA", stream |-> stream, n |-> n, last |-> last]
\* HEADERS: n is the call it belongs to (the request) or 0 (an answer)
Headers(stream, n, last) == [type |-> "HEADERS", stream |-> stream, n |-> n, last |-> last]
Goaway == [type |-> "GOAWAY", stream |-> 0, n |-> 0, last |-> FALSE]

\* SETTINGS cannot raise the connection's window: an explicit credit follows.
Preface == <<Settings, Credit(0, Raise)>>

Idle == [pc |-> "idle", conn |-> 0, goaway |-> FALSE, next |-> 1, stream |-> 0, left |-> 0,
         seen |-> FALSE, got |-> 0, connWindow |-> Window, window |-> Window, initial |-> Window]
Absent == [pc |-> "none", stream |-> 0, call |-> 0, body |-> 0, left |-> 0,
           connWindow |-> Window, initial |-> Window,
           window |-> [s \in Streams |-> 0], open |-> {}]

HttpInit ==
    /\ toServer = [k \in Conns |-> <<>>] /\ toClient = [k \in Conns |-> <<>>]
    /\ socket = [k \in Conns |-> "none"]
    /\ cl = Idle
    /\ srv = [k \in Conns |-> Absent]
    /\ stopping = FALSE
    /\ calls = <<>>
    /\ breaks = 0

Spend == breaks < MaxBreaks /\ breaks' = breaks + 1

----------------------------------------------------------------------------
(* The client *)

Current == Len(calls)
\* What is written to a socket the other side has left is lost.
Deliver(frames) ==
    toServer' = [toServer EXCEPT ![cl.conn] = IF socket[cl.conn] = "up" THEN @ \o frames ELSE @]
Outcome(what) == calls' = [calls EXCEPT ![Current].outcome = what]

\* Http2Connection::close, which starts every counter again.
Closed == Idle
Shut(k) == [socket EXCEPT ![k] = IF @ = "up" THEN "shut" ELSE @]

\* Channel::invoke closes the connection under a call that failed: frames of
\* its stream may still come and would be taken for the next one's.
KeepsConnection == [cl EXCEPT !.pc = "idle"]
AfterFailure == Closed
Fail(what) ==
    /\ Outcome(what)
    /\ cl' = AfterFailure
    /\ socket' = IF AfterFailure.conn = 0 THEN Shut(cl.conn) ELSE socket

\* Channel::ensureOpen.  A server at its limit answers its preface and a
\* GOAWAY and hangs up; one that has stopped does not listen.
Serving == {k \in Conns : srv[k].pc \notin {"none", "closed"}}
Refuses == Cardinality(Serving) >= Limit
Dial(k) ==
    /\ cl.pc = "idle" /\ (cl.conn = 0 \/ cl.goaway) /\ ~stopping
    /\ Current < MaxCalls
    /\ socket[k] = "none" /\ (\A j \in 1..(k - 1) : socket[j] /= "none")
    /\ toServer' = [toServer EXCEPT ![k] = Preface]
    /\ toClient' = [toClient EXCEPT ![k] = IF Refuses THEN Append(Preface, Goaway) ELSE Preface]
    /\ socket' = [j \in Conns |-> CASE j = k -> IF Refuses THEN "gone" ELSE "up"
                                     [] j = cl.conn -> Shut(j)[j]
                                     [] OTHER -> socket[j]]
    /\ srv' = [srv EXCEPT ![k].pc = IF Refuses THEN "closed" ELSE "reading"]
    /\ cl' = [Closed EXCEPT !.conn = k]
    /\ UNCHANGED <<stopping, calls, breaks>>

\* Http2Connection::request: a fresh stream id, the HEADERS, then the body.
Request(size, reply) ==
    /\ cl.pc = "idle" /\ cl.conn /= 0 /\ ~cl.goaway
    /\ Current < MaxCalls
    /\ calls' = Append(calls, [size |-> size, reply |-> reply, outcome |-> "none", ran |-> 0,
                              got |-> 0])
    /\ cl' = [cl EXCEPT !.pc = "sending", !.stream = cl.next, !.next = @ + 1, !.left = size,
                        !.seen = FALSE, !.got = 0, !.window = cl.initial]
    /\ Deliver(<<Headers(cl.next, Current + 1, FALSE)>>)
    /\ UNCHANGED <<toClient, socket, srv, stopping, breaks>>

\* sendBody: one frame when both windows allow it, END_STREAM on the last.
HasCredit == cl.connWindow >= 1 /\ cl.window >= 1
IsLast(left) == left = 1
SendBody ==
    /\ cl.pc = "sending" /\ HasCredit
    /\ Deliver(<<Data(cl.stream, 1, IsLast(cl.left))>>)
    /\ cl' = [cl EXCEPT !.left = @ - 1, !.connWindow = @ - 1, !.window = @ - 1,
                        !.pc = IF cl.left = 1 THEN "reading" ELSE "sending"]
    /\ UNCHANGED <<toClient, socket, srv, stopping, calls, breaks>>

Reads == cl.pc = "reading" \/ (cl.pc = "sending" /\ ~HasCredit)
Pop(ch, k) == ch' = [ch EXCEPT ![k] = Tail(@)]

\* handleConnectionFrame.  A credit for any stream goes to the one window the
\* client keeps.
Credited(f) == IF f.stream = 0 THEN [cl EXCEPT !.connWindow = @ + f.n]
                               ELSE [cl EXCEPT !.window = @ + f.n]
Adjusted(f) == [cl EXCEPT !.initial = Window + f.n, !.window = @ + (Window + f.n - cl.initial)]

ReadCredit ==
    LET f == Head(toClient[cl.conn]) IN
    /\ Reads /\ toClient[cl.conn] /= <<>>
    /\ f.type \in {"WINDOW_UPDATE", "SETTINGS"}
    /\ cl' = IF f.type = "SETTINGS" THEN Adjusted(f) ELSE Credited(f)
    /\ Pop(toClient, cl.conn)
    /\ UNCHANGED <<toServer, socket, srv, stopping, calls, breaks>>

\* A GOAWAY ends the call unless its answer has begun.
AlwaysEnds == TRUE
GoawayEnds == ~cl.seen
ReadGoaway ==
    /\ Reads /\ toClient[cl.conn] /= <<>> /\ Head(toClient[cl.conn]).type = "GOAWAY"
    /\ Pop(toClient, cl.conn)
    /\ IF GoawayEnds THEN Fail("refused")
                     ELSE /\ cl' = [cl EXCEPT !.goaway = TRUE]
                          /\ UNCHANGED <<socket, calls>>
    /\ UNCHANGED <<toServer, srv, stopping, breaks>>

\* HEADERS of another stream would put HPACK out of step: the call fails.
ReadHeaders ==
    LET f == Head(toClient[cl.conn]) IN
    /\ cl.pc = "reading" /\ toClient[cl.conn] /= <<>> /\ f.type = "HEADERS"
    /\ Pop(toClient, cl.conn)
    /\ CASE f.stream /= cl.stream -> Fail("unavailable")
         [] f.stream = cl.stream /\ f.last ->
              /\ calls' = [calls EXCEPT ![Current].outcome = IF cl.got > 0 THEN "ok" ELSE "error",
                                        ![Current].got = cl.got]
              /\ cl' = [cl EXCEPT !.pc = "idle"]
              /\ UNCHANGED socket
         [] OTHER ->
              /\ cl' = [cl EXCEPT !.seen = TRUE]
              /\ UNCHANGED <<socket, calls>>
    /\ UNCHANGED <<toServer, srv, stopping, breaks>>

\* DATA of the answer: both credits go back at once.
Replenish(f) == <<Credit(0, f.n), Credit(f.stream, f.n)>>
ReadData ==
    LET f == Head(toClient[cl.conn]) IN
    /\ cl.pc = "reading" /\ toClient[cl.conn] /= <<>>
    /\ f.type = "DATA" /\ f.stream = cl.stream
    /\ Pop(toClient, cl.conn)
    /\ cl' = [cl EXCEPT !.got = @ + f.n]
    /\ Deliver(Replenish(f))
    /\ UNCHANGED <<socket, srv, stopping, calls, breaks>>

\* The server hung up or the network broke: a write fails, or nothing more
\* comes.
HangsUp ==
    /\ cl.pc = "sending" \/ (cl.pc = "reading" /\ toClient[cl.conn] = <<>>)
    /\ socket[cl.conn] \in {"gone", "broken"}
    /\ Fail("unavailable")
    /\ UNCHANGED <<toServer, toClient, srv, stopping, breaks>>

\* The deadline passes while the client waits.
Deadline ==
    /\ Reads /\ Spend
    /\ Fail("deadline")
    /\ UNCHANGED <<toServer, toClient, srv, stopping>>

----------------------------------------------------------------------------
(* A connection thread of the server *)

Answer(k, frames) == toClient' = [toClient EXCEPT ![k] = @ \o frames]
\* What the server writes to a socket whose other end is closed is lost.
Reaches(k) == socket[k] = "up"
Becomes(k, r) == srv' = [srv EXCEPT ![k] = r]
Tell(k, frames) == IF Reaches(k) THEN Answer(k, frames) ELSE UNCHANGED toClient

SrvHeaders(k) ==
    LET f == Head(toServer[k])
        r == srv[k] IN
    /\ srv[k].pc = "reading" /\ ~stopping
    /\ toServer[k] /= <<>> /\ f.type = "HEADERS"
    /\ Pop(toServer, k)
    /\ Becomes(k, [r EXCEPT !.stream = f.stream, !.call = f.n, !.body = 0,
                            !.open = r.open \union {f.stream}, !.window[f.stream] = r.initial])
    /\ UNCHANGED <<toClient, socket, cl, stopping, calls, breaks>>

\* handleData: the frame is copied out, so its credit goes back at once; the
\* stream of the last one needs none.
ConnectionOnly(f) == <<Credit(0, f.n)>>
Returned(f) == <<Credit(0, f.n)>> \o IF f.last THEN <<>> ELSE <<Credit(f.stream, f.n)>>
SrvData(k) ==
    LET f == Head(toServer[k])
        r == srv[k] IN
    /\ srv[k].pc = "reading" /\ ~stopping
    /\ toServer[k] /= <<>> /\ f.type = "DATA"
    /\ Pop(toServer, k)
    /\ Tell(k, Returned(f))
    /\ Becomes(k, [r EXCEPT !.body = r.body + f.n,
                            !.open = IF f.last THEN r.open \ {f.stream} ELSE r.open,
                            !.pc = IF f.last THEN "handling" ELSE r.pc])
    /\ UNCHANGED <<socket, cl, stopping, calls, breaks>>

\* handleConnectionFrame, in the frame loop and while credit is awaited.
Starved(k) == srv[k].pc = "answering" /\ srv[k].left > 0
              /\ (srv[k].connWindow < 1 \/ srv[k].window[srv[k].stream] < 1)
SrvCredit(k) ==
    LET f == Head(toServer[k])
        r == srv[k] IN
    /\ srv[k].pc = "reading" \/ Starved(k)
    /\ ~stopping
    /\ toServer[k] /= <<>> /\ f.type \in {"WINDOW_UPDATE", "SETTINGS"}
    /\ Pop(toServer, k)
    /\ Becomes(k, CASE f.type = "SETTINGS" ->
                         [r EXCEPT !.initial = Window + f.n,
                                   !.window = [s \in Streams |->
                                       r.window[s] + IF s \in r.open THEN f.n ELSE 0]]
                    [] f.type # "SETTINGS" /\ f.stream = 0 ->
                         [r EXCEPT !.connWindow = r.connWindow + f.n]
                    [] OTHER -> [r EXCEPT !.window[f.stream] = r.window[f.stream] + f.n])
    /\ UNCHANGED <<toClient, socket, cl, stopping, calls, breaks>>

\* serve: the handler runs, whatever became of the caller, then the HEADERS
\* go out.  An error is one HEADERS frame that ends the stream.
SrvHandle(k) ==
    LET c == srv[k].call IN
    /\ srv[k].pc = "handling"
    /\ calls' = [calls EXCEPT ![c].ran = @ + 1]
    /\ Tell(k, <<Headers(srv[k].stream, 0, calls[c].reply = 0)>>)
    /\ Becomes(k, [srv[k] EXCEPT !.left = calls[c].reply,
                                 !.pc = IF calls[c].reply = 0 THEN "reading" ELSE "answering"])
    /\ UNCHANGED <<toServer, socket, cl, stopping, breaks>>

\* sendData.
SrvSend(k) ==
    LET r == srv[k]
        s == r.stream IN
    /\ srv[k].pc = "answering" /\ srv[k].left > 0
    /\ ~Starved(k)
    /\ Tell(k, <<Data(s, 1, FALSE)>>)
    /\ Becomes(k, [r EXCEPT !.left = r.left - 1, !.connWindow = r.connWindow - 1,
                            !.window[s] = r.window[s] - 1])
    /\ UNCHANGED <<toServer, socket, cl, stopping, calls, breaks>>

\* The trailers carry the status and end the stream; its window is dropped.
SrvTrailers(k) ==
    /\ srv[k].pc = "answering" /\ srv[k].left = 0
    /\ Tell(k, <<Headers(srv[k].stream, 0, TRUE)>>)
    /\ Becomes(k, [srv[k] EXCEPT !.pc = "reading", !.window[srv[k].stream] = 0])
    /\ UNCHANGED <<toServer, socket, cl, stopping, calls, breaks>>

\* run ends: the peer is gone, or the server stops and says so.
SrvLeave(k) ==
    /\ srv[k].pc = "reading" \/ Starved(k)
    /\ stopping \/ (toServer[k] = <<>> /\ socket[k] \in {"shut", "broken"})
    /\ Tell(k, <<Goaway>>)
    /\ Becomes(k, [srv[k] EXCEPT !.pc = "closed"])
    /\ socket' = [socket EXCEPT ![k] = IF @ = "up" THEN "gone" ELSE @]
    /\ UNCHANGED <<toServer, cl, stopping, calls, breaks>>

----------------------------------------------------------------------------
(* The environment *)

\* Http2Server::stop: no new connection, and every thread leaves its loop.
Stop ==
    /\ ~stopping /\ Spend
    /\ stopping' = TRUE
    /\ UNCHANGED <<toServer, toClient, socket, cl, srv, calls>>

\* The network drops a connection with what is on it.
Break(k) ==
    /\ socket[k] = "up" /\ Spend
    /\ socket' = [socket EXCEPT ![k] = "broken"]
    /\ toServer' = [toServer EXCEPT ![k] = <<>>] /\ toClient' = [toClient EXCEPT ![k] = <<>>]
    /\ UNCHANGED <<cl, srv, stopping, calls>>

Client ==
    \/ \E size \in 1..MaxBody, reply \in 0..MaxBody : Request(size, reply)
    \/ SendBody \/ ReadCredit \/ ReadGoaway \/ ReadHeaders \/ ReadData \/ HangsUp
Thread(k) == SrvHeaders(k) \/ SrvData(k) \/ SrvCredit(k) \/ SrvHandle(k) \/ SrvSend(k)
             \/ SrvTrailers(k) \/ SrvLeave(k)

HttpNext == \/ \E k \in Conns : Dial(k) \/ Thread(k) \/ Break(k)
            \/ Client \/ Deadline \/ Stop

HttpSpec == HttpInit /\ [][HttpNext]_httpVars
\* The caller's thread and the connection threads run.  The clock is not
\* fair: no call may need its deadline to end.
FairHttpSpec == HttpSpec /\ WF_httpVars(Client) /\ \A k \in Conns : WF_httpVars(Thread(k))

----------------------------------------------------------------------------
(* Properties *)

\* How much of one kind is on a channel, for some streams: one pair for every
\* unit of every such frame.  No frame carries more than a whole window.
Units(ch, type, streams) ==
    {e \in (1..Len(ch)) \X (1..(Window + Raise)) :
        LET f == ch[e[1]] IN f.type = type /\ f.stream \in streams /\ e[2] <= f.n}
OnWire(ch, type, stream) == Cardinality(Units(ch, type, {stream}))
AllData(ch) == Cardinality(Units(ch, "DATA", Streams))

\* Every value stays in its range; no window is overdrawn.
HttpTypeOK ==
    /\ \A k \in Conns : socket[k] \in {"none", "up", "shut", "gone", "broken"}
    /\ cl.pc \in {"idle", "sending", "reading"} /\ cl.conn \in 0..MaxConns
    /\ cl.connWindow \in 0..(Window + Raise) /\ cl.window \in 0..(Window + Raise)
    /\ \A k \in Conns : /\ srv[k].pc \in {"none", "reading", "handling", "answering", "closed"}
                        /\ srv[k].connWindow \in 0..(Window + Raise)
                        /\ srv[k].open \subseteq Streams
    /\ \A c \in 1..Len(calls) :
         calls[c].outcome \in {"none", "ok", "error", "unavailable", "refused", "deadline"}

Connected == cl.conn /= 0 /\ socket[cl.conn] = "up"

\* No credit is lost or made up: what a side may still send, what it has on
\* the way and what is on the way back to it always add up to the window it
\* was granted, for the connection and for the stream, in both directions.
\* A leak would not fail a test: it stalls the upload that meets the last of
\* it, hours later.
CreditIsConserved ==
    Connected =>
      LET k == cl.conn
          s == cl.stream
          r == srv[k].stream
          up == toServer[k]
          down == toClient[k] IN
      /\ cl.connWindow + AllData(up) + OnWire(down, "WINDOW_UPDATE", 0) = Window + Raise
      /\ srv[k].pc /= "closed" =>
           srv[k].connWindow + AllData(down) + OnWire(up, "WINDOW_UPDATE", 0) = Window + Raise
      /\ cl.pc = "sending" =>
           cl.window + OnWire(up, "DATA", s) + OnWire(down, "WINDOW_UPDATE", s) = cl.initial
      /\ srv[k].pc = "answering" =>
           srv[k].window[r] + OnWire(down, "DATA", r) + OnWire(up, "WINDOW_UPDATE", r)
             = srv[k].initial

\* An answer taken for complete is the whole answer of that call's own
\* handler, and a call reported as refused was never run: the caller may
\* repeat it.  The handler, in turn, runs with every byte of the body, and
\* never twice for one call.
OutcomeIsTrue ==
    /\ \A c \in 1..Len(calls) :
         LET call == calls[c] IN
         /\ call.outcome \in {"ok", "error"} => call.ran = 1 /\ call.got = call.reply
         /\ call.outcome = "refused" => call.ran = 0
    /\ \A k \in Conns : srv[k].pc \in {"handling", "answering"} =>
         /\ srv[k].body = calls[srv[k].call].size
         /\ calls[srv[k].call].ran <= 1

\* Every call ends, without its deadline: neither side waits for a credit
\* the other will never send, though each reads only when it must.
CallsEnd == cl.pc /= "idle" ~> cl.pc = "idle"
=============================================================================
