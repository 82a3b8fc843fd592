------------------------------ MODULE Transport ------------------------------
(***************************************************************************)
(* One connection, end to end: the application's transport                 *)
(* (client/remote.go: Exec, Send, readLoop, and a goroutine per kind of    *)
(* thing the display says) and the display's (display/display.go: the      *)
(* batch loop of serveConn, conn.send, writeLoop, hangUp).                 *)
(*                                                                         *)
(* What is modelled is who waits on whom.  A batch is its number, a reply  *)
(* the number of the batch it answers; of what the display says of its     *)
(* own accord only its kind and its place are kept.  The handshake is      *)
(* over.  Channels and sockets hold what their capacities let them.        *)
(***************************************************************************)
EXTENDS Naturals, Sequences

CONSTANTS
  Threads,     \* the application's own goroutines that Exec
  Lanes,       \* what the display says unasked: a channel and a goroutine each
  Asking,      \* the lanes whose handlers may Exec
  Serving,     \* the lanes whose handlers Send: the display's own batches
  Nobody,
  Reply, Goodbye,
  Room,        \* Room[l]: the capacity of l's channel
  OutRoom,     \* the capacity of conn.out
  SocketRoom,  \* what the socket to the application holds
  MaxCalls,    \* bound: the batches the application sends
  MaxSaid,     \* bound: MaxSaid[l], how much the display says on lane l
  MaxTraffic   \* bound: the batches and what is said on one lane, together

ASSUME TransportAssumption ==
  /\ Threads \intersect Lanes = {}
  /\ Asking \subseteq Lanes /\ Serving \subseteq Lanes
  /\ Nobody \notin Threads \union Lanes
  /\ Reply # Goodbye /\ {Reply, Goodbye} \intersect Lanes = {}
  /\ Room \in [Lanes -> Nat \ {0}]
  /\ OutRoom \in Nat \ {0} /\ SocketRoom \in Nat \ {0}
  /\ {MaxCalls, MaxTraffic} \subseteq Nat /\ MaxSaid \in [Lanes -> Nat]

Goroutines == Threads \union Lanes
Calls == 1..MaxCalls

VARIABLES
  \* the application
  calls,     \* how many batches it has wanted sent
  at,        \* at[g]: where goroutine g stands
  call,      \* call[g]: the batch it is sending, 0 if none
  writeMu,   \* who holds remoteTransport.writeMu
  replies,   \* the channel of that name
  chan,      \* chan[l]: the channel of lane l
  hand,      \* what the reader has read and not yet handed on
  heard,     \* the reader has ended, and closed every channel behind it
  got,       \* got[n]: the batch whose reply Exec returned for n
  lost,      \* the batches Exec returned an error of the connection for
  handled,   \* handled[l]: what lane l's handler was given
  farewell,  \* the display's goodbye was read
  \* the socket, each way, and which of its ends are open
  up, down, appEnd, displayEnd,
  \* the display
  running,   \* the batch posted to the desktop and waited for, 0 if none
  left,      \* serveConn has returned
  out,       \* the outbound channel
  gone,      \* conn.gone is closed
  written,   \* conn.written is closed: the writer has stopped
  hung,      \* where hangUp stands
  said,      \* said[l]: how much was said on lane l
  \* history
  answered,  \* the batches whose reply was queued before the connection was gone
  heldBy,    \* heldBy[l]: what had been said on l when it went
  spoiled    \* the socket closed otherwise than by an unhurried hang-up

client == <<calls, at, call, writeMu, replies, chan, hand, heard, got, lost,
            handled, farewell>>
goroutines == <<calls, at, call, writeMu, got, lost>>
reader == <<replies, chan, hand, heard, farewell>>
socket == <<up, down, appEnd, displayEnd>>
display == <<running, left, out, gone, written, hung, said>>
history == <<answered, heldBy, spoiled>>
vars == <<client, socket, display, history>>

Line(to, n) == [to |-> to, n |-> n]
Nothing == Line(Nobody, 0)

Init ==
  /\ calls = 0
  /\ at = [g \in Goroutines |-> "idle"]
  /\ call = [g \in Goroutines |-> 0]
  /\ writeMu = Nobody
  /\ replies = <<>>
  /\ chan = [l \in Lanes |-> <<>>]
  /\ hand = Nothing
  /\ heard = FALSE
  /\ got = [n \in Calls |-> 0]
  /\ lost = {}
  /\ handled = [l \in Lanes |-> <<>>]
  /\ farewell = FALSE
  /\ up = <<>> /\ down = <<>>
  /\ appEnd = TRUE /\ displayEnd = TRUE
  /\ running = 0
  /\ left = FALSE
  /\ out = <<>>
  /\ gone = FALSE
  /\ written = FALSE
  /\ hung = "no"
  /\ said = [l \in Lanes |-> 0]
  /\ answered = {}
  /\ heldBy = [l \in Lanes |-> 0]
  /\ spoiled = FALSE

-----------------------------------------------------------------------------
\* The application's goroutines.

\* What a lane's handler is doing when it is not waiting; and a thread.
Working(g) == IF g \in Lanes THEN "handling" ELSE "idle"

\* Code of the application calls Exec.
Call(g) ==
  /\ g \in Threads \union Asking
  /\ at[g] = Working(g)
  /\ calls < MaxCalls /\ \A l \in Lanes : calls + said[l] < MaxTraffic
  /\ calls' = calls + 1
  /\ call' = [call EXCEPT ![g] = calls + 1]
  /\ at' = [at EXCEPT ![g] = "wants"]
  /\ UNCHANGED <<writeMu, got, lost, reader, handled, socket, display, history>>

\* What goes out reaches the other end while that end is open.
Write(batch) == up' = IF displayEnd THEN Append(up, batch) ELSE up

\* Mutant of SendBatch: the writer is let go as soon as the batch is written.
SendsUnlocked(g) ==
  /\ at[g] = "wants" /\ writeMu = Nobody
  /\ appEnd
  /\ at' = [at EXCEPT ![g] = "awaits"]
  /\ Write(call[g])
  /\ UNCHANGED <<calls, call, writeMu, got, lost, reader, handled,
                 down, appEnd, displayEnd, display, history>>

\* Exec writes its batch, and keeps the writer until it is answered.
SendBatch(g) ==
  /\ at[g] = "wants" /\ writeMu = Nobody
  /\ appEnd
  /\ writeMu' = g
  /\ at' = [at EXCEPT ![g] = "awaits"]
  /\ Write(call[g])
  /\ UNCHANGED <<calls, call, got, lost, reader, handled,
                 down, appEnd, displayEnd, display, history>>

Returns(g) ==
  /\ at' = [at EXCEPT ![g] = Working(g)]
  /\ call' = [call EXCEPT ![g] = 0]

\* A socket closed at either end may refuse the write.
SendFails(g) ==
  /\ at[g] = "wants" /\ writeMu = Nobody
  /\ ~appEnd \/ ~displayEnd
  /\ lost' = lost \union {call[g]}
  /\ Returns(g)
  /\ UNCHANGED <<calls, writeMu, got, reader, handled, socket, display, history>>

LetsGo(g) == writeMu' = IF writeMu = g THEN Nobody ELSE writeMu

TakeReply(g) ==
  /\ at[g] = "awaits"
  /\ replies # <<>>
  /\ got' = [got EXCEPT ![call[g]] = Head(replies)]
  /\ replies' = Tail(replies)
  /\ LetsGo(g)
  /\ Returns(g)
  /\ UNCHANGED <<calls, lost, chan, hand, heard, farewell, handled, socket,
                 display, history>>

NoReply(g) ==
  /\ at[g] = "awaits"
  /\ replies = <<>> /\ heard
  /\ lost' = lost \union {call[g]}
  /\ LetsGo(g)
  /\ Returns(g)
  /\ UNCHANGED <<calls, got, reader, handled, socket, display, history>>

\* eventLoop, answerLoop, inboundLoop: what was said is handed to its handler.
Handle(l) ==
  /\ at[l] = "idle" /\ chan[l] # <<>>
  /\ chan' = [chan EXCEPT ![l] = Tail(chan[l])]
  /\ handled' = [handled EXCEPT ![l] = Append(handled[l], Head(chan[l]))]
  /\ at' = [at EXCEPT ![l] = IF l \in Serving THEN "answers" ELSE "handling"]
  /\ UNCHANGED <<calls, call, writeMu, got, lost, replies, hand, heard, farewell,
                 socket, display, history>>

\* InboundBatch answers with a Send, which waits for the writer and for nothing
\* else, and whose failure is nobody's concern.
Answer(l) ==
  /\ at[l] = "answers" /\ writeMu = Nobody
  /\ at' = [at EXCEPT ![l] = "handling"]
  /\ IF appEnd THEN Write(0) ELSE UNCHANGED up
  /\ UNCHANGED <<calls, call, writeMu, got, lost, reader, handled,
                 down, appEnd, displayEnd, display, history>>

Handled(l) ==
  /\ at[l] = "handling"
  /\ at' = [at EXCEPT ![l] = "idle"]
  /\ UNCHANGED <<calls, call, writeMu, got, lost, reader, handled, socket,
                 display, history>>

-----------------------------------------------------------------------------
\* The application's reader.

\* A reply nobody can be waiting for is dropped.
Route(line) ==
  IF line.to = Reply
  THEN /\ replies' = IF replies = <<>> THEN <<line.n>> ELSE replies
       /\ UNCHANGED <<hand, farewell>>
  ELSE IF line.to = Goodbye
  THEN farewell' = TRUE /\ UNCHANGED <<replies, hand>>
  ELSE hand' = line /\ UNCHANGED <<replies, farewell>>

\* What has arrived is read, from the scanner's buffer even once the socket is
\* closed at this end.
Read ==
  /\ ~heard /\ hand = Nothing
  /\ down # <<>>
  /\ Route(Head(down))
  /\ down' = Tail(down)
  /\ UNCHANGED <<goroutines, chan, heard, handled, up, appEnd, displayEnd,
                 display, history>>

\* The reader blocks while the lane's channel is full.
Deliver ==
  /\ hand # Nothing
  /\ Len(chan[hand.to]) < Room[hand.to]
  /\ chan' = [chan EXCEPT ![hand.to] = Append(@, hand.n)]
  /\ hand' = Nothing
  /\ UNCHANGED <<goroutines, replies, heard, farewell, handled, socket, display,
                 history>>

ReaderEnds ==
  /\ ~heard /\ hand = Nothing
  /\ ~appEnd \/ (down = <<>> /\ ~displayEnd)
  /\ heard' = TRUE
  /\ appEnd' = FALSE
  /\ UNCHANGED <<goroutines, replies, chan, hand, farewell, handled, up, down,
                 displayEnd, display, history>>

\* Conn.Close, called by the application.
AppCloses ==
  /\ appEnd
  /\ appEnd' = FALSE
  /\ spoiled' = TRUE
  /\ UNCHANGED <<client, up, down, displayEnd, display, answered, heldBy>>

-----------------------------------------------------------------------------
\* The display.

Prefixed(s) == {SubSeq(s, 1, k) : k \in 0..Len(s)}

\* The socket is closed at the display's end.  What the scanner had in its buffer
\* is still read.  Closed over statements nobody has read, the socket may take back
\* what was on its way to the application.
CloseSocket(unhurried) ==
  /\ displayEnd' = FALSE
  /\ IF displayEnd THEN up' \in Prefixed(up) ELSE UNCHANGED up
  /\ IF displayEnd /\ up # <<>> THEN down' \in Prefixed(down) ELSE down' = down
  /\ spoiled' = (spoiled \/ (displayEnd /\ (~unhurried \/ up # <<>>)))

\* Mutant of Say: a full queue drops the line instead of the connection.
SayDrops(line) ==
  /\ out' = IF ~gone /\ Len(out) < OutRoom THEN Append(out, line) ELSE out
  /\ UNCHANGED <<socket, spoiled>>

\* conn.send never waits.  On a connection that is gone a line with room in the
\* queue may go either way; on one that is not, a full queue closes the socket.
Say(line) ==
  \/ /\ gone
     /\ UNCHANGED <<out, socket, spoiled>>
  \/ /\ Len(out) < OutRoom
     /\ out' = Append(out, line)
     /\ UNCHANGED <<socket, spoiled>>
  \/ /\ ~gone /\ Len(out) = OutRoom
     /\ CloseSocket(FALSE)
     /\ UNCHANGED <<out, appEnd>>

\* serveConn's loop: an answer is passed on, a batch is posted and waited for.
ReadBatch ==
  /\ ~left /\ running = 0
  /\ up # <<>>
  /\ running' = Head(up)
  /\ up' = Tail(up)
  /\ UNCHANGED <<client, down, appEnd, displayEnd, left, out, gone, written,
                 hung, said, history>>

\* Mutant of Execute: a batch that is refused is not answered.
ExecuteRefuses ==
  /\ running # 0
  /\ running' = 0
  /\ UNCHANGED <<client, socket, left, out, gone, written, hung, said, history>>

\* conn.execute, on the desktop's thread.
Execute ==
  /\ running # 0
  /\ Say(Line(Reply, running))
  /\ answered' = IF ~gone /\ Len(out) < OutRoom THEN answered \union {running}
                 ELSE answered
  /\ running' = 0
  /\ UNCHANGED <<client, left, gone, written, hung, said, heldBy>>

\* The desktop raises an event, answers an ask, or puts a batch of its own.
Raise(l) ==
  /\ said[l] < MaxSaid[l] /\ calls + said[l] < MaxTraffic
  /\ said' = [said EXCEPT ![l] = @ + 1]
  /\ Say(Line(l, said[l] + 1))
  /\ UNCHANGED <<client, running, left, gone, written, hung, answered, heldBy>>

\* conn.finish, once however often it is called.
Finish ==
  /\ gone' = TRUE
  /\ heldBy' = IF gone THEN heldBy ELSE said

\* Mutant of Leave: the writer is not told.
LeavesWriter ==
  /\ ~left /\ running = 0
  /\ up = <<>> /\ (~displayEnd \/ ~appEnd)
  /\ left' = TRUE
  /\ CloseSocket(FALSE)
  /\ UNCHANGED <<client, appEnd, running, out, gone, written, hung, said, answered,
                 heldBy>>

\* The reader's end: the connection is finished with, then its socket closed.
Leave ==
  /\ ~left /\ running = 0
  /\ up = <<>> /\ (~displayEnd \/ ~appEnd)
  /\ left' = TRUE
  /\ Finish
  /\ CloseSocket(FALSE)
  /\ UNCHANGED <<client, appEnd, running, out, written, hung, said, answered>>

\* The writer, a line at a time; it waits while the socket is full.
WriteLine ==
  /\ ~written /\ out # <<>>
  /\ displayEnd /\ Len(down) < SocketRoom
  /\ out' = Tail(out)
  /\ down' = IF appEnd THEN Append(down, Head(out)) ELSE down
  /\ UNCHANGED <<client, up, appEnd, displayEnd, running, left, gone, written, hung,
                 said, history>>

WriteFails ==
  /\ ~written /\ out # <<>>
  /\ ~displayEnd \/ ~appEnd
  /\ out' = Tail(out)
  /\ written' = TRUE
  /\ UNCHANGED <<client, socket, running, left, gone, hung, said, history>>

\* Mutant of WriterStops: what is queued is left where it is.
WriterStopsAtOnce ==
  /\ ~written /\ gone
  /\ written' = TRUE
  /\ UNCHANGED <<client, socket, running, left, out, gone, hung, said, history>>

\* Gone, the writer still says what was queued, and stops when nothing is.
WriterStops ==
  /\ ~written /\ gone
  /\ out = <<>>
  /\ written' = TRUE
  /\ UNCHANGED <<client, socket, running, left, out, gone, hung, said, history>>

\* conn.hangUp: goodbye, no more, and a socket closed when the writer is done or
\* has taken too long.
HangUp ==
  /\ hung = "no"
  /\ hung' = "said"
  /\ Say(Line(Goodbye, 0))
  /\ UNCHANGED <<client, running, left, gone, written, said, answered, heldBy>>

HangUpFinishes ==
  /\ hung = "said"
  /\ hung' = "waits"
  /\ Finish
  /\ UNCHANGED <<client, socket, running, left, out, written, said, answered, spoiled>>

HangUpCloses ==
  /\ hung = "waits"
  /\ hung' = "done"
  /\ CloseSocket(written)
  /\ UNCHANGED <<client, appEnd, running, left, out, gone, written, said, answered,
                 heldBy>>

\* The network between them fails: what was on its way may be lost.
Break ==
  /\ appEnd /\ displayEnd
  /\ appEnd' = FALSE /\ displayEnd' = FALSE
  /\ up' \in Prefixed(up) /\ down' \in Prefixed(down)
  /\ spoiled' = TRUE
  /\ UNCHANGED <<client, display, answered, heldBy>>

-----------------------------------------------------------------------------
GoroutineStep(g) ==
  \/ SendBatch(g) \/ SendFails(g)
  \/ TakeReply(g) \/ NoReply(g)

LaneStep(l) == Handle(l) \/ Answer(l) \/ Handled(l)

Next ==
  \/ \E g \in Goroutines : Call(g) \/ GoroutineStep(g)
  \/ \E l \in Lanes : LaneStep(l) \/ Raise(l)
  \/ Read \/ Deliver \/ ReaderEnds \/ AppCloses
  \/ ReadBatch \/ Execute \/ Leave
  \/ WriteLine \/ WriteFails \/ WriterStops
  \/ HangUp \/ HangUpFinishes \/ HangUpCloses
  \/ Break

Spec == Init /\ [][Next]_vars

\* Every goroutine runs and the desktop drains its posts.  Nobody has to Exec,
\* say anything, close or hang up.
Fairness ==
  /\ \A g \in Goroutines : WF_vars(GoroutineStep(g))
  /\ \A l \in Lanes : WF_vars(LaneStep(l))
  /\ WF_vars(Read) /\ WF_vars(Deliver) /\ WF_vars(ReaderEnds)
  /\ WF_vars(ReadBatch) /\ WF_vars(Execute) /\ WF_vars(Leave)
  /\ WF_vars(WriteLine) /\ WF_vars(WriteFails) /\ WF_vars(WriterStops)
  /\ WF_vars(HangUpFinishes) /\ WF_vars(HangUpCloses)

FairSpec == Spec /\ Fairness

-----------------------------------------------------------------------------
\* The places of what is said on any lane.
Places == UNION {1..MaxSaid[l] : l \in Lanes}

Lines == [to : {Reply}, n : Calls] \union [to : Lanes, n : Places]
         \union {Line(Goodbye, 0)}

\* Type correctness; and no channel ever holds more than it was made to hold
\* (remote.go:87, display.go:592).
TypeOK ==
  /\ calls \in 0..MaxCalls
  /\ at \in [Goroutines -> {"idle", "handling", "wants", "awaits", "answers"}]
  /\ call \in [Goroutines -> 0..MaxCalls]
  /\ writeMu \in Goroutines \union {Nobody}
  /\ replies \in Seq(Calls) /\ Len(replies) <= 1
  /\ chan \in [Lanes -> Seq(Places)]
  /\ \A l \in Lanes : Len(chan[l]) <= Room[l]
  /\ hand \in {Nothing} \union [to : Lanes, n : Places]
  /\ got \in [Calls -> 0..MaxCalls]
  /\ lost \subseteq Calls
  /\ handled \in [Lanes -> Seq(Places)]
  /\ up \in Seq(0..MaxCalls)
  /\ down \in Seq(Lines) /\ Len(down) <= SocketRoom
  /\ running \in 0..MaxCalls
  /\ out \in Seq(Lines) /\ Len(out) <= OutRoom
  /\ hung \in {"no", "said", "waits", "done"}
  /\ said \in [Lanes -> {0} \union Places]
  /\ {heard, farewell, appEnd, displayEnd, left, gone, written, spoiled} \subseteq BOOLEAN
  /\ answered \subseteq Calls
  /\ heldBy \in [Lanes -> {0} \union Places]

\* A reply carries nothing that says which batch it answers (Exec, remote.go:237):
\* it is the right one only because one batch at a time is outstanding.  What Exec
\* returns is the answer to what it sent, whoever else was sending.
ReplyIsOwn == \A n \in Calls : got[n] \in {0, n}

\* A handler is given everything the display said on its lane, in order and once,
\* however slow the application was to read (send, display.go:1195: a client too
\* slow loses the connection, never a line out of the middle of it).  Only what
\* was said after the connection was given up may be missing.
InOrder ==
  \A l \in Lanes : \A i \in DOMAIN handled[l] :
    \/ handled[l][i] = i
    \/ /\ gone /\ handled[l][i] > heldBy[l]
       /\ i > 1 => handled[l][i] > handled[l][i - 1]

\* "Whatever was already queued still goes" (writeLoop, display.go:1217; hangUp,
\* :490): an application that reads to the end of a connection the display hung up
\* on unhurriedly has heard its goodbye, and has every reply that was queued.
QueuedStillGoes ==
  heard /\ ~spoiled =>
    /\ farewell
    /\ \A n \in answered : got[n] = n \/ replies = <<n>>

\* "so a handler that executes statements cannot deadlock the reader that must
\* route the reply" (client/remote.go:212, and :230 of answers): the reader never waits
\* for room in a lane whose goroutine waits for what only the reader can bring.
WaitsOnReader(g) ==
  /\ replies = <<>>
  /\ \/ at[g] = "awaits"
     \/ at[g] \in {"wants", "answers"} /\ writeMu # Nobody /\ at[writeMu] = "awaits"

ReaderStaysFree ==
  ~ /\ hand # Nothing
    /\ Len(chan[hand.to]) = Room[hand.to]
    /\ WaitsOnReader(hand.to)

\* Exec returns, with its reply or with an error, whatever becomes of the
\* connection -- unless the reader is caught (remote.go:212 says it cannot be): it
\* waits to hand on one line more than a lane's channel holds, and that lane's
\* handler waits in its Exec for a reply only the reader can route.
EveryCallReturns ==
  \A n \in Calls : calls >= n ~> \/ got[n] # 0 \/ n \in lost
                                 \/ ~ReaderStaysFree

\* When either end closes, everything that served the connection stops: the
\* display's reader and its writer always, the application's reader unless it is
\* caught so, which no closing of the socket ends.
EverybodyLeaves ==
  ~appEnd \/ ~displayEnd ~> left /\ written /\ (heard \/ ~ReaderStaysFree)
=============================================================================
