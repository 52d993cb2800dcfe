------------------------------ MODULE Transport ------------------------------
(***************************************************************************)
(* The goroutines and channels around the hub of flappy-race               *)
(* (internal/server/client.go and the transport half of hub.go): per       *)
(* connection a reader and a writer, one hub goroutine, the bounded event  *)
(* channel from the readers to the hub, and per connection the drop-oldest *)
(* send queue from the hub to the writer.                                  *)
(*                                                                         *)
(* A handler of the hub is what it does to the channels: the sends, closes *)
(* and replies it performs, one select at a time (todo), so that writers   *)
(* and readers run in between. Which joins are refused and which handlers  *)
(* broadcast is left open: RaceHub settles that. A frame is its number in  *)
(* the order the hub queued them to its connection: 1 is the welcome, or   *)
(* the error of a refusal.                                                 *)
(***************************************************************************)
EXTENDS Naturals, FiniteSets, SequencesExt

CONSTANTS
  Conn,         \* the connections ever opened
  EventCap,     \* capacity of Hub.events
  QueueLen,     \* capacity of a send queue
  MaxPlayers,
  MaxTicks      \* bound: how many ticks broadcast

ASSUME CapacityAssumption ==
  /\ {EventCap, QueueLen, MaxPlayers} \subseteq Nat \ {0}
  /\ MaxTicks \in Nat

VARIABLES
  reader,       \* per connection: where readPump is
  reply,        \* per connection: its join's buffered reply channel
  lost,         \* history: whose join or leave was given up on
  events,       \* Hub.events
  hub,          \* "running" | "stopped", once Run has seen ctx.Done
  todo,         \* what the hub still does in the handler it is in
  order,        \* Hub.order: the players, in join order
  ticks,        \* broadcasting ticks so far
  queue,        \* per connection: clientConn.send
  closed,       \* the connections whose send queue is closed
  sent,         \* history: how many frames were queued
  hand,         \* per connection: the frame writePump holds, 0 for none
  written,      \* history: the frames put on the wire
  writer,       \* per connection: where writePump is, or how it returned
  open          \* the connections whose websocket this side has not closed

readers == <<reader, reply, lost>>
hubs    == <<hub, todo, order, ticks>>
queues  == <<queue, closed, sent>>
writers == <<hand, written, writer, open>>
vars    == <<readers, events, hubs, queues, writers>>

Players == Range(order)

-----------------------------------------------------------------------------
(* The reader: submit *)

Event(kind, c) == [kind |-> kind, conn |-> c]

\* Mutant of Submit: an off-by-one admits one event too many.
SubmitOneMore(c, kind, submitted, waiting) ==
  /\ Len(events) <= EventCap
  /\ events' = Append(events, Event(kind, c))
  /\ reader' = [reader EXCEPT ![c] = submitted]
  /\ UNCHANGED <<lost, hubs, queues, writers>>

\* Hub.submit's first select: a full channel drops a flap, makes others wait.
Submit(c, kind, submitted, waiting) ==
  /\ IF Len(events) < EventCap
     THEN /\ events' = Append(events, Event(kind, c))
          /\ reader' = [reader EXCEPT ![c] = submitted]
     ELSE /\ UNCHANGED events
          /\ reader' = [reader EXCEPT ![c] = waiting]
  /\ UNCHANGED <<lost, hubs, queues, writers>>

\* The channel has room again for a reader that waits.
SubmitLate(c) ==
  /\ Len(events) < EventCap
  /\ \/ /\ reader[c] = "joining"
        /\ events' = Append(events, Event("join", c))
        /\ reader' = [reader EXCEPT ![c] = "awaiting"]
     \/ /\ reader[c] = "leaving"
        /\ events' = Append(events, Event("leave", c))
        /\ reader' = [reader EXCEPT ![c] = "stopped"]
  /\ UNCHANGED <<reply, lost, hubs, queues, writers>>

\* Two seconds have passed: submit returns as if the event had been queued.
SubmitTimesOut(c) ==
  /\ Len(events) = EventCap
  /\ reader[c] \in {"joining", "leaving"}
  /\ reader' = [reader EXCEPT ![c] = IF @ = "joining" THEN "awaiting" ELSE "stopped"]
  /\ lost' = lost \cup {c}
  /\ UNCHANGED <<reply, events, hubs, queues, writers>>

-----------------------------------------------------------------------------
(* The reader: readPump *)

ReadJoin(c) ==
  /\ reader[c] = "first" /\ c \in open
  /\ Submit(c, "join", "awaiting", "joining")
  /\ UNCHANGED reply

\* No join in time, a frame that is none, or a broken connection.
ReadNoJoin(c) ==
  /\ reader[c] = "first"
  /\ reader' = [reader EXCEPT ![c] = "ending"]
  /\ UNCHANGED <<reply, lost, events, hubs, queues, writers>>

LearnReply(c) ==
  /\ reader[c] = "awaiting" /\ reply[c] # "none"
  /\ reader' = [reader EXCEPT ![c] = IF reply[c] = "session" THEN "playing" ELSE "ending"]
  /\ UNCHANGED <<reply, lost, events, hubs, queues, writers>>

ReadFlap(c) ==
  /\ reader[c] = "playing" /\ c \in open
  /\ Submit(c, "flap", "playing", "playing")
  /\ UNCHANGED reply

\* The connection breaks, or nothing arrives for pongWait.
ReadFails(c) ==
  /\ reader[c] = "playing"
  /\ reader' = [reader EXCEPT ![c] = "ending"]
  /\ UNCHANGED <<reply, lost, events, hubs, queues, writers>>

\* Mutant of ReaderEnds: the reader returns without telling the hub.
ReaderEndsSilently(c) ==
  /\ reader[c] = "ending"
  /\ reader' = [reader EXCEPT ![c] = "stopped"]
  /\ UNCHANGED <<reply, lost, events, hubs, queues, writers>>

\* readPump's deferred leave.
ReaderEnds(c) ==
  /\ reader[c] = "ending"
  /\ Submit(c, "leave", "stopped", "leaving")
  /\ UNCHANGED reply

-----------------------------------------------------------------------------
(* The hub goroutine *)

Send(c)     == [op |-> "send", conn |-> c]
Close(c)    == [op |-> "close", conn |-> c]
Answer(c)   == [op |-> "session", conn |-> c]
Decline(c)  == [op |-> "refused", conn |-> c]

Broadcast(to) == [i \in DOMAIN to |-> Send(to[i])]

\* A handler that may, but need not, broadcast to the players left.
MaybeBroadcast(to) == {<<>>, Broadcast(to)}

\* Mutant of HasRoom: one player too many.
HasRoomForOneMore == Len(order) <= MaxPlayers

HasRoom == Len(order) < MaxPlayers

Accept(c) ==
  /\ HasRoom
  /\ order' = Append(order, c)
  /\ todo' = <<Send(c)>> \o Broadcast(order') \o <<Answer(c)>>

\* Mutant of Refuse: no reply, only the error frame.
RefuseUnanswered(c) ==
  /\ todo' = <<Send(c), Close(c)>>
  /\ UNCHANGED order

Refuse(c) ==
  /\ todo' = <<Send(c), Close(c), Decline(c)>>
  /\ UNCHANGED order

\* Mutant of HandleLeave: the queue is closed before the last broadcast, which
\* still goes to everyone of the old order.
HandleLeaveClosesFirst(c) ==
  IF c \in Players
  THEN /\ order' = RemoveFirst(order, c)
       /\ todo' = <<Close(c)>> \o Broadcast(order)
  ELSE /\ todo' = <<Close(c)>> /\ UNCHANGED order

\* The leaver's queue is closed last; without a session that is all there is.
HandleLeave(c) ==
  IF reply[c] = "session"
  THEN /\ order' = RemoveFirst(order, c)
       /\ \E frames \in MaybeBroadcast(order') : todo' = frames \o <<Close(c)>>
  ELSE /\ todo' = <<Close(c)>> /\ UNCHANGED order

Dispatch ==
  /\ hub = "running" /\ todo = <<>> /\ events # <<>>
  /\ LET e == Head(events)
     IN \/ e.kind = "join" /\ (Accept(e.conn) \/ Refuse(e.conn))
        \/ e.kind = "flap" /\ UNCHANGED <<todo, order>>
        \/ e.kind = "leave" /\ HandleLeave(e.conn)
  /\ events' = Tail(events)
  /\ UNCHANGED <<readers, hub, ticks, queues, writers>>

Tick ==
  /\ hub = "running" /\ todo = <<>>
  /\ order # <<>> /\ ticks < MaxTicks
  /\ ticks' = ticks + 1
  /\ todo' = Broadcast(order)
  /\ UNCHANGED <<readers, events, hub, order, queues, writers>>

\* Hub.shutdown: every player's queue is closed, and nobody serves the channel.
Shutdown ==
  /\ hub = "running" /\ todo = <<>>
  /\ hub' = "stopped"
  /\ todo' = [i \in DOMAIN order |-> Close(order[i])]
  /\ UNCHANGED <<readers, events, order, ticks, queues, writers>>

\* clientConn.enqueue's outer select: the frame fits, or the oldest must go.
Enqueue(c) ==
  /\ IF Len(queue[c]) < QueueLen
     THEN /\ queue' = [queue EXCEPT ![c] = Append(@, sent[c] + 1)]
          /\ sent' = [sent EXCEPT ![c] = @ + 1]
          /\ todo' = Tail(todo)
     ELSE /\ todo' = <<[op |-> "drop", conn |-> c]>> \o Tail(todo)
          /\ UNCHANGED <<queue, sent>>
  /\ UNCHANGED <<reply, closed>>

\* Mutant of DropOldest: the queue is left to its writer.
DropNothing(c) ==
  /\ todo' = <<Send(c)>> \o Tail(todo)
  /\ UNCHANGED <<queue, reply, closed, sent>>

\* Mutant of DropOldest: the newest queued frame makes room.
DropNewest(c) ==
  /\ queue' = [queue EXCEPT ![c] = IF @ = <<>> THEN @ ELSE Front(@)]
  /\ todo' = <<Send(c)>> \o Tail(todo)
  /\ UNCHANGED <<reply, closed, sent>>

\* The inner select, which the writer may have beaten to the frame, and retry.
DropOldest(c) ==
  /\ queue' = [queue EXCEPT ![c] = IF @ = <<>> THEN @ ELSE Tail(@)]
  /\ todo' = <<Send(c)>> \o Tail(todo)
  /\ UNCHANGED <<reply, closed, sent>>

\* clientConn.close, idempotent.
CloseQueue(c) ==
  /\ closed' = closed \cup {c}
  /\ todo' = Tail(todo)
  /\ UNCHANGED <<queue, reply, sent>>

SendReply(c, r) ==
  /\ reply' = [reply EXCEPT ![c] = r]
  /\ todo' = Tail(todo)
  /\ UNCHANGED queues

Handle ==
  /\ todo # <<>>
  /\ LET now == Head(todo)
     IN \/ now.op = "send" /\ now.conn \notin closed /\ Enqueue(now.conn)
        \/ now.op = "drop" /\ DropOldest(now.conn)
        \/ now.op = "close" /\ CloseQueue(now.conn)
        \/ now.op \in {"session", "refused"} /\ SendReply(now.conn, now.op)
  /\ UNCHANGED <<reader, lost, events, hub, order, ticks, writers>>

-----------------------------------------------------------------------------
(* The writer: writePump *)

TakeFrame(c) ==
  /\ writer[c] = "running" /\ hand[c] = 0 /\ queue[c] # <<>>
  /\ hand' = [hand EXCEPT ![c] = Head(queue[c])]
  /\ queue' = [queue EXCEPT ![c] = Tail(@)]
  /\ UNCHANGED <<readers, events, hubs, closed, sent, written, writer, open>>

WriteFrame(c) ==
  /\ writer[c] = "running" /\ hand[c] # 0
  /\ written' = [written EXCEPT ![c] = Append(@, hand[c])]
  /\ hand' = [hand EXCEPT ![c] = 0]
  /\ UNCHANGED <<readers, events, hubs, queues, writer, open>>

\* Mutant of WriteFails: the socket stays open.
WriteFailsSocketOpen(c) ==
  /\ writer[c] = "running"
  /\ writer' = [writer EXCEPT ![c] = "failed"]
  /\ UNCHANGED <<readers, events, hubs, queues, hand, written, open>>

\* A frame or a ping cannot be written within writeWait.
WriteFails(c) ==
  /\ writer[c] = "running"
  /\ writer' = [writer EXCEPT ![c] = "failed"]
  /\ open' = open \ {c}
  /\ UNCHANGED <<readers, events, hubs, queues, hand, written>>

\* A closed queue is drained first; then the close frame, and the socket goes.
WriterEnds(c) ==
  /\ writer[c] = "running" /\ hand[c] = 0 /\ queue[c] = <<>> /\ c \in closed
  /\ writer' = [writer EXCEPT ![c] = "ended"]
  /\ open' = open \ {c}
  /\ UNCHANGED <<readers, events, hubs, queues, hand, written>>

-----------------------------------------------------------------------------
(* Specification *)

Init ==
  /\ reader = [c \in Conn |-> "first"]
  /\ reply = [c \in Conn |-> "none"]
  /\ lost = {} /\ events = <<>>
  /\ hub = "running" /\ todo = <<>> /\ order = <<>> /\ ticks = 0
  /\ queue = [c \in Conn |-> <<>>]
  /\ closed = {}
  /\ sent = [c \in Conn |-> 0]
  /\ hand = [c \in Conn |-> 0]
  /\ written = [c \in Conn |-> <<>>]
  /\ writer = [c \in Conn |-> "running"]
  /\ open = Conn

Reader(c) ==
  \/ ReadJoin(c) \/ ReadNoJoin(c) \/ LearnReply(c) \/ ReadFlap(c) \/ ReadFails(c)
  \/ ReaderEnds(c) \/ SubmitLate(c) \/ SubmitTimesOut(c)

Writer(c) == TakeFrame(c) \/ WriteFrame(c) \/ WriteFails(c) \/ WriterEnds(c)

Next ==
  \/ \E c \in Conn : Reader(c) \/ Writer(c)
  \/ Dispatch \/ Tick \/ Shutdown \/ Handle

Spec == Init /\ [][Next]_vars

\* Every goroutine that can go on does. A first frame has a deadline, a read on
\* a socket this side has closed fails, and so a reader ends; nobody is obliged
\* to join, flap or break off, no write need fail, and Run need not be cancelled.
ReaderProgress(c) ==
  \/ reader[c] = "first" /\ (ReadJoin(c) \/ ReadNoJoin(c))
  \/ LearnReply(c) \/ ReaderEnds(c) \/ SubmitLate(c) \/ SubmitTimesOut(c)
  \/ c \notin open /\ ReadFails(c)

Fairness ==
  /\ WF_vars(Handle) /\ WF_vars(Dispatch)
  /\ \A c \in Conn : /\ WF_vars(ReaderProgress(c))
                     /\ WF_vars(TakeFrame(c) \/ WriteFrame(c) \/ WriterEnds(c))

FairSpec == Spec /\ Fairness

-----------------------------------------------------------------------------
(* Properties *)

ReaderStates ==
  {"first", "joining", "awaiting", "playing", "ending", "leaving", "stopped"}

\* The channels never hold more than their capacity (hub.go:105, client.go:29), and
\* the hub never more players than its limit.
TypeOK ==
  /\ reader \in [Conn -> ReaderStates]
  /\ reply \in [Conn -> {"none", "session", "refused"}]
  /\ lost \subseteq Conn
  /\ events \in Seq([kind : {"join", "flap", "leave"}, conn : Conn])
  /\ Len(events) <= EventCap
  /\ hub \in {"running", "stopped"}
  /\ todo \in Seq([op : {"send", "drop", "close", "session", "refused"}, conn : Conn])
  /\ order \in Seq(Conn) /\ Len(order) <= MaxPlayers
  /\ ticks \in 0 .. MaxTicks
  /\ queue \in [Conn -> Seq(Nat \ {0})]
  /\ \A c \in Conn : Len(queue[c]) <= QueueLen
  /\ closed \subseteq Conn
  /\ sent \in [Conn -> Nat]
  /\ hand \in [Conn -> Nat]
  /\ written \in [Conn -> Seq(Nat)]
  /\ writer \in [Conn -> {"running", "failed", "ended"}]
  /\ open \subseteq Conn

\* No handler is about to send to a queue that is closed, where Go panics.
NoSendOnClosed == todo # <<>> /\ Head(todo).op = "send" => Head(todo).conn \notin closed

\* The hub is in the middle of replacing a frame of c.
Replacing(c) == todo # <<>> /\ Head(todo).conn = c /\ Head(todo).op \in {"send", "drop"}

\* A send queue holds the newest frames without a gap, and the newest frame of
\* all is queued, held or written: dropping the oldest never loses the newest.
NewestKept ==
  \A c \in Conn :
    /\ \A i \in DOMAIN queue[c] : queue[c][i] = sent[c] - Len(queue[c]) + i
    /\ (sent[c] > 0 /\ ~Replacing(c))
         => sent[c] \in Range(queue[c]) \cup {hand[c]} \cup Range(written[c])

\* The wire shows a connection its frames in order and none of them twice.
WrittenInOrder ==
  \A c \in Conn :
    \A i, j \in DOMAIN written[c] : i < j => written[c][i] < written[c][j]

\* What the hub and the readers believe of each other: a player's reader is in
\* its session, or has a reply or a leave on its way, or its leave was lost;
\* and whoever reads as a player is one, until the server stops.
LeaveQueued(c) == Event("leave", c) \in Range(events)
Pending(c)     == \E op \in Range(todo) : op = Answer(c)

SessionsAgree ==
  \A c \in Conn :
    /\ c \in Players => /\ reply[c] = "session" \/ Pending(c)
                        /\ reader[c] = "stopped" => LeaveQueued(c) \/ c \in lost
    /\ reader[c] = "playing" => c \in Players

\* A clean end flushes: when a writer ends because its queue was closed, the last
\* frame the hub queued is on the wire, so a refused client learns why.
ClosedAfterFlush ==
  \A c \in Conn : writer[c] = "ended" /\ sent[c] > 0
                    => written[c] # <<>> /\ Last(written[c]) = sent[c]

\* The way of a frame from the hub to the wire: the newest is never the one that is
\* lost, none overtakes another, and a clean end leaves none behind (clientConn.send,
\* writePump).
FramesDelivered == NewestKept /\ WrittenInOrder /\ ClosedAfterFlush

\* The hub is never held up by a client that does not read: whatever it does in
\* a handler comes to an end, without any help from a writer that has stopped.
HubNeverStalls == todo # <<>> ~> todo = <<>>

\* A reader that waits for its join's reply gets it, unless the join was lost
\* or the server stopped.
JoinAnswered ==
  \A c \in Conn :
    reader[c] = "awaiting" ~> reader[c] # "awaiting" \/ c \in lost \/ hub = "stopped"

\* When either half of a connection ends the other does too and the hub forgets
\* the player, unless an event of it was lost or the server stopped.
BothHalvesEnd ==
  \A c \in Conn :
    (reader[c] = "stopped" \/ writer[c] # "running")
      ~> \/ reader[c] = "stopped" /\ writer[c] # "running" /\ c \notin Players
         \/ c \in lost \/ hub = "stopped"

\* What the hub takes a connection for, once its handler has settled it.
Life ==
  [c \in Conn |->
     IF c \in closed \/ (c \notin Players /\ Close(c) \in Range(todo)) THEN "over"
     ELSE IF c \in Players THEN "playing" ELSE "connected"]

C == INSTANCE Connections WITH life <- Life

\* The hub's side of a connection's life is the one Connections promises, whatever
\* the goroutines do and whichever events are lost.
ImplementsConnections == C!Spec

-----------------------------------------------------------------------------
(* What the documentation says and the code does not do *)

\* hub.go:174-175: joins and leaves must not be lost, so a player whose reader
\* has ended is about to leave.
NoGhosts == \A c \in Players : reader[c] = "stopped" => LeaveQueued(c)
=============================================================================
