-------------------------- MODULE Transport_proofs --------------------------
(***************************************************************************)
(* The transport is right for any number of connections, players, events,  *)
(* frames and any capacity of the channels: no send on a closed queue, the *)
(* registry and the readers agree, the newest frame is never the one that  *)
(* is lost, and the hub's side of a connection's life is the one that      *)
(* Connections promises.                                                   *)
(***************************************************************************)
EXTENDS Transport, OrderLemmas, FiniteSetTheorems, TLAPS

(***************************************************************************)
(* The inductive invariant.                                                *)
(***************************************************************************)

\* The hub has not yet seen the join of c, nor will it ever see two of them.
Fresh(c) ==
  \/ reader[c] \in {"first", "joining"}
  \/ \E i \in 1 .. Len(events) : events[i] = Event("join", c)

\* A join on its way has its reader wait for the reply, a leave is the last thing its
\* reader did, and of each there is one.
EventInv ==
  /\ \A i \in 1 .. Len(events) :
       /\ events[i].kind = "join" => reader[events[i].conn] = "awaiting"
       /\ events[i].kind = "leave" => reader[events[i].conn] = "stopped"
  /\ \A i, j \in 1 .. Len(events) :
       events[i] = events[j] /\ events[i].kind # "flap" => i = j

\* What a handler still has to do: nothing about connections yet to join, no frame for a
\* queue that is closed or will be before, the answer last, and only closing after the end.
TodoInv ==
  /\ hub = "running" =>
       /\ \A c \in Conn : Fresh(c) =>
            c \notin closed /\ \A i \in 1 .. Len(todo) : todo[i].conn # c
       /\ \A c \in Players :
            c \notin closed /\ \A i \in 1 .. Len(todo) : todo[i] # Close(c)
  /\ hub = "stopped" => \A i \in 1 .. Len(todo) : todo[i].op = "close"
  /\ \A i \in 1 .. Len(todo) :
       /\ todo[i].op \in {"send", "drop"} =>
            /\ todo[i].conn \notin closed
            /\ \A j \in 1 .. i - 1 : todo[j] # Close(todo[i].conn)
       /\ todo[i].op \in {"session", "refused"} =>
            i = Len(todo) /\ reader[todo[i].conn] = "awaiting" /\ reply[todo[i].conn] = "none"

Answering(c) == \E i \in 1 .. Len(todo) : todo[i] = Answer(c)
Leaving(c) == \E i \in 1 .. Len(events) : events[i] = Event("leave", c)

\* The registry against the replies: a session is a player until its leave is handled.
PlayerInv ==
  /\ IsInjective(order)
  /\ \A c \in Conn :
       /\ Fresh(c) => reply[c] = "none" /\ c \notin Players
       /\ c \in Players => reply[c] = "session" \/ Answering(c)
       /\ (reply[c] = "session" \/ Answering(c)) /\ (reader[c] = "stopped" => Leaving(c))
            => c \in Players
       /\ (\E i \in 1 .. Len(todo) : todo[i] = Decline(c)) => c \notin Players
       /\ reader[c] = "playing" => reply[c] = "session"
       /\ c \in Players /\ reader[c] = "stopped" => Leaving(c) \/ c \in lost

\* The frames of a connection in the order queue, hand, wire, newest to oldest.
Ordered(q, n, h, w) ==
  /\ Len(q) <= n
  /\ \A i \in 1 .. Len(q) : q[i] = n - Len(q) + i
  /\ h <= n - Len(q)
  /\ \A i \in 1 .. Len(w) :
       /\ w[i] <= n - Len(q)
       /\ h # 0 => w[i] < h
       /\ \A j \in 1 .. i - 1 : w[j] < w[i]

Written(n, w) == n > 0 => w # <<>> /\ w[Len(w)] = n

Frames(c) ==
  /\ Ordered(queue[c], sent[c], hand[c], written[c])
  /\ ~Replacing(c) /\ queue[c] = <<>> /\ hand[c] # sent[c] => Written(sent[c], written[c])
  /\ writer[c] = "ended" => c \in closed /\ Written(sent[c], written[c])

FrameInv == \A c \in Conn : Frames(c)

IInv == TypeOK /\ EventInv /\ TodoInv /\ PlayerInv /\ FrameInv

Events == [kind : {"join", "flap", "leave"}, conn : Conn]
Todos  == [op : {"send", "drop", "close", "session", "refused"}, conn : Conn]

(***************************************************************************)
(* What the steps do.                                                      *)
(***************************************************************************)

\* A reader's step: where it goes, and the event it sends, if it sends one.
Moves(c) ==
  \E to \in ReaderStates :
    /\ reader' = [reader EXCEPT ![c] = to] /\ reader[c] # "stopped"
    /\ lost \subseteq lost' /\ lost' \subseteq Conn
    /\ \/ \E kind \in {"join", "flap", "leave"} :
            /\ Len(events) < EventCap /\ events' = Append(events, Event(kind, c))
            /\ kind = "join" => reader[c] \in {"first", "joining"} /\ to = "awaiting"
            /\ kind = "flap" => reader[c] = "playing" /\ to = "playing"
            /\ kind = "leave" => reader[c] \in {"ending", "leaving"} /\ to = "stopped"
       \/ /\ events' = events
          /\ to = "first" => reader[c] = "first"
          /\ to = "joining" => reader[c] = "first"
          /\ to = "awaiting" => reader[c] = "joining"
          /\ to = "playing" => reader[c] = "playing" \/ reply[c] = "session"
          /\ to = "stopped" => c \in lost'
          /\ reader[c] = "awaiting" => reply[c] # "none"

\* Every action of a reader is such a move and leaves hub and writers alone (readPump, submit).
LEMMA ReaderMoves ==
  ASSUME TypeOK, NEW c \in Conn, Reader(c)
  PROVE  Moves(c) /\ UNCHANGED <<reply, hubs, queues, writers>>
<1>1. reader[c] \in ReaderStates /\ reply[c] \in {"none", "session", "refused"}
      /\ reader \in [Conn -> ReaderStates] /\ lost \subseteq Conn
  BY DEF TypeOK
<1>2. CASE ReadJoin(c)
  BY <1>1, <1>2 DEF ReadJoin, Submit, Moves, ReaderStates
<1>3. CASE ReadNoJoin(c)
  BY <1>1, <1>3 DEF ReadNoJoin, Moves, ReaderStates, readers
<1>4. CASE LearnReply(c)
  BY <1>1, <1>4 DEF LearnReply, Moves, ReaderStates
<1>5. CASE ReadFlap(c)
  BY <1>1, <1>5 DEF ReadFlap, Submit, Moves, ReaderStates
<1>6. CASE ReadFails(c)
  BY <1>1, <1>6 DEF ReadFails, Moves, ReaderStates
<1>7. CASE ReaderEnds(c)
  BY <1>1, <1>7 DEF ReaderEnds, Submit, Moves, ReaderStates
<1>8. CASE SubmitLate(c)
  BY <1>1, <1>8 DEF SubmitLate, Moves, ReaderStates
<1>9. CASE SubmitTimesOut(c)
  BY <1>1, <1>9 DEF SubmitTimesOut, Moves, ReaderStates
<1>. QED BY <1>2, <1>3, <1>4, <1>5, <1>6, <1>7, <1>8, <1>9 DEF Reader

\* One step of a handler: it is done with the first operation, or is about to drop or
\* send again for the same connection.
Sends(now) ==
  /\ now.op = "send" /\ now.conn \notin closed /\ Len(queue[now.conn]) < QueueLen
  /\ queue' = [queue EXCEPT ![now.conn] = Append(@, sent[now.conn] + 1)]
  /\ sent' = [sent EXCEPT ![now.conn] = @ + 1]
  /\ UNCHANGED <<reply, closed>>

Closes(now) ==
  now.op = "close" /\ closed' = closed \cup {now.conn} /\ UNCHANGED <<queue, sent, reply>>

Replies(now) ==
  /\ now.op \in {"session", "refused"} /\ reply' = [reply EXCEPT ![now.conn] = now.op]
  /\ UNCHANGED <<queue, sent, closed>>

IsFull(now) == now.op = "send" /\ UNCHANGED <<queue, sent, reply, closed>>

Drops(now) ==
  /\ now.op = "drop" /\ queue' = [queue EXCEPT ![now.conn] = IF @ = <<>> THEN @ ELSE Tail(@)]
  /\ UNCHANGED <<sent, reply, closed>>

Done(now) ==
  /\ Len(todo') = Len(todo) - 1
  /\ \A i \in 1 .. Len(todo) - 1 : todo'[i] = todo[i + 1]
  /\ Sends(now) \/ Closes(now) \/ Replies(now)

Retries(now) ==
  /\ Len(todo') = Len(todo)
  /\ todo'[1].op \in {"send", "drop"} /\ todo'[1].conn = now.conn
  /\ \A i \in 2 .. Len(todo) : todo'[i] = todo[i]
  /\ IsFull(now) \/ Drops(now)

\* A step of a handler is done with the first operation or tries it again (enqueue's loop).
LEMMA HandleShape ==
  ASSUME TypeOK, Handle
  PROVE  /\ Len(todo) \in Nat \ {0} /\ todo[1] \in Todos /\ todo' \in Seq(Todos)
         /\ Done(todo[1]) \/ Retries(todo[1])
         /\ UNCHANGED <<reader, lost, events, hub, order, ticks, writers>>
<1>1. todo \in Seq(Todos) /\ todo # <<>>
  BY DEF TypeOK, Handle, Todos
<1>2. /\ Tail(todo) \in Seq(Todos) /\ Len(Tail(todo)) = Len(todo) - 1
      /\ Len(todo) \in Nat \ {0} /\ Head(todo) = todo[1] /\ todo[1] \in Todos
      /\ \A i \in 1 .. Len(todo) - 1 : Tail(todo)[i] = todo[i + 1]
  BY <1>1, TailShifts, Zenon
<1> DEFINE c == todo[1].conn
<1>3. c \in Conn /\ Send(c) \in Todos /\ [op |-> "drop", conn |-> c] \in Todos
  BY <1>2 DEF Todos, Send
<1>4. CASE todo[1].op = "send" /\ c \notin closed /\ Enqueue(c)
  <2>1. CASE Len(queue[c]) < QueueLen
    BY <1>2, <1>4, <2>1 DEF Enqueue, Sends, Done, Handle
  <2>2. CASE ~(Len(queue[c]) < QueueLen)
    <3>1. todo' = <<[op |-> "drop", conn |-> c]>> \o Tail(todo)
      BY <1>4, <2>2 DEF Enqueue
    <3>2. /\ todo' \in Seq(Todos) /\ Len(todo') = Len(todo)
          /\ todo'[1] = [op |-> "drop", conn |-> c]
          /\ \A i \in 2 .. Len(todo) : todo'[i] = todo[i]
      BY <1>1, <1>3, <3>1, HeadReplaced
    <3>3. UNCHANGED <<queue, sent, reply, closed>>
      BY <1>4, <2>2 DEF Enqueue
    <3>4. Retries(todo[1])
      BY <1>4, <3>2, <3>3 DEF Retries, IsFull
    <3>. QED BY <1>2, <3>2, <3>4 DEF Handle
  <2>. QED BY <2>1, <2>2
<1>5. CASE todo[1].op = "drop" /\ DropOldest(c)
  <2>1. todo' = <<Send(c)>> \o Tail(todo)
    BY <1>5 DEF DropOldest
  <2>2. /\ todo' \in Seq(Todos) /\ Len(todo') = Len(todo) /\ todo'[1] = Send(c)
        /\ \A i \in 2 .. Len(todo) : todo'[i] = todo[i]
    BY <1>1, <1>3, <2>1, HeadReplaced
  <2>. QED BY <1>2, <1>5, <2>2 DEF DropOldest, Retries, Drops, Handle, Send
<1>6. CASE todo[1].op = "close" /\ CloseQueue(c)
  BY <1>2, <1>6 DEF CloseQueue, Closes, Done, Handle
<1>7. CASE todo[1].op \in {"session", "refused"} /\ SendReply(c, todo[1].op)
  BY <1>2, <1>7 DEF SendReply, Replies, Done, Handle, queues
<1>. QED BY <1>2, <1>4, <1>5, <1>6, <1>7 DEF Handle
(***************************************************************************)
(* Types.                                                                  *)
(***************************************************************************)

\* What a broadcast has the hub do.
LEMMA BroadcastOps ==
  ASSUME NEW to \in Seq(Conn)
  PROVE  /\ Broadcast(to) \in Seq(Todos) /\ Len(Broadcast(to)) = Len(to)
         /\ \A i \in 1 .. Len(to) : Broadcast(to)[i] = Send(to[i]) /\ to[i] \in Range(to)
<1>1. DOMAIN to = 1 .. Len(to) /\ Len(to) \in Nat /\ \A i \in 1 .. Len(to) : to[i] \in Conn
  OBVIOUS
<1>2. \A i \in 1 .. Len(to) : Send(to[i]) \in Todos /\ to[i] \in Range(to)
  BY <1>1 DEF Send, Todos, Range
<1>3. Broadcast(to) = [i \in 1 .. Len(to) |-> Send(to[i])]
  BY <1>1 DEF Broadcast
<1> DEFINE op(i) == Send(to[i])
<1> HIDE DEF op
<1>4. [i \in 1 .. Len(to) |-> op(i)] \in Seq(Todos)
  BY <1>1, <1>2 DEF op
<1>. QED BY <1>1, <1>2, <1>3, <1>4 DEF op

\* What the shutdown has the hub do.
LEMMA ClosingOps ==
  ASSUME NEW to \in Seq(Conn)
  PROVE  LET ops == [i \in DOMAIN to |-> Close(to[i])]
         IN  /\ ops \in Seq(Todos) /\ Len(ops) = Len(to)
             /\ \A i \in 1 .. Len(to) : ops[i].op = "close" /\ ops[i].conn \in Range(to)
<1>1. DOMAIN to = 1 .. Len(to) /\ Len(to) \in Nat /\ \A i \in 1 .. Len(to) : to[i] \in Conn
  OBVIOUS
<1>2. \A i \in 1 .. Len(to) : /\ Close(to[i]) \in Todos /\ to[i] \in Range(to)
                              /\ Close(to[i]).op = "close" /\ Close(to[i]).conn = to[i]
  BY <1>1 DEF Close, Todos, Range
<1> DEFINE op(i) == Close(to[i])
<1> HIDE DEF op
<1>3. [i \in 1 .. Len(to) |-> op(i)] \in Seq(Todos)
  BY <1>1, <1>2 DEF op
<1>. QED BY <1>1, <1>2, <1>3 DEF op

\* What serving an event comes to: a player more, a refusal, a player less, or nothing.
Accepts(c) ==
  /\ HasRoom /\ order' = Append(order, c)
  /\ Len(todo') = Len(order) + 3
  /\ todo'[1] = Send(c) /\ todo'[Len(order) + 3] = Answer(c)
  /\ \A i \in 1 .. Len(order) + 1 : todo'[i + 1] = Send(order'[i])

Leaves(c) ==
  /\ reply[c] = "session" /\ order' = RemoveFirst(order, c)
  /\ \/ todo' = <<Close(c)>>
     \/ /\ Len(todo') = Len(order') + 1 /\ todo'[Len(order') + 1] = Close(c)
        /\ \A i \in 1 .. Len(order') : todo'[i] = Send(order'[i])

Serves(e) ==
  \/ e.kind = "join" /\ Accepts(e.conn)
  \/ e.kind = "join" /\ Refuse(e.conn)
  \/ e.kind = "flap" /\ UNCHANGED <<todo, order>>
  \/ e.kind = "leave" /\ Leaves(e.conn)
  \/ /\ e.kind = "leave" /\ reply[e.conn] # "session"
     /\ todo' = <<Close(e.conn)>> /\ UNCHANGED order

\* Taking a connection out of the join order, whether or not it is in there.
LEMMA RemoveFirstKeeps ==
  ASSUME NEW s \in Seq(Conn), IsInjective(s), NEW c \in Conn
  PROVE  /\ RemoveFirst(s, c) \in Seq(Conn) /\ Len(RemoveFirst(s, c)) <= Len(s)
         /\ IsInjective(RemoveFirst(s, c))
         /\ Range(RemoveFirst(s, c)) = Range(s) \ {c}
<1>1. CASE c \in Range(s)
  BY <1>1, RemoveFirstOnce
<1>2. CASE c \notin Range(s)
  <2>1. ~ \E i \in 1 .. Len(s) : s[i] = c
    BY <1>2 DEF Range
  <2>2. RemoveFirst(s, c) = s
    BY <2>1 DEF RemoveFirst
  <2>. QED BY <1>2, <2>2
<1>. QED BY <1>1, <1>2

\* Serving the oldest event takes it off the channel and comes to one of the five outcomes.
LEMMA DispatchShape ==
  ASSUME TypeOK, IsInjective(order), Dispatch
  PROVE  /\ hub = "running" /\ todo = <<>> /\ Len(events) \in Nat \ {0} /\ events[1] \in Events
         /\ events' \in Seq(Events) /\ Len(events') = Len(events) - 1
         /\ \A i \in 1 .. Len(events) - 1 : events'[i] = events[i + 1]
         /\ Serves(events[1])
         /\ todo' \in Seq(Todos) /\ order' \in Seq(Conn) /\ Len(order') <= MaxPlayers
         /\ UNCHANGED <<readers, hub, ticks, queues, writers>>
<1>1. /\ events \in Seq(Events) /\ order \in Seq(Conn) /\ Len(order) <= MaxPlayers
      /\ MaxPlayers \in Nat
  BY CapacityAssumption DEF TypeOK, Events
<1>2. /\ Tail(events) \in Seq(Events) /\ Len(Tail(events)) = Len(events) - 1
      /\ Len(events) \in Nat \ {0} /\ Head(events) = events[1] /\ events[1] \in Events
      /\ \A i \in 1 .. Len(events) - 1 : Tail(events)[i] = events[i + 1]
  BY <1>1, TailShifts, Zenon DEF Dispatch
<1> DEFINE c == events[1].conn
<1>3. c \in Conn /\ \A o \in {Send(c), Close(c), Answer(c), Decline(c)} : o \in Todos
  BY <1>2 DEF Events, Todos, Send, Close, Answer, Decline
<1>4. CASE events[1].kind = "join" /\ Accept(c)
  <2>1. order' = Append(order, c) /\ order' \in Seq(Conn) /\ Len(order') = Len(order) + 1
    BY <1>1, <1>3, <1>4 DEF Accept
  <2>2. Len(order') <= MaxPlayers
    BY <1>1, <1>4, <2>1 DEF Accept, HasRoom
  <2> DEFINE b == Broadcast(order')
  <2>3. /\ b \in Seq(Todos) /\ Len(b) = Len(order) + 1
        /\ \A i \in 1 .. Len(order) + 1 : b[i] = Send(order'[i])
    BY <2>1, BroadcastOps
  <2>4. todo' = <<Send(c)>> \o b \o <<Answer(c)>>
    BY <1>4 DEF Accept
  <2> HIDE DEF b
  <2>5. /\ todo' \in Seq(Todos) /\ Len(todo') = Len(order) + 3
        /\ todo'[1] = Send(c) /\ todo'[Len(order) + 3] = Answer(c)
        /\ \A i \in 1 .. Len(order) + 1 : todo'[i + 1] = b[i]
    BY <1>1, <1>3, <2>3, <2>4
  <2>6. Accepts(c)
    BY <1>4, <2>1, <2>3, <2>5 DEF Accepts, Accept
  <2>. QED BY <1>2, <1>4, <2>1, <2>2, <2>5, <2>6 DEF Dispatch, Serves
<1>5. CASE events[1].kind = "join" /\ Refuse(c)
  <2>1. todo' \in Seq(Todos)
    <3> HIDE DEF c
    <3>1. todo' = <<Send(c), Close(c), Decline(c)>>
      BY <1>5 DEF Refuse
    <3>. QED BY <1>3, <3>1
  <2>. QED BY <1>1, <1>2, <1>5, <2>1 DEF Dispatch, Serves, Refuse
<1>6. CASE events[1].kind = "flap" /\ UNCHANGED <<todo, order>>
  BY <1>1, <1>2, <1>6 DEF Dispatch, Serves, TypeOK, Todos
<1>7. CASE events[1].kind = "leave" /\ HandleLeave(c)
  <2>1. CASE reply[c] = "session"
    <3>1. order' = RemoveFirst(order, c)
      BY <1>7, <2>1 DEF HandleLeave
    <3>2. order' \in Seq(Conn) /\ Len(order') <= MaxPlayers
      BY <1>1, <1>3, <3>1, RemoveFirstKeeps
    <3> DEFINE b == Broadcast(order')
    <3>3. /\ b \in Seq(Todos) /\ Len(b) = Len(order')
          /\ \A i \in 1 .. Len(order') : b[i] = Send(order'[i])
      BY <3>2, BroadcastOps
    <3>4. PICK frames \in {<<>>, b} : todo' = frames \o <<Close(c)>>
      BY <1>7, <2>1 DEF HandleLeave, MaybeBroadcast
    <3> HIDE DEF b
    <3>5. todo' \in Seq(Todos)
      <4>1. Close(c) \in Todos
        BY <1>3
      <4>2. frames \in Seq(Todos)
        <5>1. <<>> \in Seq(Todos)
          OBVIOUS
        <5>. QED BY <3>3, <3>4, <5>1
      <4>. QED BY <3>4, <4>1, <4>2
    <3>6. Leaves(c)
      <4>1. CASE frames = <<>>
        BY <2>1, <3>1, <3>4, <4>1 DEF Leaves
      <4>2. CASE frames = b
        <5>1. /\ Len(todo') = Len(order') + 1 /\ todo'[Len(order') + 1] = Close(c)
              /\ \A i \in 1 .. Len(order') : todo'[i] = Send(order'[i])
          BY <1>3, <3>2, <3>3, <3>4, <4>2
        <5>. QED BY <2>1, <3>1, <5>1 DEF Leaves
      <4>. QED BY <4>1, <4>2
    <3>. QED BY <1>2, <1>7, <3>2, <3>5, <3>6 DEF Dispatch, Serves
  <2>2. CASE reply[c] # "session"
    <3>1. todo' = <<Close(c)>> /\ UNCHANGED order
      BY <1>7, <2>2 DEF HandleLeave
    <3>. QED BY <1>1, <1>2, <1>3, <1>7, <2>2, <3>1 DEF Dispatch, Serves
  <2>. QED BY <2>1, <2>2
<1>. QED BY <1>2, <1>4, <1>5, <1>6, <1>7 DEF Dispatch

\* The capacities are numbers (hub.go's and client.go's make(chan ...)).
LEMMA Capacities ==
  /\ EventCap \in Nat /\ EventCap > 0 /\ QueueLen \in Nat /\ QueueLen > 0
  /\ MaxPlayers \in Nat /\ MaxTicks \in Nat
BY CapacityAssumption

\* Every step keeps the types, and no channel ever holds more than its capacity.
LEMMA TypeNext ==
  ASSUME TypeOK, IsInjective(order), [Next]_vars
  PROVE  TypeOK'
<1> USE Capacities
<1>0. /\ reader \in [Conn -> ReaderStates] /\ reply \in [Conn -> {"none", "session", "refused"}]
      /\ events \in Seq(Events) /\ todo \in Seq(Todos) /\ order \in Seq(Conn)
      /\ queue \in [Conn -> Seq(Nat \ {0})] /\ sent \in [Conn -> Nat] /\ hand \in [Conn -> Nat]
      /\ written \in [Conn -> Seq(Nat)] /\ closed \subseteq Conn
      /\ \A c \in Conn : Len(queue[c]) <= QueueLen
  BY DEF TypeOK, Events, Todos
<1>1. ASSUME NEW c \in Conn, Reader(c) PROVE TypeOK'
  <2>1. Moves(c) /\ UNCHANGED <<reply, hubs, queues, writers>>
    BY <1>1, ReaderMoves
  <2>2. events' \in Seq(Events) /\ Len(events') <= EventCap
    <3>1. CASE events' = events
      BY <3>1 DEF TypeOK, Events
    <3>2. CASE \E kind \in {"join", "flap", "leave"} :
                  Len(events) < EventCap /\ events' = Append(events, Event(kind, c))
      <4>1. PICK kind \in {"join", "flap", "leave"} :
              Len(events) < EventCap /\ events' = Append(events, Event(kind, c))
        BY <3>2
      <4>2. Event(kind, c) \in Events
        BY DEF Event, Events
      <4>. QED BY <1>0, <4>1, <4>2
    <3>. QED BY <2>1, <3>1, <3>2 DEF Moves
  <2>3. reader' \in [Conn -> ReaderStates] /\ lost' \subseteq Conn
    BY <1>0, <2>1 DEF Moves
  <2>. QED BY <2>1, <2>2, <2>3 DEF TypeOK, Events, hubs, queues, writers
<1>2. ASSUME NEW c \in Conn, Writer(c) PROVE TypeOK'
  <2>1. UNCHANGED <<readers, events, hubs, closed, sent>>
    BY <1>2 DEF Writer, TakeFrame, WriteFrame, WriteFails, WriterEnds, queues
  <2>2. /\ queue' \in [Conn -> Seq(Nat \ {0})] /\ \A d \in Conn : Len(queue'[d]) <= QueueLen
        /\ hand' \in [Conn -> Nat] /\ written' \in [Conn -> Seq(Nat)]
        /\ writer' \in [Conn -> {"running", "failed", "ended"}] /\ open' \subseteq Conn
    <3>1. CASE TakeFrame(c)
      <4>1. /\ queue[c] \in Seq(Nat \ {0}) /\ queue[c] # <<>>
        BY <1>0, <3>1 DEF TakeFrame
      <4>2. Tail(queue[c]) \in Seq(Nat \ {0}) /\ Len(Tail(queue[c])) <= QueueLen /\ Head(queue[c]) \in Nat
        BY <1>0, <4>1
      <4>. QED BY <1>0, <3>1, <4>2 DEF TakeFrame, TypeOK
    <3>2. CASE WriteFrame(c)
      BY <1>0, <3>2 DEF WriteFrame, TypeOK, queues
    <3>3. CASE WriteFails(c)
      BY <1>0, <3>3 DEF WriteFails, TypeOK, queues
    <3>4. CASE WriterEnds(c)
      BY <1>0, <3>4 DEF WriterEnds, TypeOK, queues
    <3>. QED BY <1>2, <3>1, <3>2, <3>3, <3>4 DEF Writer
  <2>. QED BY <2>1, <2>2 DEF TypeOK, readers, hubs
<1>3. CASE Dispatch
  <2>1. /\ events' \in Seq(Events) /\ Len(events') <= EventCap
        /\ todo' \in Seq(Todos) /\ order' \in Seq(Conn) /\ Len(order') <= MaxPlayers
        /\ UNCHANGED <<readers, hub, ticks, queues, writers>>
    BY <1>3, DispatchShape DEF TypeOK
  <2>. QED BY <2>1 DEF TypeOK, Events, Todos, readers, queues, writers
<1>4. CASE Tick
  <2>1. todo' \in Seq(Todos) /\ ticks' \in 0 .. MaxTicks
    BY <1>0, <1>4, BroadcastOps DEF Tick, TypeOK
  <2>. QED BY <1>4, <2>1 DEF Tick, TypeOK, Todos, readers, queues, writers
<1>5. CASE Shutdown
  <2>1. todo' \in Seq(Todos)
    BY <1>0, <1>5, ClosingOps DEF Shutdown
  <2>. QED BY <1>5, <2>1 DEF Shutdown, TypeOK, Todos, readers, queues, writers
<1>6. CASE Handle
  <2>1. /\ todo[1] \in Todos /\ todo' \in Seq(Todos)
        /\ Done(todo[1]) \/ Retries(todo[1])
        /\ UNCHANGED <<reader, lost, events, hub, order, ticks, writers>>
    BY <1>6, HandleShape
  <2> DEFINE now == todo[1]
  <2>2. now.conn \in Conn
    <3>1. now \in Todos
      BY <2>1
    <3>. HIDE DEF now
    <3>. QED BY <3>1 DEF Todos
  <2>3. /\ queue' \in [Conn -> Seq(Nat \ {0})] /\ \A d \in Conn : Len(queue'[d]) <= QueueLen
        /\ sent' \in [Conn -> Nat] /\ reply' \in [Conn -> {"none", "session", "refused"}]
        /\ closed' \subseteq Conn
    <3>. HIDE DEF now
    <3>1. CASE Sends(now)
      <4>1. sent[now.conn] + 1 \in Nat \ {0} /\ queue[now.conn] \in Seq(Nat \ {0})
        BY <1>0, <2>2
      <4>2. /\ Append(queue[now.conn], sent[now.conn] + 1) \in Seq(Nat \ {0})
            /\ Len(Append(queue[now.conn], sent[now.conn] + 1)) <= QueueLen
        BY <3>1, <4>1 DEF Sends
      <4>. QED BY <1>0, <2>2, <3>1, <4>1, <4>2 DEF Sends
    <3>2. CASE Closes(now)
      BY <1>0, <2>2, <3>2 DEF Closes
    <3>3. CASE Replies(now)
      BY <1>0, <2>2, <3>3 DEF Replies
    <3>4. CASE IsFull(now)
      BY <1>0, <3>4 DEF IsFull
    <3>5. CASE Drops(now)
      <4>1. \A q \in Seq(Nat \ {0}) : q # <<>> => Tail(q) \in Seq(Nat \ {0}) /\ Len(Tail(q)) <= Len(q)
        OBVIOUS
      <4>. QED BY <1>0, <2>2, <3>5, <4>1 DEF Drops
    <3>. QED BY <2>1, <3>1, <3>2, <3>3, <3>4, <3>5 DEF now, Done, Retries
  <2>. QED BY <2>1, <2>3 DEF TypeOK, Events, Todos, writers
<1>7. CASE UNCHANGED vars
  <2>1. /\ UNCHANGED <<reader, reply, lost, events, hub, todo, order, ticks>>
        /\ UNCHANGED <<queue, closed, sent, hand, written, writer, open>>
    BY <1>7 DEF vars, readers, hubs, queues, writers
  <2>. QED BY <2>1, Zenon DEF TypeOK
<1>. QED BY <1>1, <1>2, <1>3, <1>4, <1>5, <1>6, <1>7 DEF Next

(***************************************************************************)
(* Events and operations of the hub.                                       *)
(***************************************************************************)

Agree == EventInv /\ TodoInv /\ PlayerInv

\* Operations and events are determined by what they are and whom they concern.
LEMMA Records ==
  /\ \A o \in Todos : /\ o.conn \in Conn
                      /\ o.op = "close" <=> o = Close(o.conn)
                      /\ o.op = "session" <=> o = Answer(o.conn)
                      /\ o.op = "refused" <=> o = Decline(o.conn)
  /\ \A c \in Conn : /\ Send(c).op = "send" /\ Send(c).conn = c
                     /\ Close(c).op = "close" /\ Close(c).conn = c
                     /\ Answer(c).op = "session" /\ Answer(c).conn = c
                     /\ Decline(c).op = "refused" /\ Decline(c).conn = c
  /\ \A e \in Events : e.conn \in Conn /\ e = Event(e.kind, e.conn)
  /\ \A c \in Conn, k \in {"join", "flap", "leave"} :
        Event(k, c) \in Events /\ Event(k, c).kind = k /\ Event(k, c).conn = c
<1>1. \A o \in Todos : /\ o.conn \in Conn
                       /\ o.op = "close" <=> o = Close(o.conn)
                       /\ o.op = "session" <=> o = Answer(o.conn)
                       /\ o.op = "refused" <=> o = Decline(o.conn)
  BY DEF Todos, Close, Answer, Decline
<1>2. \A c \in Conn : /\ Send(c).op = "send" /\ Send(c).conn = c
                      /\ Close(c).op = "close" /\ Close(c).conn = c
                      /\ Answer(c).op = "session" /\ Answer(c).conn = c
                      /\ Decline(c).op = "refused" /\ Decline(c).conn = c
  BY DEF Send, Close, Answer, Decline
<1>3. /\ \A e \in Events : e.conn \in Conn /\ e = Event(e.kind, e.conn)
      /\ \A c \in Conn, k \in {"join", "flap", "leave"} :
            Event(k, c) \in Events /\ Event(k, c).kind = k /\ Event(k, c).conn = c
  BY DEF Events, Event
<1>. QED BY <1>1, <1>2, <1>3

\* A reader's step concerns its own connection: nobody comes to be fresh by it, and no
\* event on its way is disturbed.
LEMMA ReaderEvents ==
  ASSUME TypeOK, Agree, NEW c \in Conn, Moves(c), UNCHANGED <<reply, hubs, queues, writers>>
  PROVE  /\ reader[c] # "stopped" /\ \A d \in Conn : d # c => reader'[d] = reader[d]
         /\ reader[c] = "awaiting" => reply[c] # "none"
         /\ \A d \in Conn : Fresh(d)' => Fresh(d)
         /\ \A d \in Conn : Leaving(d) => Leaving(d)'
         /\ \A d \in Conn : Leaving(d)' => Leaving(d) \/ d = c
         /\ reader'[c] = "playing" => reply[c] = "session"
         /\ reader'[c] = "stopped" => Leaving(c)' \/ c \in lost'
         /\ lost \subseteq lost' /\ EventInv'
<1>1. /\ events \in Seq(Events) /\ Len(events) \in Nat /\ reader \in [Conn -> ReaderStates]
  BY DEF TypeOK, Events
<1>2. PICK to \in ReaderStates :
        /\ reader' = [reader EXCEPT ![c] = to] /\ reader[c] # "stopped"
        /\ lost \subseteq lost'
        /\ \/ \E kind \in {"join", "flap", "leave"} :
                /\ Len(events) < EventCap /\ events' = Append(events, Event(kind, c))
                /\ kind = "join" => reader[c] \in {"first", "joining"} /\ to = "awaiting"
                /\ kind = "flap" => reader[c] = "playing" /\ to = "playing"
                /\ kind = "leave" => reader[c] \in {"ending", "leaving"} /\ to = "stopped"
           \/ /\ events' = events
              /\ to = "first" => reader[c] = "first"
              /\ to = "joining" => reader[c] = "first"
              /\ to = "awaiting" => reader[c] = "joining"
              /\ to = "playing" => reader[c] = "playing" \/ reply[c] = "session"
              /\ to = "stopped" => c \in lost'
              /\ reader[c] = "awaiting" => reply[c] # "none"
  BY DEF Moves
<1>3. reader'[c] = to /\ \A d \in Conn : d # c => reader'[d] = reader[d]
  BY <1>1, <1>2
<1>4. reader[c] = "playing" => reply[c] = "session"
  BY DEF Agree, PlayerInv
<1>5. \A i \in 1 .. Len(events) :
        /\ events[i].conn = c => events[i].kind # "leave"
        /\ events[i].conn = c /\ events[i].kind = "join" => reader[c] = "awaiting" /\ reply[c] = "none"
  <2>1. ASSUME NEW i \in 1 .. Len(events), events[i].conn = c, events[i].kind = "join"
        PROVE  reader[c] = "awaiting" /\ reply[c] = "none"
    <3>1. events[i] = Event("join", c)
      BY <1>1, <2>1, Records
    <3>2. Fresh(c)
      BY <3>1 DEF Fresh
    <3>. QED BY <2>1, <3>2 DEF Agree, EventInv, PlayerInv
  <2>. QED BY <1>2, <2>1 DEF Agree, EventInv
<1>6. CASE \E kind \in {"join", "flap", "leave"} :
             /\ events' = Append(events, Event(kind, c))
             /\ kind = "join" => reader[c] \in {"first", "joining"} /\ to = "awaiting"
             /\ kind = "flap" => reader[c] = "playing" /\ to = "playing"
             /\ kind = "leave" => reader[c] \in {"ending", "leaving"} /\ to = "stopped"
  <2>1. PICK kind \in {"join", "flap", "leave"} :
             /\ events' = Append(events, Event(kind, c))
             /\ kind = "join" => reader[c] \in {"first", "joining"} /\ to = "awaiting"
             /\ kind = "flap" => reader[c] = "playing" /\ to = "playing"
             /\ kind = "leave" => reader[c] \in {"ending", "leaving"} /\ to = "stopped"
    BY <1>6
  <2>2. /\ Len(events') = Len(events) + 1 /\ events'[Len(events) + 1] = Event(kind, c)
        /\ \A i \in 1 .. Len(events) : events'[i] = events[i]
    BY <1>1, <2>1, Records
  <2>3. /\ Event(kind, c).kind = kind /\ Event(kind, c).conn = c
        /\ \A k \in {"join", "flap", "leave"}, d \in Conn : Event(kind, c) = Event(k, d) => k = kind /\ d = c
    BY Records
  <2>4. EventInv'
    <3>1. ASSUME NEW i \in 1 .. Len(events')
          PROVE  /\ events'[i].kind = "join" => reader'[events'[i].conn] = "awaiting"
                 /\ events'[i].kind = "leave" => reader'[events'[i].conn] = "stopped"
      <4>1. CASE i = Len(events) + 1
        BY <1>3, <2>1, <2>2, <2>3, <4>1
      <4>2. CASE i \in 1 .. Len(events)
        <5>1. events'[i] = events[i] /\ events[i].conn \in Conn
          BY <1>1, <2>2, <4>2, Records
        <5>2. /\ events[i].kind = "join" => reader[events[i].conn] = "awaiting"
              /\ events[i].kind = "leave" => reader[events[i].conn] = "stopped"
          BY <4>2 DEF Agree, EventInv
        <5>. QED BY <1>3, <1>5, <2>1, <4>2, <5>1, <5>2
      <4>. QED BY <1>1, <2>2, <4>1, <4>2
    <3>2. ASSUME NEW i \in 1 .. Len(events'), NEW j \in 1 .. Len(events'),
                 events'[i] = events'[j], events'[i].kind # "flap"
          PROVE  i = j
      <4>1. CASE i \in 1 .. Len(events) /\ j \in 1 .. Len(events)
        BY <2>2, <3>2, <4>1 DEF Agree, EventInv
      <4>2. CASE i = Len(events) + 1 /\ j \in 1 .. Len(events)
        BY <1>5, <2>1, <2>2, <2>3, <3>2, <4>2
      <4>3. CASE j = Len(events) + 1 /\ i \in 1 .. Len(events)
        BY <1>5, <2>1, <2>2, <2>3, <3>2, <4>3
      <4>. QED BY <1>1, <2>2, <3>2, <4>1, <4>2, <4>3
    <3>. QED BY <3>1, <3>2 DEF EventInv
  <2>5. ASSUME NEW d \in Conn, Fresh(d)' PROVE Fresh(d)
    <3>1. CASE reader'[d] \in {"first", "joining"}
      BY <1>3, <2>1, <3>1 DEF Fresh
    <3>2. CASE \E i \in 1 .. Len(events') : events'[i] = Event("join", d)
      BY <1>1, <2>1, <2>2, <2>3, <3>2 DEF Fresh
    <3>. QED BY <2>5, <3>1, <3>2 DEF Fresh
  <2>6. /\ \A d \in Conn : Leaving(d) => Leaving(d)'
        /\ \A d \in Conn : Leaving(d)' => Leaving(d) \/ d = c
        /\ kind = "leave" => Leaving(c)'
    BY <1>1, <2>2, <2>3 DEF Leaving
  <2>. QED BY <1>2, <1>3, <1>4, <2>1, <2>4, <2>5, <2>6
<1>7. CASE /\ events' = events
           /\ to = "first" => reader[c] = "first"
           /\ to = "joining" => reader[c] = "first"
           /\ to = "awaiting" => reader[c] = "joining"
           /\ to = "playing" => reader[c] = "playing" \/ reply[c] = "session"
           /\ to = "stopped" => c \in lost'
           /\ reader[c] = "awaiting" => reply[c] # "none"
  <2>1. ASSUME NEW i \in 1 .. Len(events')
        PROVE  /\ events'[i].kind = "join" => reader'[events'[i].conn] = "awaiting"
               /\ events'[i].kind = "leave" => reader'[events'[i].conn] = "stopped"
    <3>1. events'[i] = events[i] /\ events[i].conn \in Conn /\ i \in 1 .. Len(events)
      BY <1>1, <1>7, Records
    <3>2. /\ events[i].kind = "join" => reader[events[i].conn] = "awaiting"
          /\ events[i].kind = "leave" => reader[events[i].conn] = "stopped"
      BY <3>1 DEF Agree, EventInv
    <3>. QED BY <1>3, <1>5, <1>7, <3>1, <3>2
  <2>2. EventInv'
    BY <1>7, <2>1 DEF Agree, EventInv
  <2>3. ASSUME NEW d \in Conn, Fresh(d)' PROVE Fresh(d)
    BY <1>3, <1>7, <2>3 DEF Fresh
  <2>. QED BY <1>2, <1>3, <1>4, <1>7, <2>2, <2>3 DEF Leaving
<1>. QED BY <1>2, <1>6, <1>7

\* A reader's step keeps the events, the operations and the registry in agreement.
LEMMA ReaderAgrees ==
  ASSUME TypeOK, Agree, NEW c \in Conn, Moves(c), UNCHANGED <<reply, hubs, queues, writers>>
  PROVE  Agree'
<1>1. /\ reader[c] # "stopped" /\ \A d \in Conn : d # c => reader'[d] = reader[d]
      /\ reader[c] = "awaiting" => reply[c] # "none"
      /\ \A d \in Conn : Fresh(d)' => Fresh(d)
      /\ \A d \in Conn : Leaving(d) => Leaving(d)'
      /\ \A d \in Conn : Leaving(d)' => Leaving(d) \/ d = c
      /\ reader'[c] = "playing" => reply[c] = "session"
      /\ reader'[c] = "stopped" => Leaving(c)' \/ c \in lost'
      /\ lost \subseteq lost' /\ EventInv'
  BY ReaderEvents
<1>2. UNCHANGED <<reply, hub, todo, order, closed>> /\ todo \in Seq(Todos)
  BY DEF hubs, queues, TypeOK, Todos
<1>3. TodoInv'
  <2>1. ASSUME NEW i \in 1 .. Len(todo), todo[i].op \in {"session", "refused"}
        PROVE  reader'[todo[i].conn] = "awaiting"
    <3>1. todo[i].conn \in Conn /\ reader[todo[i].conn] = "awaiting" /\ reply[todo[i].conn] = "none"
      BY <1>2, <2>1, Records DEF Agree, TodoInv
    <3>. QED BY <1>1, <3>1
  <2>. QED BY <1>1, <1>2, <2>1 DEF Agree, TodoInv, Players
<1>4. PlayerInv'
  <2>1. IsInjective(order)' /\ Players' = Players
    BY <1>2 DEF Agree, PlayerInv, Players
  <2>2. ASSUME NEW d \in Conn
        PROVE  /\ Fresh(d)' => reply'[d] = "none" /\ d \notin Players
               /\ d \in Players => reply'[d] = "session" \/ Answering(d)'
               /\ (reply'[d] = "session" \/ Answering(d)') /\ (reader'[d] = "stopped" => Leaving(d)')
                    => d \in Players
               /\ (\E i \in 1 .. Len(todo') : todo'[i] = Decline(d)) => d \notin Players
               /\ reader'[d] = "playing" => reply'[d] = "session"
               /\ d \in Players /\ reader'[d] = "stopped" => Leaving(d)' \/ d \in lost'
    <3>1. /\ Fresh(d) => reply[d] = "none" /\ d \notin Players
          /\ d \in Players => reply[d] = "session" \/ Answering(d)
          /\ (reply[d] = "session" \/ Answering(d)) /\ (reader[d] = "stopped" => Leaving(d))
               => d \in Players
          /\ (\E i \in 1 .. Len(todo) : todo[i] = Decline(d)) => d \notin Players
          /\ reader[d] = "playing" => reply[d] = "session"
          /\ d \in Players /\ reader[d] = "stopped" => Leaving(d) \/ d \in lost
      BY DEF Agree, PlayerInv
    <3>2. Answering(d)' <=> Answering(d)
      BY <1>2 DEF Answering
    <3>. QED BY <1>1, <1>2, <3>1, <3>2
  <2>. QED BY <2>1, <2>2 DEF PlayerInv
<1>. QED BY <1>1, <1>3, <1>4 DEF Agree

\* A writer concerns none of this.
LEMMA WriterAgrees ==
  ASSUME Agree, NEW c \in Conn, Writer(c)
  PROVE  Agree'
<1>1. UNCHANGED <<reader, reply, lost, events, hub, todo, order, closed>>
  BY DEF Writer, TakeFrame, WriteFrame, WriteFails, WriterEnds, readers, hubs, queues
<1>. QED BY <1>1 DEF Agree, EventInv, TodoInv, PlayerInv, Players, Fresh, Answering, Leaving

\* An operation done leaves the others where they were, one place on.
LEMMA DoneAgrees ==
  ASSUME TypeOK, Agree, Handle, Done(todo[1])
  PROVE  Agree'
<1> DEFINE now == todo[1]
<1>1. /\ Len(todo) \in Nat \ {0} /\ now \in Todos
      /\ UNCHANGED <<reader, lost, events, hub, order>>
      /\ todo \in Seq(Todos) /\ reply \in [Conn -> {"none", "session", "refused"}]
  BY HandleShape DEF TypeOK, Todos
<1>2. /\ Len(todo') = Len(todo) - 1
      /\ \A i \in 1 .. Len(todo') : i + 1 \in 1 .. Len(todo) /\ todo'[i] = todo[i + 1]
  BY <1>1 DEF Done
<1>3. Sends(now) \/ Closes(now) \/ Replies(now)
  BY DEF Done
<1>4. now.conn \in Conn /\ 1 \in 1 .. Len(todo) /\ (now.op = "close" => now = Close(now.conn))
  <2>. HIDE DEF now
  <2>. QED BY <1>1, Records
<1>5. /\ closed' = closed \/ (now = Close(now.conn) /\ closed' = closed \cup {now.conn})
      /\ \/ reply' = reply
         \/ /\ now.op \in {"session", "refused"} /\ Len(todo') = 0
            /\ reply' = [reply EXCEPT ![now.conn] = now.op]
            /\ hub # "stopped" /\ reply[now.conn] = "none" /\ ~Fresh(now.conn)
  <2>1. CASE Sends(now)
    BY <2>1 DEF Sends
  <2>2. CASE Closes(now)
    <3>. HIDE DEF now
    <3>. QED BY <1>4, <2>2 DEF Closes
  <2>3. CASE Replies(now)
    <3>1. now.op \in {"session", "refused"} /\ closed' = closed
      BY <2>3 DEF Replies
    <3>2. hub = "stopped" => now.op = "close"
      BY <1>4 DEF Agree, TodoInv
    <3>3. hub = "running" => ~Fresh(now.conn)
      BY <1>4 DEF Agree, TodoInv
    <3>4. 1 = Len(todo) /\ reply[now.conn] = "none"
      BY <1>4, <3>1 DEF Agree, TodoInv
    <3>5. hub \in {"running", "stopped"} /\ reply' = [reply EXCEPT ![now.conn] = now.op]
      BY <2>3 DEF Replies, TypeOK
    <3>6. Len(todo') = 0
      <4>1. Len(todo') = Len(todo) - 1
        BY <1>2
      <4>2. Len(todo) = 1
        BY <3>4
      <4>. QED BY <4>1, <4>2
    <3>. HIDE DEF now
    <3>. QED BY <3>1, <3>2, <3>3, <3>4, <3>5, <3>6
  <2>. QED BY <1>3, <2>1, <2>2, <2>3
<1>6. EventInv'
  BY <1>1 DEF Agree, EventInv
<1>7. \A c \in Conn : (Fresh(c)' <=> Fresh(c)) /\ (Leaving(c)' <=> Leaving(c))
  BY <1>1 DEF Fresh, Leaving
<1>8. Players' = Players
  BY <1>1 DEF Players
<1>9. TodoInv'
  <2>1. hub = "running" => \A c \in Conn : Fresh(c) =>
              c \notin closed' /\ \A i \in 1 .. Len(todo') : todo'[i].conn # c
    BY <1>2, <1>4, <1>5 DEF Agree, TodoInv
  <2>2. hub = "running" => \A c \in Players :
              c \notin closed' /\ \A i \in 1 .. Len(todo') : todo'[i] # Close(c)
    BY <1>2, <1>4, <1>5 DEF Agree, TodoInv
  <2>3. hub = "stopped" => \A i \in 1 .. Len(todo') : todo'[i].op = "close"
    BY <1>2 DEF Agree, TodoInv
  <2>4. ASSUME NEW i \in 1 .. Len(todo'), todo'[i].op \in {"send", "drop"}
        PROVE  /\ todo'[i].conn \notin closed'
               /\ \A j \in 1 .. i - 1 : todo'[j] # Close(todo'[i].conn)
    <3>1. /\ todo[i + 1].conn \notin closed
          /\ \A j \in 1 .. i : todo[j] # Close(todo[i + 1].conn)
      BY <1>2, <2>4 DEF Agree, TodoInv
    <3>2. 1 \in 1 .. i /\ \A j \in 1 .. i - 1 : j + 1 \in 1 .. i /\ j \in 1 .. Len(todo')
      BY <1>1, <1>2
    <3>. QED BY <1>2, <1>5, <3>1, <3>2
  <2>5. ASSUME NEW i \in 1 .. Len(todo'), todo'[i].op \in {"session", "refused"}
        PROVE  i = Len(todo') /\ reader[todo'[i].conn] = "awaiting" /\ reply'[todo'[i].conn] = "none"
    BY <1>1, <1>2, <1>5, <2>5 DEF Agree, TodoInv
  <2>. QED BY <1>1, <1>7, <1>8, <2>1, <2>2, <2>3, <2>4, <2>5 DEF TodoInv
<1>10. ASSUME NEW c \in Conn
       PROVE  /\ Fresh(c) => reply'[c] = "none" /\ c \notin Players
              /\ c \in Players => reply'[c] = "session" \/ Answering(c)'
              /\ (reply'[c] = "session" \/ Answering(c)') /\ (reader[c] = "stopped" => Leaving(c))
                   => c \in Players
              /\ (\E i \in 1 .. Len(todo') : todo'[i] = Decline(c)) => c \notin Players
              /\ reader[c] = "playing" => reply'[c] = "session"
  <2>1. /\ Fresh(c) => reply[c] = "none" /\ c \notin Players
        /\ c \in Players => reply[c] = "session" \/ Answering(c)
        /\ (reply[c] = "session" \/ Answering(c)) /\ (reader[c] = "stopped" => Leaving(c))
             => c \in Players
        /\ (\E i \in 1 .. Len(todo) : todo[i] = Decline(c)) => c \notin Players
        /\ reader[c] = "playing" => reply[c] = "session"
    BY DEF Agree, PlayerInv
  <2>2. Answering(c)' => Answering(c)
    BY <1>2 DEF Answering
  <2>3. Answering(c) => Answering(c)' \/ now = Answer(c)
    <3>1. ASSUME NEW i \in 1 .. Len(todo), todo[i] = Answer(c), i # 1
          PROVE  i - 1 \in 1 .. Len(todo') /\ todo'[i - 1] = Answer(c)
      BY <1>1, <1>2, <3>1
    <3>. QED BY <3>1 DEF Answering
  <2>4. now = Answer(c) => reply'[c] = "session" /\ Answering(c)
    <3>1. ASSUME now = Answer(c) PROVE now.op = "session" /\ now.conn = c
      <4>. HIDE DEF now
      <4>. QED BY <3>1, Records
    <3>. HIDE DEF now
    <3>2. ASSUME now = Answer(c) PROVE reply'[c] = "session"
      BY <1>1, <1>3, <3>1, <3>2 DEF Sends, Closes, Replies
    <3>. QED BY <1>4, <3>2 DEF Answering, now
  <2>5. reply'[c] = "session" => reply[c] = "session" \/ Answering(c)
    <3>1. now.op = "session" => now = Answer(now.conn)
      <4>. HIDE DEF now
      <4>. QED BY <1>1, Records
    <3>2. CASE reply' = reply
      BY <3>2
    <3>3. CASE reply' # reply
      <4>1. ASSUME now.conn = c, now.op = "session" PROVE Answering(c)
        BY <1>4, <3>1, <4>1 DEF Answering
      <4>. HIDE DEF now
      <4>. QED BY <1>1, <1>5, <3>3, <4>1
    <3>. QED BY <3>2, <3>3
  <2>6. /\ reply[c] = "session" => reply'[c] = "session"
        /\ Fresh(c) => reply'[c] = reply[c]
    <3>. HIDE DEF now
    <3>. QED BY <1>1, <1>5
  <2>7. (\E i \in 1 .. Len(todo') : todo'[i] = Decline(c))
          => \E i \in 1 .. Len(todo) : todo[i] = Decline(c)
    BY <1>2
  <2>. QED BY <2>1, <2>2, <2>3, <2>4, <2>5, <2>6, <2>7
<1>11. PlayerInv'
  BY <1>1, <1>7, <1>8, <1>10 DEF Agree, PlayerInv
<1>. QED BY <1>6, <1>9, <1>11 DEF Agree

\* An operation tried again is the first one still, and for the same connection.
LEMMA RetriesAgrees ==
  ASSUME TypeOK, Agree, Handle, Retries(todo[1])
  PROVE  Agree'
<1> DEFINE now == todo[1]
<1>1. /\ Len(todo) \in Nat \ {0} /\ now \in Todos
      /\ UNCHANGED <<reader, lost, events, hub, order>>
      /\ todo \in Seq(Todos) /\ todo' \in Seq(Todos)
  BY HandleShape DEF TypeOK, Todos
<1>2. /\ Len(todo') = Len(todo) /\ now.op \in {"send", "drop"}
      /\ todo'[1].op \in {"send", "drop"} /\ todo'[1].conn = now.conn
      /\ \A i \in 2 .. Len(todo) : todo'[i] = todo[i]
      /\ UNCHANGED <<reply, closed>>
  BY DEF Retries, IsFull, Drops
<1>3. \A c \in Conn : \A o \in {Close(c), Answer(c), Decline(c)} : todo'[1] # o /\ now # o
  BY <1>2, Records
<1>4. \A i \in 1 .. Len(todo') : i \in 1 .. Len(todo) /\ (i = 1 \/ i \in 2 .. Len(todo))
  BY <1>1, <1>2
<1>5. /\ \A c \in Conn : (Fresh(c)' <=> Fresh(c)) /\ (Leaving(c)' <=> Leaving(c))
      /\ Players' = Players /\ EventInv'
  BY <1>1 DEF Fresh, Leaving, Players, Agree, EventInv
<1>6. now.conn \in Conn /\ hub # "stopped" /\ now.conn \notin closed /\ 1 \in 1 .. Len(todo)
  <2>1. 1 \in 1 .. Len(todo) /\ now.conn \in Conn
    BY <1>1, Records
  <2>. QED BY <1>2, <2>1 DEF Agree, TodoInv
<1>7. TodoInv'
  <2>1. hub = "running" => \A c \in Conn : Fresh(c) =>
              c \notin closed' /\ \A i \in 1 .. Len(todo') : todo'[i].conn # c
    BY <1>2, <1>4, <1>6 DEF Agree, TodoInv
  <2>2. hub = "running" => \A c \in Players :
              c \notin closed' /\ \A i \in 1 .. Len(todo') : todo'[i] # Close(c)
    <3>1. Players \subseteq Conn
      BY DEF TypeOK, Players, Range
    <3>. QED BY <1>2, <1>3, <1>4, <3>1 DEF Agree, TodoInv
  <2>3. ASSUME NEW i \in 1 .. Len(todo'), todo'[i].op \in {"send", "drop"}
        PROVE  /\ todo'[i].conn \notin closed'
               /\ \A j \in 1 .. i - 1 : todo'[j] # Close(todo'[i].conn)
    <3>1. CASE i = 1
      BY <1>2, <1>6, <3>1
    <3>2. CASE i \in 2 .. Len(todo)
      <4>1. /\ todo[i] = todo'[i] /\ todo[i].conn \in Conn /\ todo[i].conn \notin closed
            /\ \A j \in 1 .. i - 1 : todo[j] # Close(todo[i].conn)
        <5>1. todo[i] = todo'[i] /\ i \in 1 .. Len(todo)
          BY <1>2, <1>4, <3>2
        <5>2. todo[i] \in Todos
          BY <1>1, <5>1
        <5>3. todo[i].conn \in Conn
          BY <5>2, Records
        <5>. QED BY <2>3, <5>1, <5>3 DEF Agree, TodoInv
      <4>2. \A j \in 1 .. i - 1 : j = 1 \/ j \in 2 .. Len(todo)
        BY <1>1, <3>2
      <4>. QED BY <1>2, <1>3, <4>1, <4>2
    <3>. QED BY <1>4, <3>1, <3>2
  <2>4. ASSUME NEW i \in 1 .. Len(todo'), todo'[i].op \in {"session", "refused"}
        PROVE  i = Len(todo') /\ reader[todo'[i].conn] = "awaiting" /\ reply'[todo'[i].conn] = "none"
    BY <1>2, <1>4, <2>4 DEF Agree, TodoInv
  <2>. QED BY <1>1, <1>5, <1>6, <2>1, <2>2, <2>3, <2>4 DEF TodoInv
<1>8. \A c \in Conn :
        /\ Answering(c)' <=> Answering(c)
        /\ (\E i \in 1 .. Len(todo') : todo'[i] = Decline(c))
             => \E i \in 1 .. Len(todo) : todo[i] = Decline(c)
  BY <1>2, <1>3, <1>4 DEF Answering
<1>9. PlayerInv'
  BY <1>1, <1>2, <1>5, <1>8 DEF Agree, PlayerInv
<1>. QED BY <1>5, <1>7, <1>9 DEF Agree

\* Between two handlers nothing is owed: what the registry says, the replies say too.
LEMMA Idle ==
  ASSUME TypeOK, Agree, hub = "running", todo = <<>>
  PROVE  /\ Players \subseteq Conn
         /\ \A d \in Conn :
              /\ Fresh(d) => reply[d] = "none" /\ d \notin Players /\ d \notin closed
              /\ d \in Players => reply[d] = "session" /\ d \notin closed
              /\ reply[d] = "session" /\ (reader[d] = "stopped" => Leaving(d)) => d \in Players
              /\ reader[d] = "playing" => reply[d] = "session"
              /\ d \in Players /\ reader[d] = "stopped" => Leaving(d) \/ d \in lost
<1>1. Players \subseteq Conn /\ \A i \in 1 .. Len(todo) : FALSE
  BY DEF TypeOK, Players, Range
<1>. QED BY <1>1 DEF Agree, TodoInv, PlayerInv, Answering

\* A snapshot to all players keeps the agreement.
LEMMA TickAgrees ==
  ASSUME TypeOK, Agree, Tick
  PROVE  Agree'
<1>1. /\ hub = "running" /\ todo = <<>> /\ order \in Seq(Conn)
      /\ UNCHANGED <<reader, reply, lost, events, hub, order, closed>>
  BY DEF Tick, TypeOK, readers, queues
<1>2. \A i \in 1 .. Len(todo') : todo'[i] = Send(order[i]) /\ order[i] \in Players
  BY <1>1, BroadcastOps DEF Tick, Players
<1>3. \A i \in 1 .. Len(todo') : todo'[i].op = "send" /\ todo'[i].conn \in Players
  BY <1>2, Idle, <1>1, Records
<1>4. EventInv' /\ Players' = Players
  BY <1>1 DEF Agree, EventInv, Players
<1>5. \A d \in Conn : (Fresh(d)' <=> Fresh(d)) /\ (Leaving(d)' <=> Leaving(d)) /\ ~Answering(d)'
  BY <1>1, <1>3, Records DEF Fresh, Leaving, Answering
<1>6. \A d \in Conn, i \in 1 .. Len(todo') : todo'[i] # Close(d) /\ todo'[i] # Decline(d)
  BY <1>3, Records
<1>7. TodoInv'
  <2>1. Players \subseteq Conn
    BY <1>1, Idle
  <2>2. \A i \in 1 .. Len(todo') : \A j \in 1 .. i - 1 : todo'[j] # Close(todo'[i].conn)
    <3>1. Len(todo') \in Nat
      BY <1>1, BroadcastOps DEF Tick
    <3>. QED BY <1>3, <1>6, <2>1, <3>1
  <2>. QED BY <1>1, <1>3, <1>4, <1>5, <1>6, <2>1, <2>2, Idle DEF TodoInv
<1>8. PlayerInv'
  <2>1. IsInjective(order)
    BY DEF Agree, PlayerInv
  <2>. QED BY <1>1, <1>4, <1>5, <1>6, <2>1, Idle DEF PlayerInv
<1>. QED BY <1>4, <1>7, <1>8 DEF Agree

\* The shutdown only closes, so that it keeps the agreement.
LEMMA ShutdownAgrees ==
  ASSUME TypeOK, Agree, Shutdown
  PROVE  Agree'
<1>1. /\ hub = "running" /\ hub' = "stopped" /\ todo = <<>> /\ order \in Seq(Conn)
      /\ UNCHANGED <<reader, reply, lost, events, order, closed>>
  BY DEF Shutdown, TypeOK, readers, queues
<1>2. \A i \in 1 .. Len(todo') : todo'[i].op = "close"
  BY <1>1, ClosingOps DEF Shutdown
<1>3. EventInv' /\ Players' = Players
  BY <1>1 DEF Agree, EventInv, Players
<1>4. \A d \in Conn : (Fresh(d)' <=> Fresh(d)) /\ (Leaving(d)' <=> Leaving(d)) /\ ~Answering(d)'
  BY <1>1, <1>2, Records DEF Fresh, Leaving, Answering
<1>5. \A d \in Conn, i \in 1 .. Len(todo') : todo'[i] # Decline(d)
  BY <1>2, Records
<1>6. TodoInv'
  BY <1>1, <1>2 DEF TodoInv
<1>7. PlayerInv'
  <2>1. IsInjective(order)
    BY DEF Agree, PlayerInv
  <2>. QED BY <1>1, <1>3, <1>4, <1>5, <2>1, Idle DEF PlayerInv
<1>. QED BY <1>3, <1>6, <1>7 DEF Agree

\* Taking the oldest event disturbs none behind it.
LEMMA EventTaken ==
  ASSUME TypeOK, Agree, NEW e, e = events[1], Len(events) \in Nat \ {0},
         events' \in Seq(Events), Len(events') = Len(events) - 1,
         \A i \in 1 .. Len(events) - 1 : events'[i] = events[i + 1], UNCHANGED <<reader, reply>>
  PROVE  /\ EventInv'
         /\ \A d \in Conn : (Fresh(d)' => Fresh(d)) /\ (Leaving(d)' => Leaving(d))
         /\ \A d \in Conn : Leaving(d) => Leaving(d)' \/ e = Event("leave", d)
         /\ e.conn \in Conn /\ e = Event(e.kind, e.conn)
         /\ e.kind = "join" =>
              reader[e.conn] = "awaiting" /\ Fresh(e.conn) /\ ~Fresh(e.conn)'
         /\ e.kind = "leave" =>
              reader[e.conn] = "stopped" /\ ~Leaving(e.conn)' /\ ~Fresh(e.conn)
<1>1. /\ events \in Seq(Events) /\ 1 \in 1 .. Len(events) /\ events[1] \in Events
      /\ \A i \in 1 .. Len(events') : /\ i + 1 \in 1 .. Len(events) /\ i + 1 # 1
                                      /\ events'[i] = events[i + 1]
  <2>1. events \in Seq(Events) /\ 1 \in 1 .. Len(events)
    BY DEF TypeOK, Events
  <2>2. events[1] \in Events
    BY <2>1
  <2>. QED BY <2>1, <2>2
<1>2. e.conn \in Conn /\ e = Event(e.kind, e.conn)
  BY <1>1, Records
<1>3. EventInv'
  BY <1>1 DEF Agree, EventInv
<1>4. \A d \in Conn : (Fresh(d)' => Fresh(d)) /\ (Leaving(d)' => Leaving(d))
  BY <1>1 DEF Fresh, Leaving
<1>5. ASSUME NEW d \in Conn, Leaving(d) PROVE Leaving(d)' \/ e = Event("leave", d)
  <2>1. PICK i \in 1 .. Len(events) : events[i] = Event("leave", d)
    BY <1>5 DEF Leaving
  <2>2. i # 1 => i - 1 \in 1 .. Len(events') /\ events'[i - 1] = events[i]
    BY <1>1
  <2>. QED BY <2>1, <2>2 DEF Leaving
<1>6. ASSUME e.kind = "join"
      PROVE  reader[e.conn] = "awaiting" /\ Fresh(e.conn) /\ ~Fresh(e.conn)'
  <2>1. reader[e.conn] = "awaiting"
    BY <1>1, <1>6 DEF Agree, EventInv
  <2>2. Fresh(e.conn)
    BY <1>1, <1>2, <1>6 DEF Fresh
  <2>3. \A i \in 1 .. Len(events') : events'[i] # e
    BY <1>1, <1>6 DEF Agree, EventInv
  <2>. QED BY <1>2, <1>6, <2>1, <2>2, <2>3 DEF Fresh
<1>7. ASSUME e.kind = "leave"
      PROVE  reader[e.conn] = "stopped" /\ ~Leaving(e.conn)' /\ ~Fresh(e.conn)
  <2>1. reader[e.conn] = "stopped"
    BY <1>1, <1>7 DEF Agree, EventInv
  <2>2. \A i \in 1 .. Len(events') : events'[i] # e
    BY <1>1, <1>7 DEF Agree, EventInv
  <2>3. \A i \in 1 .. Len(events) : events[i] # Event("join", e.conn)
    BY <1>2, <2>1, Records DEF Agree, EventInv
  <2>. QED BY <1>2, <1>7, <2>1, <2>2, <2>3 DEF Leaving, Fresh
<1>. QED BY <1>2, <1>3, <1>4, <1>5, <1>6, <1>7

\* Serving an event keeps the agreement: a join that is accepted adds the player and owes it
\* the answer, a leave takes it out before its queue is closed (handleJoin, handleLeave).
LEMMA DispatchAgrees ==
  ASSUME TypeOK, Agree, Dispatch
  PROVE  Agree'
<1>e. PICK e : e = events[1]
  OBVIOUS
<1>c. PICK c : c = e.conn
  OBVIOUS
<1>1. IsInjective(order) /\ order \in Seq(Conn)
  BY DEF Agree, PlayerInv, TypeOK
<1>2. /\ hub = "running" /\ todo = <<>> /\ Len(events) \in Nat \ {0}
      /\ events' \in Seq(Events) /\ Len(events') = Len(events) - 1
      /\ \A i \in 1 .. Len(events) - 1 : events'[i] = events[i + 1]
      /\ Serves(e)
      /\ todo' \in Seq(Todos) /\ order' \in Seq(Conn)
      /\ UNCHANGED <<reader, reply, lost, hub, closed>>
  BY <1>e, <1>1, DispatchShape DEF readers, queues
<1>3. /\ EventInv'
      /\ \A d \in Conn : (Fresh(d)' => Fresh(d)) /\ (Leaving(d)' => Leaving(d))
      /\ \A d \in Conn : Leaving(d) => Leaving(d)' \/ e = Event("leave", d)
      /\ c \in Conn /\ e = Event(e.kind, c)
      /\ e.kind = "join" => reader[c] = "awaiting" /\ Fresh(c) /\ ~Fresh(c)'
      /\ e.kind = "leave" => reader[c] = "stopped" /\ ~Leaving(c)' /\ ~Fresh(c)
  BY <1>e, <1>c, <1>2, EventTaken
<1>4. /\ Players \subseteq Conn
      /\ \A d \in Conn :
           /\ Fresh(d) => reply[d] = "none" /\ d \notin Players /\ d \notin closed
           /\ d \in Players => reply[d] = "session" /\ d \notin closed
           /\ reply[d] = "session" /\ (reader[d] = "stopped" => Leaving(d)) => d \in Players
           /\ reader[d] = "playing" => reply[d] = "session"
           /\ d \in Players /\ reader[d] = "stopped" => Leaving(d) \/ d \in lost
  BY <1>2, Idle
<1>5. \A d \in Conn : Leaving(d) => Leaving(d)' \/ (e.kind = "leave" /\ d = c)
  BY <1>3, Records
<1>6. CASE e.kind = "join" /\ Accepts(c)
  <2>1. /\ order' = Append(order, c) /\ Len(todo') = Len(order) + 3
        /\ todo'[1] = Send(c) /\ todo'[Len(order) + 3] = Answer(c)
        /\ \A i \in 1 .. Len(order) + 1 : todo'[i + 1] = Send(order'[i])
    BY <1>6 DEF Accepts
  <2>2. IsInjective(order') /\ Players' = Players \cup {c} /\ Len(order) \in Nat
    BY <1>1, <1>3, <1>4, <1>6, <2>1, AppendNew DEF Players
  <2>3. \A i \in 1 .. Len(order) + 1 : order'[i] \in Players'
    BY <1>1, <1>2, <1>3, <2>1 DEF Players, Range
  <2>4. ASSUME NEW i \in 1 .. Len(todo'), i # Len(todo')
        PROVE  todo'[i].op = "send" /\ todo'[i].conn \in Players'
    <3>1. CASE i = 1
      BY <1>3, <2>1, <2>2, <3>1, Records
    <3>2. CASE i # 1
      <4>1. i - 1 \in 1 .. Len(order) + 1 /\ (i - 1) + 1 = i
        BY <2>1, <2>2, <2>4, <3>2
      <4>2. todo'[i] = Send(order'[i - 1]) /\ order'[i - 1] \in Players'
        BY <2>1, <2>3, <4>1
      <4>. QED BY <1>3, <1>4, <2>2, <4>2, Records
    <3>. QED BY <3>1, <3>2
  <2>5. Len(todo') \in 1 .. Len(todo') /\ todo'[Len(todo')] = Answer(c)
    BY <2>1, <2>2
  <2>6. /\ \A d \in Conn : Answering(d)' <=> d = c
        /\ \A d \in Conn, i \in 1 .. Len(todo') : todo'[i] # Close(d) /\ todo'[i] # Decline(d)
    BY <1>3, <2>4, <2>5, Records DEF Answering
  <2>7. TodoInv'
    <3>1. ASSUME NEW d \in Conn, Fresh(d)'
          PROVE  d \notin closed /\ \A i \in 1 .. Len(todo') : todo'[i].conn # d
      BY <1>3, <1>4, <1>6, <2>2, <2>4, <2>5, <3>1, Records
    <3>2. ASSUME NEW d \in Players'
          PROVE  d \notin closed /\ \A i \in 1 .. Len(todo') : todo'[i] # Close(d)
      BY <1>3, <1>4, <1>6, <2>2, <2>6
    <3>3. ASSUME NEW i \in 1 .. Len(todo'), todo'[i].op \in {"send", "drop"}
          PROVE  /\ todo'[i].conn \notin closed
                 /\ \A j \in 1 .. i - 1 : todo'[j] # Close(todo'[i].conn)
      <4>1. i # Len(todo')
        BY <1>3, <2>5, <3>3, Records
      <4>2. todo'[i].conn \in Players' /\ \A j \in 1 .. i - 1 : j \in 1 .. Len(todo')
        BY <2>1, <2>2, <2>4, <4>1
      <4>. QED BY <3>2, <4>2
    <3>4. ASSUME NEW i \in 1 .. Len(todo'), todo'[i].op \in {"session", "refused"}
          PROVE  i = Len(todo') /\ reader[todo'[i].conn] = "awaiting" /\ reply[todo'[i].conn] = "none"
      BY <1>3, <1>4, <1>6, <2>4, <2>5, <3>4, Records
    <3>. QED BY <1>2, <3>1, <3>2, <3>3, <3>4 DEF TodoInv
  <2>8. PlayerInv'
    BY <1>2, <1>3, <1>4, <1>5, <1>6, <2>2, <2>6 DEF PlayerInv
  <2>. QED BY <1>3, <2>7, <2>8 DEF Agree
<1>7. CASE e.kind = "join" /\ Refuse(c)
  <2>1. todo' = <<Send(c), Close(c), Decline(c)>> /\ order' = order
    BY <1>7 DEF Refuse
  <2>2. /\ Len(todo') = 3 /\ todo'[1] = Send(c) /\ todo'[2] = Close(c) /\ todo'[3] = Decline(c)
        /\ Players' = Players /\ \A i \in 1 .. Len(todo') : i \in {1, 2, 3}
    BY <2>1 DEF Players
  <2>3. \A i \in 1 .. Len(todo') : todo'[i].conn = c
    BY <1>3, <2>2, Records
  <2>4. /\ \A d \in Conn : ~Answering(d)'
        /\ \A d \in Conn, i \in 1 .. Len(todo') :
             (todo'[i] = Close(d) => d = c) /\ (todo'[i] = Decline(d) => d = c)
    BY <1>3, <2>2, <2>3, Records DEF Answering
  <2>5. TodoInv'
    <3>1. ASSUME NEW i \in 1 .. Len(todo'), todo'[i].op \in {"send", "drop"}
          PROVE  /\ todo'[i].conn \notin closed
                 /\ \A j \in 1 .. i - 1 : todo'[j] # Close(todo'[i].conn)
      <4>1. i = 1
        BY <1>3, <2>2, <3>1, Records
      <4>. QED BY <1>3, <1>4, <1>7, <2>3, <4>1
    <3>2. ASSUME NEW i \in 1 .. Len(todo'), todo'[i].op \in {"session", "refused"}
          PROVE  i = Len(todo') /\ reader[todo'[i].conn] = "awaiting" /\ reply[todo'[i].conn] = "none"
      <4>1. i = 3
        BY <1>3, <2>2, <3>2, Records
      <4>. QED BY <1>3, <1>4, <1>7, <2>2, <2>3, <4>1
    <3>3. \A d \in Conn : Fresh(d)' => d # c
      BY <1>3, <1>7
    <3>. QED BY <1>2, <1>3, <1>4, <1>7, <2>2, <2>3, <2>4, <3>1, <3>2, <3>3 DEF TodoInv
  <2>6. PlayerInv'
    BY <1>1, <1>2, <1>3, <1>4, <1>5, <1>7, <2>1, <2>2, <2>4 DEF PlayerInv
  <2>. QED BY <1>3, <2>5, <2>6 DEF Agree
<1>8. CASE e.kind = "flap" /\ UNCHANGED <<todo, order>>
  <2>1. Players' = Players /\ todo' = <<>> /\ \A i \in 1 .. Len(todo') : FALSE
    BY <1>2, <1>8 DEF Players
  <2>2. TodoInv'
    BY <1>2, <1>3, <1>4, <2>1 DEF TodoInv
  <2>3. PlayerInv'
    BY <1>1, <1>2, <1>3, <1>4, <1>5, <1>8, <2>1 DEF PlayerInv, Answering
  <2>. QED BY <1>3, <2>2, <2>3 DEF Agree
<1>9. CASE e.kind = "leave" /\ Leaves(c)
  <2>1. /\ reply[c] = "session" /\ order' = RemoveFirst(order, c)
        /\ \/ todo' = <<Close(c)>>
           \/ /\ Len(todo') = Len(order') + 1 /\ todo'[Len(order') + 1] = Close(c)
              /\ \A i \in 1 .. Len(order') : todo'[i] = Send(order'[i])
    BY <1>9 DEF Leaves
  <2>2. IsInjective(order') /\ Players' = Players \ {c} /\ Len(order') \in Nat
    <3> DEFINE left == RemoveFirst(order, c)
    <3>1. IsInjective(left) /\ Range(left) = Range(order) \ {c}
      BY <1>1, <1>3, RemoveFirstKeeps
    <3> HIDE DEF left
    <3>2. IsInjective(order') /\ Range(order') = Range(order) \ {c}
      BY <2>1, <3>1 DEF left
    <3>. QED BY <1>2, <3>2 DEF Players
  <2>3. \A i \in 1 .. Len(order') : order'[i] \in Players'
    BY <1>2 DEF Players, Range
  <2>4. ASSUME NEW i \in 1 .. Len(todo')
        PROVE  todo'[i] = Close(c) \/ (todo'[i].op = "send" /\ todo'[i].conn \in Players')
    <3>1. CASE todo' = <<Close(c)>>
      BY <2>4, <3>1
    <3>2. CASE /\ Len(todo') = Len(order') + 1 /\ todo'[Len(order') + 1] = Close(c)
               /\ \A k \in 1 .. Len(order') : todo'[k] = Send(order'[k])
      <4>1. i = Len(order') + 1 \/ i \in 1 .. Len(order')
        BY <2>2, <2>4, <3>2
      <4>. QED BY <1>4, <2>2, <2>3, <3>2, <4>1, Records
    <3>. QED BY <2>1, <3>1, <3>2
  <2>5. /\ \A d \in Conn : ~Answering(d)'
        /\ \A d \in Conn, i \in 1 .. Len(todo') :
             (todo'[i] = Close(d) => d = c) /\ todo'[i] # Decline(d)
    BY <1>3, <2>4, Records DEF Answering
  <2>6. TodoInv'
    <3>1. ASSUME NEW d \in Conn, Fresh(d)'
          PROVE  d \notin closed /\ \A i \in 1 .. Len(todo') : todo'[i].conn # d
      BY <1>3, <1>4, <1>9, <2>2, <2>4, <3>1, Records
    <3>2. ASSUME NEW d \in Players'
          PROVE  d \notin closed /\ \A i \in 1 .. Len(todo') : todo'[i] # Close(d)
      BY <1>3, <1>4, <2>2, <2>5
    <3>3. ASSUME NEW i \in 1 .. Len(todo'), todo'[i].op \in {"send", "drop"}
          PROVE  /\ todo'[i].conn \notin closed
                 /\ \A j \in 1 .. i - 1 : todo'[j] # Close(todo'[i].conn)
      <4>1. todo'[i].conn \in Players'
        BY <1>3, <2>4, <3>3, Records
      <4>2. \A j \in 1 .. i - 1 : j \in 1 .. Len(todo')
        BY <1>2
      <4>. QED BY <3>2, <4>1, <4>2
    <3>4. \A i \in 1 .. Len(todo') : todo'[i].op \notin {"session", "refused"}
      BY <1>3, <2>4, Records
    <3>. QED BY <1>2, <3>1, <3>2, <3>3, <3>4 DEF TodoInv
  <2>7. PlayerInv'
    BY <1>2, <1>3, <1>4, <1>5, <1>9, <2>2, <2>5 DEF PlayerInv
  <2>. QED BY <1>3, <2>6, <2>7 DEF Agree
<1>10. CASE /\ e.kind = "leave" /\ reply[c] # "session"
            /\ todo' = <<Close(c)>> /\ UNCHANGED order
  <2>1. /\ Len(todo') = 1 /\ todo'[1] = Close(c) /\ Players' = Players
        /\ \A i \in 1 .. Len(todo') : i = 1
    BY <1>10 DEF Players
  <2>2. \A i \in 1 .. Len(todo') : todo'[i].op = "close" /\ todo'[i].conn = c
    BY <1>3, <2>1, Records
  <2>3. /\ \A d \in Conn : ~Answering(d)'
        /\ \A d \in Conn, i \in 1 .. Len(todo') :
             (todo'[i] = Close(d) => d = c) /\ todo'[i] # Decline(d)
    BY <2>2, Records DEF Answering
  <2>4. TodoInv'
    BY <1>2, <1>3, <1>4, <1>10, <2>1, <2>2, <2>3 DEF TodoInv
  <2>5. PlayerInv'
    BY <1>1, <1>2, <1>3, <1>4, <1>5, <1>10, <2>1, <2>3 DEF PlayerInv
  <2>. QED BY <1>3, <2>4, <2>5 DEF Agree
<1>. QED BY <1>2, <1>6, <1>7, <1>8, <1>9, <1>10, <1>c DEF Serves

(***************************************************************************)
(* The way of the frames.                                                  *)
(***************************************************************************)

\* What no step has touched is as it was.
LEMMA FramesSame ==
  ASSUME NEW d \in Conn, Frames(d), Replacing(d) => Replacing(d)', closed \subseteq closed',
         sent'[d] = sent[d], queue'[d] = queue[d], hand'[d] = hand[d], written'[d] = written[d],
         writer'[d] = writer[d]
  PROVE  Frames(d)'
BY DEF Frames

\* Queue, hand and wire of one connection.
LEMMA FrameTypes ==
  ASSUME TypeOK, NEW c \in Conn
  PROVE  /\ queue[c] \in Seq(Nat \ {0}) /\ Len(queue[c]) \in Nat
         /\ sent[c] \in Nat /\ hand[c] \in Nat
         /\ written[c] \in Seq(Nat) /\ Len(written[c]) \in Nat
BY DEF TypeOK

\* The four things that happen to a frame. Taking it: what is in hand is then older than all
\* that is queued and newer than all that is written.
LEMMA TakeOrdered ==
  ASSUME NEW q \in Seq(Nat), q # <<>>, NEW n \in Nat, NEW w \in Seq(Nat), Ordered(q, n, 0, w)
  PROVE  Ordered(Tail(q), n, Head(q), w) /\ (Tail(q) = <<>> => Head(q) = n)
<1> DEFINE t == Tail(q)
           k == Len(q)
<1>1. /\ t \in Seq(Nat) /\ Len(t) = k - 1 /\ k \in Nat \ {0} /\ Head(q) = q[1]
      /\ \A i \in 1 .. k - 1 : t[i] = q[i + 1]
  BY TailShifts, Zenon
<1>2. /\ k <= n /\ \A i \in 1 .. k : q[i] = n - k + i
      /\ \A i \in 1 .. Len(w) : w[i] <= n - k /\ \A j \in 1 .. i - 1 : w[j] < w[i]
  BY DEF Ordered
<1>3. \A i \in 1 .. Len(w) : w[i] \in Nat
  OBVIOUS
<1> HIDE DEF t, k
<1>4. q[1] = n - k + 1
  BY <1>1, <1>2
<1>5. ASSUME NEW i \in 1 .. k - 1 PROVE t[i] = n - (k - 1) + i
  <2>1. i + 1 \in 1 .. k /\ t[i] = q[i + 1]
    BY <1>1
  <2>2. q[i + 1] = n - k + (i + 1)
    BY <1>2, <2>1
  <2>. QED BY <1>1, <2>1, <2>2
<1>6. Ordered(t, n, q[1], w)
  BY <1>1, <1>2, <1>3, <1>4, <1>5 DEF Ordered
<1>7. t = <<>> => q[1] = n
  BY <1>1, <1>4
<1>. QED BY <1>1, <1>6, <1>7 DEF t

\* A frame written is newer than all before it, and the newest if none is left behind it.
LEMMA WriteOrdered ==
  ASSUME NEW q \in Seq(Nat), NEW n \in Nat, NEW w \in Seq(Nat), NEW h \in Nat \ {0},
         Ordered(q, n, h, w)
  PROVE  /\ Ordered(q, n, 0, Append(w, h))
         /\ q = <<>> /\ (h # n => Written(n, w)) => Written(n, Append(w, h))
<1> DEFINE v == Append(w, h)
           m == Len(w)
           k == Len(q)
<1>1. /\ m \in Nat /\ Len(v) = m + 1 /\ v[m + 1] = h /\ v # <<>> /\ k \in Nat
      /\ \A i \in 1 .. m : v[i] = w[i] /\ w[i] \in Nat
  OBVIOUS
<1>2. /\ k <= n /\ h <= n - k /\ \A i \in 1 .. k : q[i] = n - k + i
      /\ \A i \in 1 .. m : w[i] <= n - k /\ w[i] < h /\ \A j \in 1 .. i - 1 : w[j] < w[i]
  BY DEF Ordered
<1>3. (w = <<>> <=> m = 0) /\ (q = <<>> <=> k = 0)
  OBVIOUS
<1> HIDE DEF v, m, k
<1>4. ASSUME NEW i \in 1 .. m + 1
      PROVE  v[i] <= n - k /\ \A j \in 1 .. i - 1 : v[j] < v[i]
  <2>1. CASE i = m + 1
    <3>1. \A j \in 1 .. i - 1 : j \in 1 .. m
      BY <1>1, <2>1
    <3>. QED BY <1>1, <1>2, <2>1, <3>1
  <2>2. CASE i \in 1 .. m
    <3>1. \A j \in 1 .. i - 1 : j \in 1 .. m
      BY <1>1, <2>2
    <3>. QED BY <1>1, <1>2, <2>2, <3>1
  <2>. QED BY <1>1, <2>1, <2>2
<1>5. Ordered(q, n, 0, v)
  BY <1>1, <1>2, <1>4 DEF Ordered, k
<1>6. ASSUME k = 0, h # n, Written(n, w) PROVE n = 0
  <2>1. n > 0 => m # 0 /\ w[m] = n
    BY <1>3, <1>6 DEF Written, m
  <2>2. m # 0 => w[m] < h
    BY <1>1, <1>2
  <2>3. h <= n
    BY <1>2, <1>6
  <2>. QED BY <2>1, <2>2, <2>3
<1>7. q = <<>> /\ (h # n => Written(n, w)) => Written(n, v)
  BY <1>1, <1>3, <1>6 DEF Written
<1>. QED BY <1>5, <1>7 DEF v

\* A frame sent joins the queue as the newest.
LEMMA SendOrdered ==
  ASSUME NEW q \in Seq(Nat), NEW n \in Nat, NEW w \in Seq(Nat), NEW h \in Nat, Ordered(q, n, h, w)
  PROVE  Ordered(Append(q, n + 1), n + 1, h, w) /\ Append(q, n + 1) # <<>>
<1> DEFINE t == Append(q, n + 1)
           k == Len(q)
<1>1. /\ k \in Nat /\ Len(t) = k + 1 /\ t[k + 1] = n + 1 /\ t # <<>>
      /\ \A i \in 1 .. k : t[i] = q[i]
  OBVIOUS
<1>2. /\ k <= n /\ h <= n - k /\ \A i \in 1 .. k : q[i] = n - k + i
      /\ \A i \in 1 .. Len(w) : /\ w[i] <= n - k
                                /\ h # 0 => w[i] < h
                                /\ \A j \in 1 .. i - 1 : w[j] < w[i]
  BY DEF Ordered
<1> HIDE DEF t, k
<1>3. n + 1 - (k + 1) = n - k /\ k + 1 <= n + 1
  BY <1>1, <1>2
<1>4. ASSUME NEW i \in 1 .. k + 1 PROVE t[i] = n + 1 - (k + 1) + i
  <2>1. CASE i = k + 1
    BY <1>1, <2>1
  <2>2. CASE i \in 1 .. k
    <3>1. t[i] = n - k + i
      BY <1>1, <1>2, <2>2
    <3>. QED BY <1>3, <3>1
  <2>. QED BY <1>1, <2>1, <2>2
<1>5. Ordered(t, n + 1, h, w)
  BY <1>1, <1>2, <1>3, <1>4 DEF Ordered
<1>. QED BY <1>1, <1>5 DEF t

\* Dropping the oldest frame leaves the newest ones without a gap.
LEMMA DropOrdered ==
  ASSUME NEW q \in Seq(Nat), q # <<>>, NEW n \in Nat, NEW w \in Seq(Nat), NEW h \in Nat,
         Ordered(q, n, h, w)
  PROVE  Ordered(Tail(q), n, h, w)
<1> DEFINE t == Tail(q)
           k == Len(q)
<1>1. /\ Len(t) = k - 1 /\ k \in Nat \ {0} /\ \A i \in 1 .. k - 1 : t[i] = q[i + 1]
  BY TailShifts, Zenon
<1>2. /\ k <= n /\ h <= n - k /\ \A i \in 1 .. k : q[i] = n - k + i
      /\ \A i \in 1 .. Len(w) : /\ w[i] <= n - k
                                /\ h # 0 => w[i] < h
                                /\ \A j \in 1 .. i - 1 : w[j] < w[i]
  BY DEF Ordered
<1>3. \A i \in 1 .. Len(w) : w[i] \in Nat
  OBVIOUS
<1> HIDE DEF t, k
<1>4. ASSUME NEW i \in 1 .. k - 1 PROVE t[i] = n - (k - 1) + i
  <2>1. i + 1 \in 1 .. k /\ t[i] = q[i + 1]
    BY <1>1
  <2>2. q[i + 1] = n - k + (i + 1)
    BY <1>2, <2>1
  <2>. QED BY <1>1, <2>1, <2>2
<1>. QED BY <1>1, <1>2, <1>3, <1>4 DEF Ordered, t

\* The writer takes the oldest frame and puts it behind all it has written.
LEMMA WriterFrames ==
  ASSUME TypeOK, Agree, FrameInv, NEW c \in Conn, Writer(c)
  PROVE  FrameInv'
<1>1. /\ queue[c] \in Seq(Nat) /\ sent[c] \in Nat /\ hand[c] \in Nat
      /\ written[c] \in Seq(Nat) /\ Frames(c)
      /\ queue \in [Conn -> Seq(Nat \ {0})] /\ hand \in [Conn -> Nat] /\ written \in [Conn -> Seq(Nat)]
      /\ writer \in [Conn -> {"running", "failed", "ended"}]
  BY FrameTypes DEF TypeOK, FrameInv
<1>2. UNCHANGED <<todo, sent, closed>>
  BY DEF Writer, TakeFrame, WriteFrame, WriteFails, WriterEnds, hubs, queues
<1>3. ASSUME NEW d \in Conn, d # c PROVE Frames(d)'
  <2>1. /\ queue'[d] = queue[d] /\ hand'[d] = hand[d]
        /\ written'[d] = written[d] /\ writer'[d] = writer[d]
    BY <1>1, <1>3 DEF Writer, TakeFrame, WriteFrame, WriteFails, WriterEnds, queues
  <2>. QED BY <1>2, <2>1, FramesSame DEF FrameInv, Replacing
<1>4. (Replacing(c)' <=> Replacing(c)) /\ sent'[c] = sent[c]
  BY <1>2 DEF Replacing
<1>5. CASE TakeFrame(c)
  <2>1. /\ writer'[c] # "ended" /\ written'[c] = written[c] /\ hand[c] = 0 /\ queue[c] # <<>>
        /\ hand'[c] = Head(queue[c]) /\ queue'[c] = Tail(queue[c])
    BY <1>1, <1>5 DEF TakeFrame
  <2>2. /\ Ordered(queue'[c], sent[c], hand'[c], written[c])
        /\ queue'[c] = <<>> => hand'[c] = sent[c]
    <3>1. Ordered(queue[c], sent[c], 0, written[c])
      BY <1>1, <2>1 DEF Frames
    <3>2. /\ Ordered(Tail(queue[c]), sent[c], Head(queue[c]), written[c])
          /\ Tail(queue[c]) = <<>> => Head(queue[c]) = sent[c]
      BY <1>1, <2>1, <3>1, TakeOrdered
    <3>. QED BY <2>1, <3>2
  <2>3. Frames(c)'
    BY <1>4, <2>1, <2>2 DEF Frames
  <2>. QED BY <1>3, <2>3 DEF FrameInv
<1>6. CASE WriteFrame(c)
  <2>1. /\ writer'[c] # "ended" /\ queue'[c] = queue[c] /\ hand[c] \in Nat \ {0} /\ hand'[c] = 0
        /\ written'[c] = Append(written[c], hand[c])
    BY <1>1, <1>6 DEF WriteFrame, queues
  <2>2. /\ Ordered(queue[c], sent[c], 0, written'[c])
        /\ queue[c] = <<>> /\ (hand[c] # sent[c] => Written(sent[c], written[c]))
             => Written(sent[c], written'[c])
    BY <1>1, <2>1, WriteOrdered DEF Frames
  <2>3. Frames(c)'
    BY <1>1, <1>4, <2>1, <2>2 DEF Frames
  <2>. QED BY <1>3, <2>3 DEF FrameInv
<1>7. CASE WriteFails(c)
  <2>1. /\ writer'[c] # "ended" /\ queue'[c] = queue[c] /\ hand'[c] = hand[c]
        /\ written'[c] = written[c]
    BY <1>1, <1>7 DEF WriteFails, queues
  <2>2. Frames(c)'
    BY <1>1, <1>4, <2>1 DEF Frames
  <2>. QED BY <1>3, <2>2 DEF FrameInv
<1>8. CASE WriterEnds(c)
  <2>1. /\ queue'[c] = queue[c] /\ hand'[c] = hand[c] /\ written'[c] = written[c]
        /\ hand[c] = 0 /\ queue[c] = <<>> /\ c \in closed
    BY <1>1, <1>8 DEF WriterEnds, queues
  <2>2. ~Replacing(c)
    <3>1. todo \in Seq(Todos)
      BY DEF TypeOK, Todos
    <3>2. todo # <<>> => 1 \in 1 .. Len(todo) /\ Head(todo) = todo[1]
      BY <3>1
    <3>. QED BY <2>1, <3>2 DEF Agree, TodoInv, Replacing
  <2>3. Written(sent[c], written[c])
    BY <1>1, <2>1, <2>2 DEF Frames, Written
  <2>4. Frames(c)'
    BY <1>1, <1>2, <1>4, <2>1, <2>3 DEF Frames
  <2>. QED BY <1>3, <2>4 DEF FrameInv
<1>. QED BY <1>5, <1>6, <1>7, <1>8 DEF Writer

\* A frame sent is the newest of the queue, and one dropped makes room in a queue that
\* is about to get a newer one.
LEMMA HandleFrames ==
  ASSUME TypeOK, Agree, FrameInv, Handle
  PROVE  FrameInv'
<1>n. PICK now : now = todo[1]
  OBVIOUS
<1>1. /\ Len(todo) \in Nat \ {0} /\ now \in Todos /\ todo' \in Seq(Todos) /\ todo \in Seq(Todos)
      /\ Done(now) \/ Retries(now)
      /\ UNCHANGED writers
  BY <1>n, HandleShape DEF TypeOK, Todos
<1>2. /\ now.conn \in Conn /\ UNCHANGED <<hand, written, writer>>
      /\ \A d \in Conn : Replacing(d) <=> now.conn = d /\ now.op \in {"send", "drop"}
  <2>1. Head(todo) = now /\ todo # <<>>
    BY <1>n, <1>1
  <2>. QED BY <1>1, <2>1, Records DEF writers, Replacing
<1>3. /\ queue \in [Conn -> Seq(Nat \ {0})] /\ sent \in [Conn -> Nat]
      /\ \A d \in Conn : Frames(d)
  BY DEF TypeOK, FrameInv
<1>c. PICK c \in Conn : c = now.conn
  BY <1>2
<1>q. /\ queue[c] \in Seq(Nat) /\ sent[c] \in Nat /\ hand[c] \in Nat
      /\ written[c] \in Seq(Nat) /\ Frames(c)
  BY <1>3, FrameTypes
<1>4. CASE Closes(now) \/ Replies(now)
  <2>1. /\ now.op \notin {"send", "drop"} /\ queue' = queue /\ sent' = sent
        /\ closed \subseteq closed'
    BY <1>4 DEF Closes, Replies
  <2>2. ASSUME NEW d \in Conn PROVE Frames(d)'
    BY <1>2, <1>3, <2>1, FramesSame
  <2>. QED BY <2>2 DEF FrameInv
<1>5. CASE Sends(now)
  <2>1. ASSUME NEW d \in Conn, d # c PROVE Frames(d)'
    BY <1>c, <1>2, <1>3, <1>5, <2>1, FramesSame DEF Sends
  <2>2. /\ queue'[c] = Append(queue[c], sent[c] + 1) /\ sent'[c] = sent[c] + 1
        /\ c \notin closed /\ hand'[c] = hand[c] /\ written'[c] = written[c] /\ writer'[c] = writer[c]
    BY <1>c, <1>2, <1>3, <1>5 DEF Sends
  <2>3. Ordered(queue'[c], sent'[c], hand[c], written[c]) /\ queue'[c] # <<>>
    BY <1>q, <2>2, SendOrdered DEF Frames
  <2>4. Frames(c)'
    BY <1>q, <2>2, <2>3 DEF Frames
  <2>. QED BY <2>1, <2>4 DEF FrameInv
<1>6. CASE Retries(now)
  <2>1. /\ \A d \in Conn : Replacing(d) => Replacing(d)'
        /\ Replacing(c)' /\ UNCHANGED <<sent, closed>>
    <3>1. Head(todo') = todo'[1] /\ todo' # <<>>
      BY <1>1, <1>6 DEF Retries
    <3>. QED BY <1>c, <1>2, <1>6, <3>1 DEF Retries, Replacing, IsFull, Drops
  <2>2. ASSUME NEW d \in Conn, d # c \/ queue'[c] = queue[c] PROVE Frames(d)'
    <3>1. queue'[d] = queue[d]
      BY <1>c, <1>2, <1>3, <1>6, <2>2 DEF Retries, IsFull, Drops
    <3>. QED BY <1>2, <1>3, <2>1, <3>1, FramesSame
  <2>3. CASE Drops(now) /\ queue[c] # <<>>
    <3>1. /\ queue'[c] = Tail(queue[c]) /\ sent'[c] = sent[c]
          /\ hand'[c] = hand[c] /\ written'[c] = written[c] /\ writer'[c] = writer[c]
      BY <1>c, <1>2, <1>3, <2>1, <2>3 DEF Drops
    <3>2. Ordered(queue'[c], sent[c], hand[c], written[c])
      BY <1>q, <2>3, <3>1, DropOrdered DEF Frames
    <3>3. Frames(c)'
      BY <1>q, <2>1, <3>1, <3>2 DEF Frames
    <3>. QED BY <2>2, <3>3 DEF FrameInv
  <2>4. CASE ~(Drops(now) /\ queue[c] # <<>>)
    <3>1. queue'[c] = queue[c]
      BY <1>c, <1>2, <1>3, <1>6, <2>4 DEF Retries, IsFull, Drops
    <3>. QED BY <2>2, <3>1 DEF FrameInv
  <2>. QED BY <2>3, <2>4
<1>. QED BY <1>1, <1>4, <1>5, <1>6 DEF Done

(***************************************************************************)
(* The theorems.                                                           *)
(***************************************************************************)

\* The invariant holds when the server starts.
LEMMA InitInv == Init => IInv
<1> SUFFICES ASSUME Init PROVE IInv
  OBVIOUS
<1> USE Capacities
<1>1. TypeOK
  BY DEF Init, TypeOK, ReaderStates
<1>2. \A i \in 1 .. Len(<<>>) : FALSE
  OBVIOUS
<1>3. Players = {} /\ IsInjective(order)
  BY DEF Init, Players, Range, IsInjective
<1>4. EventInv
  BY <1>2 DEF Init, EventInv
<1>5. TodoInv
  BY <1>2, <1>3 DEF Init, TodoInv
<1>6. PlayerInv
  BY <1>2, <1>3 DEF Init, PlayerInv, Answering
<1>7. FrameInv
  BY <1>2 DEF Init, FrameInv, Frames, Ordered, Written
<1>. QED BY <1>1, <1>4, <1>5, <1>6, <1>7 DEF IInv

\* Every step of every goroutine keeps the invariant.
LEMMA NextInv ==
  ASSUME IInv, [Next]_vars
  PROVE  IInv'
<1>1. TypeOK /\ Agree /\ FrameInv /\ IsInjective(order)
  BY DEF IInv, Agree, PlayerInv
<1>2. TypeOK'
  BY <1>1, TypeNext
<1>3. ASSUME NEW c \in Conn, Reader(c) PROVE Agree' /\ FrameInv'
  <2>1. Moves(c) /\ UNCHANGED <<reply, hubs, queues, writers>>
    BY <1>1, <1>3, ReaderMoves
  <2>2. \A d \in Conn : Frames(d)'
    BY <1>1, <2>1, FramesSame DEF FrameInv, Replacing, hubs, queues, writers
  <2>. QED BY <1>1, <2>1, <2>2, ReaderAgrees DEF FrameInv
<1>4. ASSUME NEW c \in Conn, Writer(c) PROVE Agree' /\ FrameInv'
  BY <1>1, <1>4, WriterAgrees, WriterFrames
<1>5. ASSUME Dispatch \/ Tick \/ Shutdown PROVE Agree' /\ FrameInv'
  <2>1. todo = <<>> /\ UNCHANGED <<queues, writers>>
    BY <1>5 DEF Dispatch, Tick, Shutdown
  <2>2. \A d \in Conn : Frames(d)'
    BY <1>1, <2>1, FramesSame DEF FrameInv, Replacing, queues, writers
  <2>. QED BY <1>1, <1>5, <2>2, DispatchAgrees, TickAgrees, ShutdownAgrees DEF FrameInv
<1>6. CASE Handle
  <2>1. Done(todo[1]) \/ Retries(todo[1])
    BY <1>1, <1>6, HandleShape
  <2>. QED BY <1>1, <1>6, <2>1, DoneAgrees, RetriesAgrees, HandleFrames, <1>2 DEF IInv, Agree
<1>7. CASE UNCHANGED vars
  <2>1. UNCHANGED <<reader, reply, lost, events, hub, todo, order, closed>>
    BY <1>7 DEF vars, readers, hubs, queues
  <2>2. Agree'
    BY <1>1, <2>1
    DEF Agree, EventInv, TodoInv, PlayerInv, Players, Fresh, Answering, Leaving
  <2>3. \A d \in Conn : Frames(d)'
    BY <1>1, <1>7, FramesSame DEF FrameInv, Replacing, vars, hubs, queues, writers
  <2>. QED BY <2>2, <2>3, <1>2 DEF IInv, Agree, FrameInv
<1>. QED BY <1>2, <1>3, <1>4, <1>5, <1>6, <1>7 DEF Next, IInv, Agree

\* The inductive invariant holds in every reachable state, for any number of connections.
THEOREM Invariance == Spec => []IInv
<1>. QED BY InitInv, NextInv, PTL DEF Spec

\* The event channel, the send queues and the registry never exceed their capacity.
THEOREM Typed == Spec => []TypeOK
<1>1. IInv => TypeOK
  BY DEF IInv
<1>. QED BY Invariance, <1>1, PTL

\* The hub never sends on a closed queue, where Go panics: handleLeave takes the leaver out of
\* the registry before it closes its queue, and nobody is added to it twice.
THEOREM NoSend == Spec => []NoSendOnClosed
<1>1. IInv => NoSendOnClosed
  <2>. SUFFICES ASSUME IInv, todo # <<>> PROVE NoSendOnClosed
    BY DEF NoSendOnClosed
  <2>1. todo \in Seq(Todos)
    BY DEF IInv, TypeOK, Todos
  <2>2. 1 \in 1 .. Len(todo) /\ Head(todo) = todo[1]
    BY <2>1
  <2>. QED BY <2>2 DEF IInv, TodoInv, NoSendOnClosed
<1>. QED BY Invariance, <1>1, PTL

\* What the hub and the readers believe of each other agrees at every moment: a player's
\* reader has its session or soon will, and who reads as a player is one (handleJoin,
\* handleLeave, readPump), whatever events the full channel has lost.
THEOREM Sessions == Spec => []SessionsAgree
<1>1. IInv => SessionsAgree
  <2>. SUFFICES ASSUME IInv PROVE SessionsAgree
    OBVIOUS
  <2>1. todo \in Seq(Todos) /\ events \in Seq(Events)
    BY DEF IInv, TypeOK, Todos, Events
  <2>2. \A c \in Conn : (Answering(c) => Pending(c)) /\ (Leaving(c) => LeaveQueued(c))
    BY <2>1 DEF Answering, Pending, Leaving, LeaveQueued, Range
  <2>3. \A c \in Conn : reader[c] = "playing" => c \in Players
    BY DEF IInv, PlayerInv
  <2>. QED BY <2>2, <2>3 DEF IInv, PlayerInv, SessionsAgree
<1>. QED BY Invariance, <1>1, PTL

\* The newest frame is never lost, frames are written in order and once, and a clean end
\* flushes (clientConn.enqueue, writePump), for any capacities and any number of frames.
THEOREM Delivery == Spec => []FramesDelivered
<1>1. IInv => FramesDelivered
  <2>. SUFFICES ASSUME IInv PROVE FramesDelivered
    OBVIOUS
  <2>1. ASSUME NEW c \in Conn
        PROVE  /\ \A i \in DOMAIN queue[c] : queue[c][i] = sent[c] - Len(queue[c]) + i
               /\ sent[c] > 0 /\ ~Replacing(c)
                    => sent[c] \in Range(queue[c]) \cup {hand[c]} \cup Range(written[c])
               /\ \A i, j \in DOMAIN written[c] : i < j => written[c][i] < written[c][j]
               /\ writer[c] = "ended" /\ sent[c] > 0
                    => written[c] # <<>> /\ Last(written[c]) = sent[c]
    <3>1. /\ queue[c] \in Seq(Nat \ {0}) /\ Len(queue[c]) \in Nat
          /\ sent[c] \in Nat /\ hand[c] \in Nat
          /\ written[c] \in Seq(Nat) /\ Len(written[c]) \in Nat
          /\ Frames(c)
      BY FrameTypes DEF IInv, FrameInv
    <3>2. DOMAIN queue[c] = 1 .. Len(queue[c]) /\ DOMAIN written[c] = 1 .. Len(written[c])
      BY <3>1
    <3>3. \A i \in 1 .. Len(queue[c]) : queue[c][i] = sent[c] - Len(queue[c]) + i
      BY <3>1 DEF Frames, Ordered
    <3>4. \A i, j \in 1 .. Len(written[c]) : i < j => written[c][i] < written[c][j]
      BY <3>1 DEF Frames, Ordered
    <3>5. Written(sent[c], written[c]) /\ sent[c] > 0 =>
            written[c] # <<>> /\ Last(written[c]) = sent[c] /\ sent[c] \in Range(written[c])
      <4>1. written[c] # <<>> => Len(written[c]) \in DOMAIN written[c]
        BY <3>1
      <4>. QED BY <4>1 DEF Written, Last, Range
    <3>6. queue[c] # <<>> => sent[c] \in Range(queue[c])
      <4>1. queue[c] # <<>> => Len(queue[c]) \in 1 .. Len(queue[c])
        BY <3>1
      <4>2. queue[c] # <<>> => queue[c][Len(queue[c])] = sent[c] - Len(queue[c]) + Len(queue[c])
        BY <3>3, <4>1
      <4>3. queue[c] # <<>> => queue[c][Len(queue[c])] = sent[c]
        BY <3>1, <4>2
      <4>. QED BY <3>2, <4>1, <4>3 DEF Range
    <3>. QED BY <3>1, <3>2, <3>3, <3>4, <3>5, <3>6 DEF Frames
  <2>. QED BY <2>1 DEF FramesDelivered, NewestKept, WrittenInOrder, ClosedAfterFlush
<1>. QED BY Invariance, <1>1, PTL

(***************************************************************************)
(* The hub's side of a connection's life.                                  *)
(***************************************************************************)

\* A close of c is still to be done.
Closing(c) == \E i \in 1 .. Len(todo) : todo[i] = Close(c)

\* A life in terms of what is still to be closed.
LEMMA LifeIs ==
  ASSUME TypeOK, NEW c \in Conn
  PROVE  Life[c] = IF c \in closed \/ (c \notin Players /\ Closing(c)) THEN "over"
                   ELSE IF c \in Players THEN "playing" ELSE "connected"
<1>1. todo \in Seq(Todos)
  BY DEF TypeOK, Todos
<1>2. DOMAIN todo = 1 .. Len(todo)
  BY <1>1
<1>3. Close(c) \in Range(todo) <=> Closing(c)
  BY <1>2 DEF Range, Closing
<1>. QED BY <1>3 DEF Life

\* The same after a step.
LEMMA LifeBecomes ==
  ASSUME TypeOK', NEW c \in Conn
  PROVE  Life'[c] = IF c \in closed' \/ (c \notin Players' /\ Closing(c)') THEN "over"
                    ELSE IF c \in Players' THEN "playing" ELSE "connected"
<1>1. /\ todo' \in Seq(Todos)
      /\ Len(todo') \in Nat
  BY DEF TypeOK, Todos
<1>2. DOMAIN todo' = 1 .. Len(todo')
  BY <1>1
<1>3. (Close(c) \in Range(todo))' <=> Closing(c)'
  BY <1>2 DEF Range, Closing
<1>4. Life'[c] = IF c \in closed' \/ (c \notin Players' /\ (Close(c) \in Range(todo))') THEN "over"
                 ELSE IF c \in Players' THEN "playing" ELSE "connected"
  BY DEF Life, Close
<1>. QED BY <1>3, <1>4

\* A life that only one connection's step has changed.
LEMMA LifeOfOne ==
  ASSUME NEW c \in Conn, NEW to, Life'[c] = to, \A d \in Conn : d # c => Life'[d] = Life[d]
  PROVE  Life' = [Life EXCEPT ![c] = to]
BY DEF Life

\* A hub with room has a seat that the abstract one has too.
LEMMA Seats ==
  ASSUME TypeOK, HasRoom
  PROVE  Cardinality(C!Playing) < MaxPlayers
<1>1. order \in Seq(Conn) /\ Len(order) \in Nat /\ Len(order) < MaxPlayers /\ MaxPlayers \in Nat
  BY Capacities DEF TypeOK, HasRoom
<1>2. IsFiniteSet(1 .. Len(order)) /\ Cardinality(1 .. Len(order)) = Len(order)
  <2>1. 1 \in Int /\ Len(order) \in Int
    BY <1>1
  <2>2. /\ IsFiniteSet(1 .. Len(order))
        /\ Cardinality(1 .. Len(order)) = IF 1 > Len(order) THEN 0 ELSE Len(order) - 1 + 1
    BY <2>1, FS_Interval
  <2>. QED BY <1>1, <2>2
<1>3. order \in Surjection(1 .. Len(order), Players)
  BY <1>1 DEF Surjection, Players, Range
<1>4. IsFiniteSet(Players) /\ Cardinality(Players) <= Len(order)
  BY <1>2, <1>3, FS_Surjection
<1>5. C!Playing \in SUBSET Players
  BY DEF C!Playing, Life
<1>6. IsFiniteSet(C!Playing) /\ Cardinality(C!Playing) <= Cardinality(Players)
  BY <1>4, <1>5, FS_Subset
<1>7. Cardinality(Players) \in Nat /\ Cardinality(C!Playing) \in Nat
  BY <1>4, <1>6, FS_CardinalityType
<1>. QED BY <1>1, <1>4, <1>6, <1>7

\* Serving an event accepts its connection, ends it, or leaves all lives alone.
LEMMA DispatchLives ==
  ASSUME TypeOK, TypeOK', Agree, Dispatch
  PROVE  C!Next \/ UNCHANGED Life
<1>e. PICK e : e = events[1]
  OBVIOUS
<1>c. PICK c : c = e.conn
  OBVIOUS
<1>1. IsInjective(order) /\ order \in Seq(Conn)
  BY DEF Agree, PlayerInv, TypeOK
<1>2. /\ hub = "running" /\ todo = <<>> /\ Len(events) \in Nat \ {0}
      /\ events' \in Seq(Events) /\ Len(events') = Len(events) - 1
      /\ \A i \in 1 .. Len(events) - 1 : events'[i] = events[i + 1]
      /\ Serves(e) /\ order' \in Seq(Conn)
      /\ UNCHANGED <<reader, reply, closed>>
  BY <1>e, <1>1, DispatchShape DEF readers, queues
<1>3. /\ c \in Conn
      /\ e.kind = "join" => Fresh(c)
  BY <1>e, <1>c, <1>2, EventTaken
<1>4. \A d \in Conn :
        /\ Fresh(d) => d \notin Players /\ d \notin closed
        /\ d \in Players => reply[d] = "session" /\ d \notin closed
  BY <1>2, Idle
<1>5. \A d \in Conn : Life[d] = IF d \in closed THEN "over"
                                ELSE IF d \in Players THEN "playing" ELSE "connected"
  BY <1>2, LifeIs DEF Closing
<1>6. \A d \in Conn :
        Life'[d] = IF d \in closed \/ (d \notin Players' /\ Closing(d)') THEN "over"
                   ELSE IF d \in Players' THEN "playing" ELSE "connected"
  BY <1>2, LifeBecomes
<1>7. CASE e.kind = "join" /\ Accepts(c)
  <2>1. /\ order' = Append(order, c) /\ Len(todo') = Len(order) + 3 /\ HasRoom
        /\ todo'[1] = Send(c) /\ todo'[Len(order) + 3] = Answer(c)
        /\ \A i \in 1 .. Len(order) + 1 : todo'[i + 1] = Send(order'[i])
    BY <1>7 DEF Accepts
  <2>2. Players' = Players \cup {c} /\ Len(order) \in Nat
    BY <1>1, <1>3, <1>4, <1>7, <2>1, AppendNew DEF Players
  <2>3. \A i \in 1 .. Len(order) + 1 : order'[i] \in Conn
    BY <1>1, <1>3, <2>1
  <2>4. ASSUME NEW i \in 1 .. Len(todo') PROVE todo'[i].op # "close"
    <3>1. \/ i = 1 \/ i = Len(order) + 3
          \/ i - 1 \in 1 .. Len(order) + 1 /\ (i - 1) + 1 = i
      BY <2>1, <2>2
    <3>2. CASE i - 1 \in 1 .. Len(order) + 1 /\ (i - 1) + 1 = i
      <4>1. todo'[i] = Send(order'[i - 1])
        BY <2>1, <3>2
      <4>. QED BY <2>3, <3>2, <4>1, Records
    <3>. QED BY <1>3, <2>1, <3>1, <3>2, Records
  <2>5. \A d \in Conn : ~Closing(d)'
    BY <2>4, Records DEF Closing
  <2>6. Life[c] = "connected" /\ Life' = [Life EXCEPT ![c] = "playing"]
    BY <1>3, <1>4, <1>5, <1>6, <1>7, <2>2, <2>5, LifeOfOne
  <2>7. C!Accept(c)
    BY <2>1, <2>6, Seats DEF C!Accept, C!Cardinality, Cardinality
  <2>. QED BY <1>3, <2>7 DEF C!Next
<1>8. ASSUME Players' = Players \/ Players' = Players \ {c},
             Closing(c)', c \notin Players', \A d \in Conn : Closing(d)' => d = c
      PROVE  C!Next \/ UNCHANGED Life
  <2>1. Life'[c] = "over" /\ \A d \in Conn : d # c => Life'[d] = Life[d]
    BY <1>3, <1>5, <1>6, <1>8
  <2>2. Life' = [Life EXCEPT ![c] = "over"]
    BY <1>3, <2>1, LifeOfOne
  <2>3. CASE Life[c] # "over"
    BY <1>3, <2>2, <2>3 DEF C!Next, C!End
  <2>4. CASE Life[c] = "over"
    BY <2>2, <2>4 DEF Life
  <2>. QED BY <2>3, <2>4
<1>9. CASE e.kind = "join" /\ Refuse(c)
  <2>1. todo' = <<Send(c), Close(c), Decline(c)>> /\ Players' = Players
    BY <1>9 DEF Refuse, Players
  <2>2. /\ Len(todo') = 3 /\ todo'[1] = Send(c) /\ todo'[2] = Close(c) /\ todo'[3] = Decline(c)
        /\ 2 \in 1 .. Len(todo') /\ \A i \in 1 .. Len(todo') : i \in {1, 2, 3}
    BY <2>1
  <2>3. Closing(c)'
    BY <2>2 DEF Closing, Close
  <2>4. \A d \in Conn : Closing(d)' => d = c
    BY <1>3, <2>2, Records DEF Closing
  <2>. QED BY <1>3, <1>4, <1>8, <1>9, <2>1, <2>3, <2>4
<1>10. CASE e.kind = "flap" /\ UNCHANGED <<todo, order>>
  <2>1. Players' = Players /\ \A d \in Conn : ~Closing(d)'
    BY <1>2, <1>10 DEF Players, Closing
  <2>2. UNCHANGED Life
    BY <1>2, <1>10 DEF Life, Players
  <2>. QED BY <2>2
<1>11. CASE e.kind = "leave" /\ Leaves(c)
  <2>1. /\ order' = RemoveFirst(order, c)
        /\ \/ todo' = <<Close(c)>>
           \/ /\ Len(todo') = Len(order') + 1 /\ todo'[Len(order') + 1] = Close(c)
              /\ \A i \in 1 .. Len(order') : todo'[i] = Send(order'[i])
    BY <1>11 DEF Leaves
  <2>2. Players' = Players \ {c} /\ Len(order') \in Nat
    <3> DEFINE left == RemoveFirst(order, c)
    <3>1. Range(left) = Range(order) \ {c}
      BY <1>1, <1>3, RemoveFirstKeeps
    <3> HIDE DEF left
    <3>2. Range(order') = Range(order) \ {c}
      BY <2>1, <3>1 DEF left
    <3>. QED BY <1>2, <3>2 DEF Players
  <2>3. \A i \in 1 .. Len(order') : order'[i] \in Conn
    BY <1>2
  <2>4. ASSUME NEW i \in 1 .. Len(todo') PROVE todo'[i] = Close(c) \/ todo'[i].op = "send"
    <3>1. CASE todo' = <<Close(c)>>
      BY <2>4, <3>1
    <3>2. CASE /\ Len(todo') = Len(order') + 1 /\ todo'[Len(order') + 1] = Close(c)
               /\ \A k \in 1 .. Len(order') : todo'[k] = Send(order'[k])
      <4>1. i = Len(order') + 1 \/ i \in 1 .. Len(order')
        BY <2>2, <2>4, <3>2
      <4>. QED BY <2>3, <3>2, <4>1, Records
    <3>. QED BY <2>1, <3>1, <3>2
  <2>5. \A d \in Conn : Closing(d)' => d = c
    BY <1>3, <2>4, Records DEF Closing
  <2>6. Closing(c)'
    <3>1. \E i \in 1 .. Len(todo') : todo'[i] = Close(c)
      <4>1. CASE todo' = <<Close(c)>>
        <5>1. 1 \in 1 .. Len(todo') /\ todo'[1] = Close(c)
          BY <4>1
        <5>. QED BY <5>1
      <4>2. CASE Len(todo') = Len(order') + 1 /\ todo'[Len(order') + 1] = Close(c)
        <5>1. Len(order') + 1 \in 1 .. Len(todo')
          BY <2>2, <4>2
        <5>. QED BY <4>2, <5>1
      <4>. QED BY <2>1, <4>1, <4>2
    <3>. QED BY <3>1 DEF Closing, Close
  <2>. QED BY <1>8, <2>2, <2>5, <2>6
<1>12. CASE /\ e.kind = "leave" /\ reply[c] # "session"
            /\ todo' = <<Close(c)>> /\ UNCHANGED order
  <2>1. /\ Len(todo') = 1 /\ todo'[1] = Close(c) /\ Players' = Players
        /\ 1 \in 1 .. Len(todo') /\ \A i \in 1 .. Len(todo') : i = 1
    BY <1>12 DEF Players
  <2>2. Closing(c)' /\ \A d \in Conn : Closing(d)' => d = c
    BY <1>3, <2>1, Records DEF Closing, Close
  <2>. QED BY <1>3, <1>4, <1>8, <1>12, <2>1, <2>2
<1>. QED BY <1>2, <1>7, <1>9, <1>10, <1>11, <1>12, <1>c DEF Serves

\* What is still to be closed once the first operation is done.
LEMMA Shifted ==
  ASSUME Len(todo) \in Nat \ {0}, Done(todo[1]), NEW d \in Conn
  PROVE  Closing(d) <=> Closing(d)' \/ todo[1] = Close(d)
<1>1. /\ 1 \in 1 .. Len(todo)
      /\ \A i \in 1 .. Len(todo') : i + 1 \in 1 .. Len(todo) /\ todo'[i] = todo[i + 1]
      /\ \A i \in 1 .. Len(todo) : i # 1 => i - 1 \in 1 .. Len(todo') /\ todo'[i - 1] = todo[i]
  BY DEF Done
<1>2. Closing(d)' => Closing(d)
  BY <1>1 DEF Closing, Close
<1>3. Closing(d) => Closing(d)' \/ todo[1] = Close(d)
  BY <1>1 DEF Closing, Close
<1>. QED BY <1>1, <1>2, <1>3 DEF Closing

\* A close that is done ends the life of its connection, if a leave or a refusal has not.
LEMMA HandleLives ==
  ASSUME TypeOK, TypeOK', Handle
  PROVE  C!Next \/ UNCHANGED Life
<1>n. PICK now : now = todo[1]
  OBVIOUS
<1>1. /\ Len(todo) \in Nat \ {0} /\ now \in Todos /\ 1 \in 1 .. Len(todo)
      /\ Done(now) \/ Retries(now)
      /\ order' = order
  BY <1>n, HandleShape
<1>2. Players' = Players
  BY <1>1 DEF Players
<1>3. /\ \A d \in Conn : Life[d] = IF d \in closed \/ (d \notin Players /\ Closing(d)) THEN "over"
                                   ELSE IF d \in Players THEN "playing" ELSE "connected"
      /\ \A d \in Conn :
           Life'[d] = IF d \in closed' \/ (d \notin Players /\ Closing(d)') THEN "over"
                      ELSE IF d \in Players THEN "playing" ELSE "connected"
  BY <1>2, LifeIs, LifeBecomes
<1>4. CASE Done(now) /\ Closes(now)
  <2>b. PICK b : b = now.conn
    OBVIOUS
  <2>1. b \in Conn /\ now = Close(b) /\ closed' = closed \cup {b}
    BY <2>b, <1>1, <1>4, Records DEF Closes
  <2>2. ASSUME NEW d \in Conn, d # b PROVE Closing(d) <=> Closing(d)'
    BY <1>n, <1>1, <1>4, <2>1, <2>2, Shifted, Records
  <2>3. /\ Life'[b] = "over" /\ \A d \in Conn : d # b => Life'[d] = Life[d]
    BY <1>3, <2>1, <2>2
  <2>4. Life' = [Life EXCEPT ![b] = "over"]
    BY <2>1, <2>3, LifeOfOne
  <2>5. CASE Life[b] # "over"
    BY <2>1, <2>4, <2>5 DEF C!Next, C!End
  <2>6. CASE Life[b] = "over"
    BY <2>4, <2>6 DEF Life
  <2>. QED BY <2>5, <2>6
<1>5. CASE Done(now) /\ ~Closes(now)
  <2>1. closed' = closed /\ now.op # "close"
    BY <1>5 DEF Done, Sends, Replies
  <2>2. \A d \in Conn : Closing(d) <=> Closing(d)'
    BY <1>n, <1>1, <1>5, <2>1, Shifted, Records
  <2>3. \A d \in Conn : Life'[d] = Life[d]
    BY <1>3, <2>1, <2>2
  <2>. QED BY <2>3 DEF Life
<1>6. CASE Retries(now)
  <2>1. /\ closed' = closed /\ now.op # "close" /\ todo'[1].op # "close" /\ Len(todo') = Len(todo)
        /\ \A i \in 2 .. Len(todo) : todo'[i] = todo[i]
    BY <1>6 DEF Retries, IsFull, Drops
  <2>2. \A i \in 1 .. Len(todo) : i = 1 \/ i \in 2 .. Len(todo)
    BY <1>1
  <2>3. \A d \in Conn : Closing(d) <=> Closing(d)'
    BY <1>n, <1>1, <2>1, <2>2, Records DEF Closing
  <2>4. \A d \in Conn : Life'[d] = Life[d]
    BY <1>3, <2>1, <2>3
  <2>. QED BY <2>4 DEF Life
<1>. QED BY <1>1, <1>4, <1>5, <1>6

\* What the hub takes a connection for, whatever the goroutines do (Run, handleJoin,
\* handleLeave, shutdown): it is seated at most once, by a hub with room, and over for good.
THEOREM TransportImplementsConnections == Spec => ImplementsConnections
<1>1. Init => C!Init
  <2> SUFFICES ASSUME Init PROVE C!Init
    OBVIOUS
  <2>1. closed = {} /\ Players = {} /\ Range(todo) = {}
    BY DEF Init, Players, Range
  <2>. QED BY <2>1 DEF C!Init, Life
<1>2. IInv /\ IInv' /\ [Next]_vars => [C!Next]_Life
  <2> SUFFICES ASSUME IInv, IInv', [Next]_vars PROVE C!Next \/ UNCHANGED Life
    OBVIOUS
  <2>1. TypeOK /\ TypeOK' /\ Agree
    BY DEF IInv, Agree
  <2>2. ASSUME UNCHANGED <<closed, order, todo>> PROVE UNCHANGED Life
    BY <2>2 DEF Life, Players
  <2>3. ASSUME NEW c \in Conn, Reader(c) \/ Writer(c) PROVE UNCHANGED <<closed, order, todo>>
    <3>1. CASE Reader(c)
      BY <2>1, <3>1, ReaderMoves DEF hubs, queues
    <3>2. CASE Writer(c)
      BY <3>2 DEF Writer, TakeFrame, WriteFrame, WriteFails, WriterEnds, hubs, queues
    <3>. QED BY <2>3, <3>1, <3>2
  <2>4. CASE Tick \/ Shutdown
    <3>1. /\ todo = <<>> /\ closed' = closed /\ Players' = Players /\ order \in Seq(Conn)
      BY <2>1, <2>4 DEF Tick, Shutdown, queues, Players, TypeOK
    <3>2. \A d \in Conn : ~Closing(d) /\ (Closing(d)' => d \in Players)
      <4>1. \A d \in Conn : ~Closing(d)
        BY <3>1 DEF Closing
      <4>2. \A i \in 1 .. Len(todo') : todo'[i].op = "send" \/ todo'[i].conn \in Players
        <5>1. CASE Tick
          <6>1. \A i \in 1 .. Len(todo') : todo'[i] = Send(order[i]) /\ order[i] \in Conn
            BY <3>1, <5>1, BroadcastOps DEF Tick
          <6>. QED BY <6>1, Records
        <5>2. CASE Shutdown
          BY <3>1, <5>2, ClosingOps DEF Shutdown, Players
        <5>. QED BY <2>4, <5>1, <5>2
      <4>. QED BY <4>1, <4>2, Records DEF Closing
    <3>3. \A d \in Conn : Life'[d] = Life[d]
      BY <2>1, <3>1, <3>2, LifeIs, LifeBecomes
    <3>. QED BY <3>3 DEF Life
  <2>5. CASE UNCHANGED vars
    BY <2>2, <2>5 DEF vars, hubs, queues
  <2>. QED BY <2>1, <2>2, <2>3, <2>4, <2>5, DispatchLives, HandleLives DEF Next
<1>. QED BY <1>1, <1>2, Invariance, PTL DEF Spec, ImplementsConnections, C!Spec

=============================================================================
