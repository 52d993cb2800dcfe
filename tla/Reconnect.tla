------------------------------ MODULE Reconnect ------------------------------
(***************************************************************************)
(* The connection of a flappy-race client (internal/client: game.go,       *)
(* net.go, backoff.go, session.go) over losses of the network, stops and   *)
(* restarts of the server, refusals, and sessions the server has not yet   *)
(* noticed are dead.                                                       *)
(*                                                                         *)
(* The client is its render loop (Update), the goroutine of an attempt,    *)
(* and per connection the reader and the writer. A frame is its kind; a    *)
(* snapshot in the ring is the connection it came from. The server is what *)
(* a client sees of it: joins that are refused, named apart or welcomed,   *)
(* broadcasts, and the sessions of others.                                 *)
(***************************************************************************)
EXTENDS Naturals, FiniteSets, FiniteSetsExt, SequencesExt

CONSTANTS
  Bases,         \* names players pick
  BaseLen,       \* their lengths
  MaxNameLen,    \* protocol.MaxNameLen
  MaxPlayers,
  RingLen,       \* protocol.RingLen
  BaseDelay, MaxDelay,   \* retryBaseDelay and retryMaxDelay
  MaxConns,      \* bound: connections ever made
  MaxFaults,     \* bound: failures of the network, stops of the server
  MaxOthers,     \* bound: joins of other players
  None

ReconnectAssumption ==
  /\ BaseLen \in [Bases -> Nat]
  /\ {MaxNameLen, MaxPlayers, RingLen, BaseDelay, MaxDelay, MaxConns} \subseteq Nat \ {0}
  /\ BaseDelay <= MaxDelay /\ MaxFaults \in Nat /\ MaxOthers \in Nat
  /\ None \notin Nat

VARIABLES
  net,           \* Game.net: a connection or None
  fatal,         \* Game.fatal is set
  dial,          \* the attempt: "none" | "dialing" | "joining" | "failed" | "joined"
  dialed,        \* the connection of the attempt
  dialName,      \* the name it joins with
  attempts,      \* consecutive failures
  wait,          \* the time until nextTry
  ring,          \* the connections of the snapshots in Game.ring, oldest first
  sess,          \* DefaultSess.name
  picked,        \* Game.name
  conns,         \* the connections made so far, see Conn
  up,            \* the server runs
  others,        \* names of the other players' sessions
  othersJoined,  \* joins of others so far
  faults         \* faults so far

attempt == <<dial, dialed, dialName, attempts, wait>>
game == <<net, fatal, ring, picked>>
server == <<up, others, othersJoined>>
vars == <<net, fatal, dial, dialed, dialName, attempts, wait, ring, sess, picked,
          conns, up, others, othersJoined, faults>>

\* A name is the one a player picked and the numbers the server put after it.
NameLen(n) == BaseLen[n[1]] + 2 * (Len(n) - 1)
ValidName(n) == NameLen(n) \in 1..MaxNameLen

ConnIds == 1..Len(conns)
Frames == {"welcome", "snapshot", "error"}

TypeOK ==
  /\ net \in ConnIds \cup {None} /\ fatal \in BOOLEAN
  /\ dial \in {"none", "dialing", "joining", "failed", "joined"}
  /\ dialed \in ConnIds \cup {None} /\ (dialed # None <=> dial \in {"joining", "joined"})
  /\ dial # "none" => net = None
  /\ attempts \in Nat /\ wait \in 0..MaxDelay
  /\ ring \in Seq(ConnIds) /\ Len(ring) <= RingLen
  /\ picked \in Bases /\ (sess # None => sess[1] = picked)
  /\ \A i \in ConnIds :
       LET c == conns[i] IN
         /\ c.alive \in BOOLEAN /\ c.reads \in BOOLEAN /\ c.snaps \in 0..RingLen
         /\ c.inbox \in Seq(Frames) /\ c.err \in {"none", "lost", "fatal"}
         /\ c.server \in {"accepted", "asked", "session", "gone"}
         /\ c.server = "session" => up
  /\ up \in BOOLEAN /\ faults \in 0..MaxFaults /\ othersJoined \in 0..MaxOthers

-----------------------------------------------------------------------------
(* Helpers *)

Set(i, c) == conns' = [conns EXCEPT ![i] = c]
Fault == faults < MaxFaults /\ faults' = faults + 1

\* Mutant of RetryDelay: the pause is not capped.
RetryDelayUncapped(n) == BaseDelay * 2^(n - 1)

RetryDelay(n) ==
  LET delay[k \in 1..n] == IF k = 1 THEN BaseDelay ELSE Min({2 * delay[k - 1], MaxDelay})
  IN  delay[n]

\* Failures are counted up to the longest pause, which is all they decide.
ScheduleRetry ==
  /\ attempts' = IF attempts > 0 /\ RetryDelay(attempts) = MaxDelay THEN attempts ELSE attempts + 1
  /\ wait' = RetryDelay(attempts + 1)

-----------------------------------------------------------------------------
(* The render loop: pumpNet *)

\* The snapshots the reader has queued, put into the ring.
Drained(c, i) ==
  LET all == ring \o [k \in 1..c.snaps |-> i]
  IN  SubSeq(all, Max({1, Len(all) - RingLen + 1}), Len(all))

PumpNet ==
  /\ net # None /\ ~fatal
  /\ LET c == conns[net] IN
       /\ ring' = Drained(c, net)
       /\ Set(net, [c EXCEPT !.snaps = 0, !.err = "none"])
       /\ CASE c.err = "none"  -> UNCHANGED <<net, fatal, attempts, wait>>
            [] c.err = "fatal" -> net' = None /\ fatal' = TRUE /\ UNCHANGED <<attempts, wait>>
            [] c.err = "lost"  -> net' = None /\ ScheduleRetry /\ UNCHANGED fatal
  /\ UNCHANGED <<dial, dialed, dialName, sess, picked, server, faults>>

-----------------------------------------------------------------------------
(* The render loop: reconnect, and the goroutine of an attempt *)

StartDial ==
  /\ net = None /\ ~fatal /\ dial = "none" /\ wait = 0
  /\ dial' = "dialing"
  /\ dialName' = IF sess # None THEN sess ELSE <<picked>>
  /\ UNCHANGED <<game, dialed, attempts, wait, sess, conns, server, faults>>

Dial ==
  /\ dial = "dialing"
  /\ IF up
       THEN /\ Len(conns) < MaxConns
            /\ conns' = Append(conns, [alive |-> TRUE, reads |-> FALSE, inbox |-> <<>>, snaps |-> 0,
                                       err |-> "none", server |-> "accepted",
                                       join |-> dialName, name |-> None])
            /\ dial' = "joining" /\ dialed' = Len(conns')
       ELSE dial' = "failed" /\ UNCHANGED <<dialed, conns>>
  /\ UNCHANGED <<game, dialName, attempts, wait, sess, server, faults>>

DialFails ==
  /\ dial = "dialing" /\ Fault
  /\ dial' = "failed"
  /\ UNCHANGED <<game, dialed, dialName, attempts, wait, sess, conns, server>>

Join ==
  /\ dial = "joining"
  /\ LET c == conns[dialed] IN
       IF c.alive
         THEN /\ Set(dialed, [c EXCEPT !.reads = TRUE, !.server = "asked"])
              /\ dial' = "joined" /\ UNCHANGED dialed
         ELSE dial' = "failed" /\ dialed' = None /\ UNCHANGED conns
  /\ UNCHANGED <<game, dialName, attempts, wait, sess, server, faults>>

\* Mutant of TakeDial: the attempt that failed still counts as under way.
TakeDialStuck ==
  \/ /\ dial = "failed" /\ ScheduleRetry
     /\ UNCHANGED <<game, dial, dialed>>
  \/ /\ dial = "joined" /\ dial' = "none" /\ net' = dialed /\ dialed' = None
     /\ attempts' = 0 /\ ring' = <<>>
     /\ UNCHANGED <<fatal, picked, wait>>

TakeDial ==
  \/ /\ dial = "failed" /\ dial' = "none" /\ ScheduleRetry
     /\ UNCHANGED <<game, dialed>>
  \/ /\ dial = "joined" /\ dial' = "none" /\ net' = dialed /\ dialed' = None
     /\ attempts' = 0 /\ ring' = <<>>
     /\ UNCHANGED <<fatal, picked, wait>>

Reconnect ==
  /\ net = None /\ ~fatal
  /\ TakeDial
  /\ UNCHANGED <<dialName, sess, conns, server, faults>>

Tick ==
  /\ wait > 0 /\ wait' = wait - 1
  /\ UNCHANGED <<game, dial, dialed, dialName, attempts, sess, conns, server, faults>>

-----------------------------------------------------------------------------
(* The reader and the writer of a connection *)

\* Mutant of Failed: the connection is left open.
FailedOpen(c, err) ==
  [c EXCEPT !.err = IF @ = "none" THEN err ELSE @, !.reads = FALSE, !.inbox = <<>>]

\* fail: the first error is kept and the connection closed, which ends both loops.
Failed(c, err) ==
  [c EXCEPT !.err = IF @ = "none" THEN err ELSE @, !.reads = FALSE, !.alive = FALSE, !.inbox = <<>>]

ReadFrame(i) ==
  LET c == conns[i] IN
    /\ c.reads /\ c.inbox # <<>>
    /\ CASE Head(c.inbox) = "welcome" ->
              sess' = c.name /\ Set(i, [c EXCEPT !.inbox = Tail(@)])
         [] Head(c.inbox) = "snapshot" ->
              /\ Set(i, [c EXCEPT !.inbox = Tail(@), !.snaps = Min({@ + 1, RingLen})])
              /\ UNCHANGED sess
         [] Head(c.inbox) = "error" ->
              Set(i, Failed(c, "fatal")) /\ UNCHANGED sess
    /\ UNCHANGED <<game, attempt, server, faults>>

ReadFails(i) ==
  LET c == conns[i] IN
    /\ c.reads /\ ~c.alive
    /\ Set(i, Failed(c, "lost"))
    /\ UNCHANGED <<game, attempt, sess, server, faults>>

\* A flap whose write fails before the reader has come to the last frames.
WriteFails(i) ==
  LET c == conns[i] IN
    /\ c.reads /\ net = i /\ c.server = "gone" /\ Fault
    /\ Set(i, Failed(c, "lost"))
    /\ UNCHANGED <<game, attempt, sess, server>>

-----------------------------------------------------------------------------
(* The server *)

Sessions == {i \in ConnIds : conns[i].server = "session"}
Names == others \cup {conns[i].name : i \in Sessions}
Players == Cardinality(others) + Cardinality(Sessions)

UniqueName(n) ==
  IF n \notin Names THEN n
  ELSE Append(n, Min({k \in 2..Players + 2 : Append(n, k) \notin Names}))

Refused(c) == [c EXCEPT !.inbox = Append(@, "error"), !.server = "gone"]

HandleJoin(i) ==
  LET c == conns[i] IN
    /\ up /\ c.server = "asked"
    /\ IF Players >= MaxPlayers \/ ~ValidName(c.join)
         THEN Set(i, Refused(c))
         ELSE Set(i, [c EXCEPT !.server = "session", !.name = UniqueName(c.join),
                               !.inbox = <<"welcome", "snapshot">>])
    /\ UNCHANGED <<game, attempt, sess, server, faults>>

Broadcast(i) ==
  LET c == conns[i] IN
    /\ c.server = "session" /\ c.alive /\ c.inbox = <<>>
    /\ Set(i, [c EXCEPT !.inbox = <<"snapshot">>])
    /\ UNCHANGED <<game, attempt, sess, server, faults>>

\* The server's reader has noticed the loss and its leave been handled; a
\* connection it refused is closed once the error is written.
HandleLeave(i) ==
  LET c == conns[i] IN
    /\ \/ c.server \in {"accepted", "session"} /\ ~c.alive
       \/ c.server = "gone" /\ c.alive /\ c.inbox = <<>>
    /\ Set(i, [c EXCEPT !.server = "gone", !.alive = FALSE])
    /\ UNCHANGED <<game, attempt, sess, server, faults>>

OtherJoins(b) ==
  /\ up /\ othersJoined < MaxOthers /\ Players < MaxPlayers
  /\ others' = others \cup {UniqueName(<<b>>)}
  /\ othersJoined' = othersJoined + 1
  /\ UNCHANGED <<game, attempt, sess, conns, up, faults>>

OtherLeaves(n) ==
  /\ others' = others \ {n}
  /\ UNCHANGED <<game, attempt, sess, conns, up, othersJoined, faults>>

Stop ==
  /\ up /\ Fault
  /\ up' = FALSE /\ others' = {}
  /\ conns' = [i \in ConnIds |-> [conns[i] EXCEPT !.server = "gone", !.alive = FALSE]]
  /\ UNCHANGED <<game, attempt, sess, othersJoined>>

Restart ==
  /\ ~up /\ up' = TRUE
  /\ UNCHANGED <<game, attempt, sess, conns, others, othersJoined, faults>>

\* The network drops a connection. The client's side learns it, the server later.
Break(i) ==
  LET c == conns[i] IN
    /\ c.alive /\ Fault
    /\ Set(i, [c EXCEPT !.alive = FALSE])
    /\ UNCHANGED <<game, attempt, sess, server>>

-----------------------------------------------------------------------------

Init ==
  /\ net = None /\ fatal = FALSE /\ dial = "none" /\ dialed = None /\ dialName = None
  /\ attempts = 0 /\ wait = 0 /\ ring = <<>> /\ sess = None /\ picked \in Bases
  /\ conns = <<>> /\ up \in BOOLEAN /\ others = {} /\ othersJoined = 0 /\ faults = 0

Client ==
  \/ PumpNet \/ StartDial \/ Dial \/ Join \/ Reconnect \/ Tick
  \/ \E i \in ConnIds : ReadFrame(i) \/ ReadFails(i)

Server == Restart \/ \E i \in ConnIds : HandleJoin(i) \/ Broadcast(i) \/ HandleLeave(i)

World ==
  \/ DialFails \/ Stop
  \/ \E i \in ConnIds : WriteFails(i) \/ Break(i)
  \/ \E b \in Bases : OtherJoins(b)
  \/ \E n \in others : OtherLeaves(n)

Next == Client \/ Server \/ World

\* Every goroutine runs on: the render loop at 60 Hz, the timer, the attempt,
\* the readers; the server answers, notices what is lost, and is restarted.
Fairness ==
  /\ WF_vars(PumpNet) /\ WF_vars(StartDial) /\ WF_vars(Dial) /\ WF_vars(Join)
  /\ WF_vars(Reconnect) /\ WF_vars(Tick) /\ WF_vars(Restart)
  /\ \A i \in 1..MaxConns :
       /\ WF_vars(i \in ConnIds /\ (ReadFrame(i) \/ ReadFails(i)))
       /\ WF_vars(i \in ConnIds /\ HandleJoin(i))
       /\ WF_vars(i \in ConnIds /\ HandleLeave(i))

Spec == Init /\ [][Next]_vars /\ Fairness

-----------------------------------------------------------------------------
(* Properties *)

\* The ring holds snapshots of one connection only, the one in use or the last
\* one lost: nothing is interpolated across a gap (Ring.Reset in reconnect).
RingOneConnection ==
  \A k \in DOMAIN ring :
    /\ ring[k] = ring[Len(ring)]
    /\ net # None => ring[k] = net

\* One attempt at a time, and none while a connection is in use: the client
\* never keeps two connections running or leaves one open behind it, which
\* would put the player into the race twice (dialing, and fail's Close).
OneConnection ==
  \A i \in ConnIds : conns[i].alive => i \in {net, dialed}

\* A loss is never taken for a refusal: what ends the game is an error frame
\* the server sent to the last connection (README.md:79-83).
LossNotTerminal ==
  fatal => LET c == conns[Len(conns)] IN c.server = "gone" /\ c.name = None

\* The player is in the game, under the name the server knows.
InGame == net # None /\ conns[net].server = "session" /\ conns[net].alive /\ sess = conns[net].name

\* "losing the server (restart, network blip, idle proxy) is not a dead end"
\* (README.md:79-80) for a player whose own name is valid. It fails: a name the
\* server made longer to tell two players apart is not valid when it comes back.
PickedNameTerminal == fatal => ~ValidName(<<picked>>)

=============================================================================
