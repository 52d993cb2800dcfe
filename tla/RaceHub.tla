------------------------------- MODULE RaceHub -------------------------------
(***************************************************************************)
(* The hub of flappy-race (src/images/flappy-race/internal/server/hub.go): *)
(* the player registry, the race state machine and the membership of the   *)
(* authoritative world. One goroutine mutates all of it, one handler at a  *)
(* time, so a handler is one action. The channels between it and the       *)
(* connections are Transport's subject; here the events of a connection are *)
(* handled in the order its reader submits them, interleaved at will with  *)
(* those of the others and with the ticks.                                 *)
(*                                                                         *)
(* Time is what remains of a period: timer stands for goAt - now in a      *)
(* countdown and for finishAt - now in the results window, snapDue for     *)
(* now - lastSnap >= snapshotEvery. Which birds die at a tick is left open *)
(* (game/world.go's physics), so are the draws of the random generator.    *)
(***************************************************************************)
EXTENDS Naturals, FiniteSets, SequencesExt

CONSTANTS
  Conn,            \* the connections ever opened, each one websocket
  Base,            \* what a name is made from, before any suffix
  Requests,        \* the valid names that may be asked for
  Bird,            \* the appearances
  ThemeCount,
  MaxPlayers,
  FlapRateLimit,   \* flaps per second per player
  MaxRaceTicks,
  Countdown,       \* length of the countdown, in steps of the clock
  Results,         \* length of the results window, in steps of the clock
  MaxRaces         \* bound: how many countdowns are begun

\* A name is a base and the suffixes uniqueName has put behind it.
Name == Base \X Seq(Nat)

ASSUME ConstantsAssumption ==
  /\ Requests \subseteq Name
  /\ Bird # {}
  /\ {ThemeCount, MaxPlayers, FlapRateLimit, MaxRaceTicks, Countdown, Results}
       \subseteq Nat \ {0}
  /\ ThemeCount > 1
  /\ MaxRaces \in Nat

VARIABLES
  pump,        \* per connection: where its readPump is
  sess,        \* per connection: its reader's session id, 0 for nil
  closed,      \* the connections whose send queue is closed
  crashed,     \* a frame was sent to a closed queue: Go panics
  players,     \* Hub.players: id -> session
  order,       \* Hub.order: ids in join order
  names,       \* Hub.names: name -> id
  nextID,
  st,
  timer,
  theme,
  lastTheme,
  raceNo,      \* countdowns begun so far
  hasWorld,    \* Hub.world # nil
  tick,        \* World.Tick
  birds,       \* World.Birds: id -> [name, dead, left]
  raceInfo,    \* Hub.raceInfo: id -> [name, bird]
  results,     \* Hub.results: id -> [name, left], ranks left out
  pending,     \* Hub.pendingFlaps
  snapDue,
  seen,        \* per player: what the newest frame queued to it shows
  store        \* the players of the state file: name -> [bird, races]

conns    == <<pump, sess, closed, crashed>>
registry == <<players, order, names, nextID>>
world    == <<hasWorld, tick, birds, raceInfo, results>>
themes   == <<theme, lastTheme, raceNo>>
race     == <<st, timer, themes, world>>
frames   == <<snapDue, seen>>
vars     == <<conns, registry, race, pending, frames, store>>

Waiting   == 0
Counting  == 1
Racing    == 2
Finished  == 3

Empty == [x \in {} |-> 0]

\* A map with one key set, and with one key deleted.
Put(f, k, v) == [x \in DOMAIN f \cup {k} |-> IF x = k THEN v ELSE f[x]]
Drop(f, k)   == [x \in DOMAIN f \ {k} |-> f[x]]

IsRacer(id) == id \in DOMAIN birds
AliveIn(bs) == {id \in DOMAIN bs : ~bs[id].dead}
LeftIn(bs)  == {id \in DOMAIN bs : bs[id].left}

-----------------------------------------------------------------------------
(* Frames *)

\* What the snapshot of the hub's present state shows.
Snapshot == [st |-> st, race |-> raceNo, racers |-> DOMAIN birds,
             left |-> LeftIn(birds),
             ranked |-> IF st = Finished THEN DOMAIN results ELSE {}]

\* What the welcome frame shows: the state, but no bird.
Welcome == [st |-> st, race |-> raceNo, racers |-> {}, left |-> {}, ranked |-> {}]

\* Everyone in the join order who is still registered.
Recipients == Range(order) \cap DOMAIN players

\* What a player saw last; a newcomer has just been sent its welcome.
Shown(id) == IF id \in DOMAIN seen THEN seen[id] ELSE Welcome'

\* No frame; a departed player's entry is forgotten.
Silence ==
  /\ seen' = [id \in DOMAIN players' |-> Shown(id)]
  /\ UNCHANGED <<snapDue, crashed>>

\* The frame goes out at the end of a handler, before it closes any queue: it
\* shows the state the handler leaves behind.
Broadcast ==
  IF st' = Waiting \/ DOMAIN players' = {}
  THEN Silence
  ELSE /\ seen' = [id \in DOMAIN players' |->
                     IF id \in Recipients' THEN Snapshot' ELSE Shown(id)]
       /\ snapDue' = FALSE
       /\ crashed' = (crashed \/ \E id \in Recipients' : players'[id].conn \in closed)

MaybeSnapshot == IF snapDue THEN Broadcast ELSE Silence

-----------------------------------------------------------------------------
(* Race cycle helpers; registry and players' are settled before they are used *)

NoRace ==
  /\ st' = Waiting
  /\ timer' = 0
  /\ hasWorld' = FALSE
  /\ tick' = 0
  /\ birds' = Empty /\ raceInfo' = Empty /\ results' = Empty

NewBird(s)     == [name |-> s.name, dead |-> FALSE, left |-> FALSE]
NewRaceInfo(s) == [name |-> s.name, bird |-> s.bird]

PickAnyTheme == theme' \in 0 .. ThemeCount - 1        \* mutant of PickTheme

\* A random theme, moved on by one if it is the last finished race's.
PickTheme ==
  \E t \in 0 .. ThemeCount - 1 :
    theme' = IF t = lastTheme THEN (t + 1) % ThemeCount ELSE t

\* Mutant of Admitted: the next race keeps the field of the last one.
AdmittedOldField ==
  IF st = Finished THEN DOMAIN birds \cap Range(order') ELSE Range(order')

\* A fresh race takes everyone connected.
Admitted == Range(order')

BeginCountdown ==
  /\ raceNo < MaxRaces
  /\ raceNo' = raceNo + 1
  /\ st' = Counting
  /\ timer' = Countdown
  /\ PickTheme
  /\ UNCHANGED lastTheme
  /\ hasWorld' = TRUE
  /\ tick' = 0
  /\ birds' = [id \in Admitted |-> NewBird(players'[id])]
  /\ raceInfo' = [id \in Admitted |-> NewRaceInfo(players'[id])]
  /\ results' = Empty

AdmitRacer(id, s) ==
  /\ birds' = IF IsRacer(id) THEN birds ELSE Put(birds, id, NewBird(s))
  /\ raceInfo' = Put(raceInfo, id, NewRaceInfo(s))
  /\ UNCHANGED <<st, timer, themes, hasWorld, tick, results>>

\* One more race for every name that raced, under the bird it raced with.
RecordRace(db, entries) ==
  LET raced == {e.name : e \in Range(entries)}
  IN [n \in DOMAIN db \cup raced |->
        IF n \in raced
        THEN [bird  |-> (CHOOSE e \in Range(entries) : e.name = n).bird,
              races |-> (IF n \in DOMAIN db THEN db[n].races ELSE 0)
                          + Cardinality({id \in DOMAIN entries : entries[id].name = n})]
        ELSE db[n]]

\* Mutant of Entries: leavers are not recorded.
EntriesOfPresent(bs) ==
  [id \in DOMAIN bs \cap DOMAIN players' |-> [name |-> bs[id].name, bird |-> raceInfo[id].bird]]

Entries(bs) == [id \in DOMAIN bs |-> [name |-> bs[id].name, bird |-> raceInfo[id].bird]]

\* The race ends at tick t with the birds bs. Everyone who raced is ranked and
\* recorded, leavers included; the results open only if somebody is left.
FinishRace(bs, t) ==
  /\ store' = RecordRace(store, Entries(bs))
  /\ lastTheme' = theme
  /\ UNCHANGED <<theme, raceNo>>
  /\ IF DOMAIN players' = {}
     THEN NoRace
     ELSE /\ st' = Finished
          /\ timer' = Results
          /\ birds' = bs /\ tick' = t
          /\ results' = [id \in DOMAIN bs |-> [name |-> bs[id].name, left |-> bs[id].left]]
          /\ UNCHANGED <<hasWorld, raceInfo>>
  /\ Broadcast

-----------------------------------------------------------------------------
(* Joining *)

\* The n-th name tried for a base: itself, then "base 2", "base 3", ...
Suffixed(base, n) == IF n = 1 THEN base ELSE <<base[1], Append(base[2], n)>>

\* The names uniqueName may return: the first one tried that nobody holds.
UniqueName(base) ==
  {Suffixed(base, n) : n \in {k \in 1 .. Len(order) + 1 :
      /\ Suffixed(base, k) \notin DOMAIN names
      /\ \A j \in 1 .. k - 1 : Suffixed(base, j) \in DOMAIN names}}

\* A full server or a bad name: an error frame, then the queue is closed.
Reject(c) ==
  /\ pump[c] = "connected"
  /\ pump' = [pump EXCEPT ![c] = "refused"]
  /\ crashed' = (crashed \/ c \in closed)
  /\ closed' = closed \cup {c}
  /\ UNCHANGED <<sess, registry, race, pending, frames, store>>

\* The session enters the registry; readPump learns its id.
Register(c, id, s) ==
  /\ pump' = [pump EXCEPT ![c] = "playing"]
  /\ sess' = [sess EXCEPT ![c] = id]
  /\ players' = Put(players, id, s)
  /\ names' = Put(names, s.name, id)
  /\ order' = Append(order, id)
  /\ nextID' = id

\* Mutant of HasRoom: one player too many.
HasRoomForOneMore == Cardinality(DOMAIN players) <= MaxPlayers

HasRoom == Cardinality(DOMAIN players) < MaxPlayers

BirdsForAny(name) == Bird                             \* mutant of BirdsFor

\* The store knows a returning name's bird; a new name is given any: the code
\* prefers one nobody wears, but lets a collision stand after its last try. A bird the
\* program saved is valid, so LookupBird's check of it always holds here.
BirdsFor(name) == IF name \in DOMAIN store THEN {store[name].bird} ELSE Bird

Join(c, base) ==
  /\ pump[c] = "connected"
  /\ HasRoom
  /\ \E name \in UniqueName(base) :
     \E bird \in BirdsFor(name) :
       LET id == nextID + 1
           s  == [name |-> name, bird |-> bird, conn |-> c, flaps |-> 0]
       IN /\ store' = IF name \in DOMAIN store THEN store
                      ELSE Put(store, name, [bird |-> bird, races |-> 0])
          /\ Register(c, id, s)
          /\ \/ st = Waiting /\ BeginCountdown
             \/ st = Counting /\ AdmitRacer(id, s)
             \/ st \in {Racing, Finished} /\ UNCHANGED race
          /\ UNCHANGED <<closed, pending>>
          /\ Broadcast

-----------------------------------------------------------------------------
(* Flapping *)

\* Mutant of Flap: no rate limit.
FlapUnlimited(c) ==
  /\ pump[c] = "playing"
  /\ st = Racing
  /\ LET id == sess[c]
     IN /\ players' = [players EXCEPT ![id].flaps = @ + 1]
        /\ pending' = IF IsRacer(id) THEN pending \cup {id} ELSE pending
  /\ UNCHANGED <<conns, order, names, nextID, race, frames, store>>

\* Flaps count against the second's limit in a race only, racer or not; a racer
\* (dead ones included) has its impulse queued for the next tick.
Flap(c) ==
  /\ pump[c] = "playing"
  /\ st = Racing
  /\ LET id == sess[c]
     IN /\ players[id].flaps < FlapRateLimit
        /\ players' = [players EXCEPT ![id].flaps = @ + 1]
        /\ pending' = IF IsRacer(id) THEN pending \cup {id} ELSE pending
  /\ UNCHANGED <<conns, order, names, nextID, race, frames, store>>

-----------------------------------------------------------------------------
(* Leaving *)

\* The reader ends without a session: never joined, or refused.
LeaveUnjoined(c) ==
  /\ pump[c] \in {"connected", "refused"}
  /\ pump' = [pump EXCEPT ![c] = "gone"]
  /\ closed' = closed \cup {c}
  /\ UNCHANGED <<sess, crashed, registry, race, pending, frames, store>>

\* Mutant of Unregister: the name stays taken.
UnregisterKeepsName(id) ==
  /\ players' = Drop(players, id)
  /\ order' = RemoveFirst(order, id)
  /\ UNCHANGED <<names, nextID>>

Unregister(id) ==
  /\ players' = Drop(players, id)
  /\ names' = Drop(names, players[id].name)
  /\ order' = RemoveFirst(order, id)
  /\ UNCHANGED nextID

\* Mutant of LeaveCountdown: the display data of the leaver stays.
LeaveCountdownKeepsInfo(id) ==
  /\ st = Counting
  /\ UNCHANGED <<themes, store>>
  /\ IF DOMAIN birds = {id}
     THEN NoRace
     ELSE birds' = Drop(birds, id) /\ UNCHANGED <<st, timer, hasWorld, tick, raceInfo, results>>
  /\ Broadcast

\* A leaver takes its bird out of a race that has not started.
LeaveCountdown(id) ==
  /\ st = Counting
  /\ IF IsRacer(id)
     THEN /\ UNCHANGED <<themes, store>>
          /\ IF DOMAIN birds = {id}
             THEN NoRace
             ELSE /\ birds' = Drop(birds, id)
                  /\ raceInfo' = Drop(raceInfo, id)
                  /\ UNCHANGED <<st, timer, hasWorld, tick, results>>
          /\ Broadcast
     ELSE UNCHANGED <<race, store>> /\ Silence

KillLeftSpares(id) == [birds EXCEPT ![id].left = TRUE]   \* mutant of KillLeft

\* World.KillLeft: only a bird still alive is killed and marked.
KillLeft(id) ==
  IF birds[id].dead THEN birds ELSE [birds EXCEPT ![id].dead = TRUE, ![id].left = TRUE]

\* A racer's bird stays in the race, dead; the race ends with its last flier.
LeaveRacing(id) ==
  /\ st = Racing
  /\ IF ~IsRacer(id)
     THEN UNCHANGED <<race, store>> /\ Silence
     ELSE LET bs == KillLeft(id)
          IN IF AliveIn(bs) = {}
             THEN FinishRace(bs, tick)
             ELSE /\ birds' = bs
                  /\ UNCHANGED <<st, timer, themes, hasWorld, tick, raceInfo, results, store>>
                  /\ Broadcast

LeaveFinished ==
  /\ st = Finished
  /\ UNCHANGED <<themes, store>>
  /\ IF DOMAIN players' = {} THEN NoRace ELSE UNCHANGED <<st, timer, world>>
  /\ Silence

\* Mutant of Leave: the results window forgets to unregister the session.
LeaveKeepsSession(c) ==
  /\ pump[c] = "playing" /\ st = Finished
  /\ pump' = [pump EXCEPT ![c] = "gone"]
  /\ closed' = closed \cup {c}
  /\ UNCHANGED <<sess, crashed, registry, race, pending, frames, store>>

\* The session leaves the registry first and its queue is closed last.
Leave(c) ==
  /\ pump[c] = "playing"
  /\ pump' = [pump EXCEPT ![c] = "gone"]
  /\ Unregister(sess[c])
  /\ \/ LeaveCountdown(sess[c])
     \/ LeaveRacing(sess[c])
     \/ LeaveFinished
  /\ closed' = closed \cup {c}
  /\ UNCHANGED <<sess, pending>>

-----------------------------------------------------------------------------
(* The 60 Hz tick *)

TickWaiting == st = Waiting /\ UNCHANGED vars

\* Mutant of TickCountdown: the flip to racing waits for the next snapshot.
TickCountdownQuiet ==
  /\ st = Counting
  /\ UNCHANGED <<pump, sess, closed, registry, timer, themes, world, pending, store>>
  /\ IF timer = 0 THEN st' = Racing ELSE UNCHANGED st
  /\ MaybeSnapshot

TickCountdown ==
  /\ st = Counting
  /\ UNCHANGED <<pump, sess, closed, registry, timer, themes, world, pending, store>>
  /\ IF timer = 0 THEN st' = Racing /\ Broadcast
                  ELSE UNCHANGED st /\ MaybeSnapshot

StalledTick == tick                                    \* mutant of NextTick
NextTick == tick + 1

\* The birds after World.Step, in which the fliers dying hit something.
Stepped(dying) ==
  [id \in DOMAIN birds |-> [birds[id] EXCEPT !.dead = @ \/ id \in dying]]

\* World.Step: any of the fliers may die; the queued impulses are consumed.
TickRacing ==
  /\ st = Racing
  /\ pending' = {}
  /\ UNCHANGED <<pump, sess, closed, registry>>
  /\ \E dying \in SUBSET AliveIn(birds) :
       LET bs == Stepped(dying)
       IN IF AliveIn(bs) = {} \/ NextTick >= MaxRaceTicks
          THEN FinishRace(bs, NextTick)
          ELSE /\ birds' = bs /\ tick' = NextTick
               /\ UNCHANGED <<st, timer, themes, hasWorld, raceInfo, results, store>>
               /\ MaybeSnapshot

TickFinished ==
  /\ st = Finished
  /\ UNCHANGED <<pump, sess, closed, registry, pending, store>>
  /\ IF timer > 0
     THEN UNCHANGED race /\ MaybeSnapshot
     ELSE IF DOMAIN players # {}
          THEN BeginCountdown /\ Broadcast
          ELSE NoRace /\ UNCHANGED themes /\ Silence

Tick == TickWaiting \/ TickCountdown \/ TickRacing \/ TickFinished

-----------------------------------------------------------------------------
(* The clock, Hub.now *)

PeriodElapses ==
  /\ timer > 0
  /\ timer' = timer - 1
  /\ UNCHANGED <<conns, registry, st, themes, world, pending, frames, store>>

SnapshotFallsDue ==
  /\ ~snapDue
  /\ snapDue' = TRUE
  /\ UNCHANGED <<conns, registry, race, pending, seen, store>>

\* A new second begins: every session's flap window is empty again.
SecondBegins ==
  /\ \E id \in DOMAIN players : players[id].flaps > 0
  /\ players' = [id \in DOMAIN players |-> [players[id] EXCEPT !.flaps = 0]]
  /\ UNCHANGED <<conns, order, names, nextID, race, pending, frames, store>>

-----------------------------------------------------------------------------
(* Specification *)

\* An earlier run of the server may have left birds in the state file.
Init ==
  /\ pump = [c \in Conn |-> "connected"]
  /\ sess = [c \in Conn |-> 0]
  /\ closed = {} /\ crashed = FALSE
  /\ players = Empty /\ order = <<>> /\ names = Empty /\ nextID = 0
  /\ st = Waiting /\ timer = 0
  /\ theme = 0 /\ lastTheme = 0 /\ raceNo = 0
  /\ hasWorld = FALSE /\ tick = 0
  /\ birds = Empty /\ raceInfo = Empty /\ results = Empty
  /\ pending = {}
  /\ snapDue = TRUE /\ seen = Empty
  /\ \E known \in SUBSET Requests :
       store \in [known -> [bird : Bird, races : {0}]]

Next ==
  \/ \E c \in Conn :
       \/ \E base \in Requests : Join(c, base)
       \/ Reject(c)
       \/ Flap(c)
       \/ LeaveUnjoined(c)
       \/ Leave(c)
  \/ Tick
  \/ PeriodElapses
  \/ SnapshotFallsDue
  \/ SecondBegins

Spec == Init /\ [][Next]_vars

\* The hub's select serves the ticker again and again whatever the events,
\* and the clock advances; nobody is obliged to join, flap or leave.
Fairness == WF_vars(Tick) /\ WF_vars(PeriodElapses)

FairSpec == Spec /\ Fairness

-----------------------------------------------------------------------------
(* Properties *)

ConnType ==
  /\ pump \in [Conn -> {"connected", "playing", "refused", "gone"}]
  /\ sess \in [Conn -> 0 .. nextID]
  /\ closed \subseteq Conn
  /\ crashed \in BOOLEAN

RegistryType ==
  /\ nextID \in Nat
  /\ DOMAIN players \subseteq 1 .. nextID
  /\ players \in [DOMAIN players ->
                    [name : Name, bird : Bird, conn : Conn, flaps : 0 .. FlapRateLimit]]
  /\ order \in Seq(1 .. nextID)
  /\ DOMAIN names \subseteq Name
  /\ names \in [DOMAIN names -> 1 .. nextID]

RaceType ==
  /\ st \in {Waiting, Counting, Racing, Finished}
  /\ timer \in Nat
  /\ theme \in 0 .. ThemeCount - 1 /\ lastTheme \in 0 .. ThemeCount - 1
  /\ raceNo \in 0 .. MaxRaces
  /\ hasWorld \in BOOLEAN
  /\ tick \in Nat
  /\ DOMAIN birds \subseteq 1 .. nextID
  /\ birds \in [DOMAIN birds -> [name : Name, dead : BOOLEAN, left : BOOLEAN]]
  /\ raceInfo \in [DOMAIN raceInfo -> [name : Name, bird : Bird]]
  /\ results \in [DOMAIN results -> [name : Name, left : BOOLEAN]]
  /\ pending \subseteq 1 .. nextID

OutputType ==
  /\ snapDue \in BOOLEAN
  /\ seen \in [DOMAIN players ->
                 [st : {Waiting, Counting, Racing, Finished}, race : 0 .. MaxRaces,
                  racers : SUBSET (1 .. nextID), left : SUBSET (1 .. nextID),
                  ranked : SUBSET (1 .. nextID)]]
  /\ DOMAIN store \subseteq Name
  /\ store \in [DOMAIN store -> [bird : Bird, races : Nat]]

\* The maps of the hub hold what their keys and values are declared to be, no id is
\* used before it is given out, and flaps stay within the rate limit (handleFlap).
TypeOK == ConnType /\ RegistryType /\ RaceType /\ OutputType

\* The three views of who is connected agree: the join order lists every player
\* once (beginCountdown dereferences players[id] for each of them), the name
\* table is the players' inverse, and a player is exactly a reading connection.
RegistryCoherent ==
  /\ IsInjective(order) /\ Range(order) = DOMAIN players
  /\ DOMAIN names = {players[id].name : id \in DOMAIN players}
  /\ \A id \in DOMAIN players : names[players[id].name] = id
  /\ \A c \in Conn : pump[c] = "playing"
                       <=> \E id \in DOMAIN players : players[id].conn = c /\ sess[c] = id

\* No handler sends a frame to a queue it or an earlier one has closed, which
\* would panic the hub (hub.go:263-267).
NoSendOnClosed == ~crashed

\* What the race keeps beside the world covers the same birds: the display data
\* of leavers survives, each racer has a name of its own (RecordRace folds the
\* results by name), and the results rank every racer.
RosterCoherent ==
  /\ hasWorld <=> st # Waiting
  /\ DOMAIN raceInfo = DOMAIN birds
  /\ \A id \in DOMAIN birds : birds[id].name = raceInfo[id].name
  /\ \A i, j \in DOMAIN birds : birds[i].name = birds[j].name => i = j
  /\ \A id \in DOMAIN birds : birds[id].left => birds[id].dead /\ id \notin DOMAIN players
  /\ DOMAIN results = IF st = Finished THEN DOMAIN birds ELSE {}

\* The newest frame queued to a player shows the state, the race, its racers,
\* who left it and the ranking as they are: no handler changes any of these
\* without a broadcast, and a newcomer never waits for the next one.
FramesCurrent == \A id \in DOMAIN players : seen[id] = Snapshot

\* A player flies the bird the store remembers for its name, and so does the
\* racer of that name in the current race, even after it left.
BirdsRemembered ==
  /\ \A id \in DOMAIN players :
       /\ players[id].name \in DOMAIN store
       /\ store[players[id].name].bird = players[id].bird
  /\ \A id \in DOMAIN raceInfo :
       /\ raceInfo[id].name \in DOMAIN store
       /\ store[raceInfo[id].name].bird = raceInfo[id].bird

\* The race being prepared or flown has another theme than the last one that
\* finished, however many countdowns were abandoned in between.
ThemeFresh == st \in {Counting, Racing} => theme # lastTheme

\* A name is never forgotten and never gets another bird.
BirdNeverChanges ==
  [][\A n \in DOMAIN store : n \in DOMAIN store' /\ store'[n].bird = store[n].bird]_vars

\* The end of a race counts one race for everyone who flew in it, leavers
\* included and nobody else; nothing else counts races.
RacesRecordedOnce ==
  [][\A n \in DOMAIN store' :
       store'[n].races - (IF n \in DOMAIN store THEN store[n].races ELSE 0)
         = IF st = Racing /\ st' # Racing /\ \E id \in DOMAIN birds : birds[id].name = n
           THEN 1 ELSE 0]_vars

\* The state of RaceCycle, told by connections.
Phase   == <<"waiting", "countdown", "racing", "finished">>[st + 1]
Members == {c \in Conn : pump[c] = "playing"}
Field   == {c \in Conn : sess[c] \in DOMAIN birds}
Flying  == IF st \in {Counting, Racing} THEN {c \in Conn : sess[c] \in AliveIn(birds)} ELSE {}

RC == INSTANCE RaceCycle WITH
        Player <- Conn, phase <- Phase, members <- Members, field <- Field, flying <- Flying

\* The lifecycle is the one RaceCycle promises: every handler and every tick is a
\* step of hub.go's state machine comment, or changes nothing of it.
ImplementsRaceCycle == RC!Spec

\* What the hub takes a connection for.
Life == [c \in Conn |-> IF pump[c] \in {"refused", "gone"} THEN "over" ELSE pump[c]]

C == INSTANCE Connections WITH life <- Life

\* A connection's life is the one Connections promises, player limit included:
\* accepted at most once, never back after a refusal or a leave.
ImplementsConnections == C!Spec

\* A race ends, at the latest at its last tick (tick, hub.go:335).
RaceEnds == st = Racing ~> st # Racing

\* Whoever connects and stays gets to race, unless the bound on races is met:
\* no spectator is left out and no lobby is stuck.
EveryoneRaces ==
  \A c \in Conn :
    (pump[c] = "playing" /\ raceNo < MaxRaces)
      ~> (pump[c] # "playing" \/ (st = Racing /\ sess[c] \in DOMAIN birds))

-----------------------------------------------------------------------------
(* What the documentation says and the code does not do *)

\* hub.go:243-244 and 357: no racer starts a fresh race with an impulse queued.
FreshRaceNoImpulse ==
  [][st = Counting /\ st' = Racing => pending' \cap DOMAIN birds' = {}]_vars

\* world.go:20, protocol/snapshot.go:34: whoever leaves the server mid-race is marked.
LeaversMarked ==
  st = Racing => \A id \in DOMAIN birds \ DOMAIN players : birds[id].left

\* hub.go:357-358, protocol/theme.go:3-4: no theme twice in a row.
ThemeAlwaysChanges == [][raceNo' # raceNo /\ raceNo > 0 => theme' # theme]_vars
=============================================================================
