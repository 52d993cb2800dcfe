--------------------------- MODULE RaceHub_proofs ---------------------------
(***************************************************************************)
(* The hub is right for any constants. Its registry, race and frames are   *)
(* coherent; across races the state file keeps every name's bird and       *)
(* counts every race once, no race has the theme of the one that finished  *)
(* before it, newest frames are current; and the hub implements the race   *)
(* cycle and a connection's life.                                          *)
(***************************************************************************)
EXTENDS RaceHub, OrderLemmas, FiniteSetTheorems, TLAPS

USE DEF Waiting, Counting, Racing, Finished

(***************************************************************************)
(* The inductive invariant. RegistryCoherent is not inductive alone: that a *)
(* session belongs to one reader, and that only readers that stopped have   *)
(* a closed queue, is what keeps the three views of it in step.             *)
(***************************************************************************)

SessionInv ==
  /\ \A c \in Conn : pump[c] = "playing"
        => sess[c] \in DOMAIN players /\ players[sess[c]].conn = c
  /\ \A id \in DOMAIN players :
        pump[players[id].conn] = "playing" /\ sess[players[id].conn] = id
  /\ \A c \in Conn : sess[c] # 0 => pump[c] \in {"playing", "gone"}
  /\ \A c, d \in Conn : sess[c] = sess[d] /\ sess[c] # 0 => c = d
  /\ \A c \in closed : pump[c] \in {"refused", "gone"}
  /\ ~crashed

RegistryInv ==
  /\ IsInjective(order) /\ Range(order) = DOMAIN players
  /\ DOMAIN names = {players[id].name : id \in DOMAIN players}
  /\ \A id \in DOMAIN players : names[players[id].name] = id

RaceInv ==
  /\ hasWorld <=> st # Waiting
  /\ st = Waiting <=> DOMAIN players = {}
  /\ st = Waiting => DOMAIN birds = {}
  /\ DOMAIN raceInfo = DOMAIN birds
  /\ \A id \in DOMAIN birds : birds[id].name = raceInfo[id].name
  /\ \A i, j \in DOMAIN birds : birds[i].name = birds[j].name => i = j
  /\ \A id \in DOMAIN birds : birds[id].left => birds[id].dead /\ id \notin DOMAIN players
  /\ \A id \in DOMAIN birds : \E c \in Conn : sess[c] = id
  /\ DOMAIN results = IF st = Finished THEN DOMAIN birds ELSE {}
  /\ st = Counting => /\ DOMAIN birds = DOMAIN players
                      /\ \A id \in DOMAIN birds :
                            ~birds[id].dead /\ birds[id].name = players[id].name
  /\ st = Racing => AliveIn(birds) # {} /\ AliveIn(birds) \subseteq DOMAIN players

IInv == TypeOK /\ SessionInv /\ RegistryInv /\ RaceInv

(***************************************************************************)
(* What the steps do to connections and registry.                          *)
(***************************************************************************)

\* No frame goes to a closed queue if no remaining player's queue is closed.
LEMMA NoCrash ==
  ASSUME ~crashed, \A id \in DOMAIN players' : players'[id].conn \notin closed,
         Broadcast \/ Silence \/ UNCHANGED crashed
  PROVE  ~crashed'
BY DEF Broadcast, Silence, Recipients

LEMMA UniqueNameFree ==
  ASSUME NEW base \in Requests, NEW name \in UniqueName(base)
  PROVE  name \in Name /\ name \notin DOMAIN names
<1>1. PICK n \in 1 .. Len(order) + 1 :
        name = Suffixed(base, n) /\ Suffixed(base, n) \notin DOMAIN names
  BY DEF UniqueName
<1>2. base \in Base \X Seq(Nat)
  BY ConstantsAssumption DEF Name
<1>3. base[1] \in Base /\ base[2] \in Seq(Nat)
  BY <1>2
<1>4. CASE n = 1
  BY <1>1, <1>2, <1>4 DEF Suffixed, Name
<1>5. CASE n # 1
  <2>1. n \in Nat
    BY <1>1
  <2>2. Append(base[2], n) \in Seq(Nat)
    BY <1>3, <2>1
  <2>. QED BY <1>1, <1>3, <1>5, <2>2 DEF Suffixed, Name
<1>. QED BY <1>4, <1>5

\* A join registers a fresh id under a free name, for its own connection.
LEMMA JoinRegisters ==
  ASSUME IInv, NEW c \in Conn, NEW base \in Requests, Join(c, base)
  PROVE  /\ pump[c] = "connected" /\ sess[c] = 0 /\ c \notin closed
         /\ UNCHANGED <<closed, pending>>
         /\ Broadcast
         /\ \E s \in [name : Name, bird : Bird, conn : {c}, flaps : {0}] :
              /\ s.name \notin DOMAIN names
              /\ Register(c, nextID + 1, s)
              /\ \/ st = Waiting /\ BeginCountdown
                 \/ st = Counting /\ AdmitRacer(nextID + 1, s)
                 \/ st \in {Racing, Finished} /\ UNCHANGED race
<1>0. PICK name \in UniqueName(base) : \E bird \in BirdsFor(name) :
        LET s == [name |-> name, bird |-> bird, conn |-> c, flaps |-> 0]
        IN /\ Register(c, nextID + 1, s)
           /\ \/ st = Waiting /\ BeginCountdown
              \/ st = Counting /\ AdmitRacer(nextID + 1, s)
              \/ st \in {Racing, Finished} /\ UNCHANGED race
  BY DEF Join
<1>1. PICK bird \in BirdsFor(name) :
        LET s == [name |-> name, bird |-> bird, conn |-> c, flaps |-> 0]
        IN /\ Register(c, nextID + 1, s)
           /\ \/ st = Waiting /\ BeginCountdown
              \/ st = Counting /\ AdmitRacer(nextID + 1, s)
              \/ st \in {Racing, Finished} /\ UNCHANGED race
  BY <1>0
<1>2. bird \in Bird
  BY <1>1 DEF BirdsFor, IInv, TypeOK, OutputType
<1>3. name \in Name /\ name \notin DOMAIN names
  BY UniqueNameFree
<1>4. pump[c] = "connected" /\ UNCHANGED <<closed, pending>> /\ Broadcast
  BY DEF Join
<1>5. sess[c] = 0 /\ c \notin closed
  BY <1>4 DEF IInv, TypeOK, ConnType, RegistryType, SessionInv
<1>. QED BY <1>1, <1>2, <1>3, <1>4, <1>5

LEMMA LeaveUnregisters ==
  ASSUME IInv, NEW c \in Conn, Leave(c)
  PROVE  /\ pump[c] = "playing" /\ sess[c] \in DOMAIN players /\ c \notin closed
         /\ players[sess[c]].conn = c
         /\ pump' = [pump EXCEPT ![c] = "gone"]
         /\ closed' = closed \cup {c}
         /\ UNCHANGED <<sess, pending>>
         /\ Unregister(sess[c])
         /\ Broadcast \/ Silence
<1>1. Broadcast \/ Silence
  BY DEF Leave, LeaveCountdown, LeaveRacing, LeaveFinished, FinishRace
<1>. QED BY <1>1 DEF Leave, IInv, SessionInv

\* Every other step leaves the registry alone, but for flap counters.
OnlyFlapCounts ==
  /\ UNCHANGED <<sess, order, names, nextID>>
  /\ DOMAIN players' = DOMAIN players
  /\ players' \in [DOMAIN players ->
                     [name : Name, bird : Bird, conn : Conn, flaps : 0 .. FlapRateLimit]]
  /\ \A id \in DOMAIN players : /\ players'[id].name = players[id].name
                                /\ players'[id].bird = players[id].bird
                                /\ players'[id].conn = players[id].conn

LEMMA FlapCounts ==
  ASSUME IInv, NEW c \in Conn, Flap(c)
  PROVE  OnlyFlapCounts /\ sess[c] \in DOMAIN players /\ UNCHANGED conns
<1>1. sess[c] \in DOMAIN players
  BY DEF Flap, IInv, SessionInv
<1>2. FlapRateLimit \in Nat
  BY ConstantsAssumption
<1>3. players[sess[c]].flaps + 1 \in 0 .. FlapRateLimit
  BY <1>1, <1>2 DEF Flap, IInv, TypeOK, RegistryType
<1>4. players' = [players EXCEPT ![sess[c]] =
                    [players[sess[c]] EXCEPT !.flaps = players[sess[c]].flaps + 1]]
  BY <1>1 DEF Flap
<1>5. UNCHANGED <<conns, order, names, nextID>>
  BY DEF Flap
<1>. QED BY <1>1, <1>3, <1>4, <1>5 DEF OnlyFlapCounts, IInv, TypeOK, RegistryType, conns

LEMMA SecondBeginsCounts ==
  ASSUME IInv, SecondBegins
  PROVE  OnlyFlapCounts /\ UNCHANGED conns
<1>1. 0 \in 0 .. FlapRateLimit
  BY ConstantsAssumption
<1>2. players' = [id \in DOMAIN players |-> [players[id] EXCEPT !.flaps = 0]]
  BY DEF SecondBegins
<1>3. players \in [DOMAIN players ->
                     [name : Name, bird : Bird, conn : Conn, flaps : 0 .. FlapRateLimit]]
  BY DEF IInv, TypeOK, RegistryType
<1>4. \A id \in DOMAIN players :
         players'[id] = [name |-> players[id].name, bird |-> players[id].bird,
                         conn |-> players[id].conn, flaps |-> 0]
  BY <1>2, <1>3
<1>5. players' \in [DOMAIN players ->
                      [name : Name, bird : Bird, conn : Conn, flaps : 0 .. FlapRateLimit]]
  BY <1>1, <1>2, <1>3
<1>6. UNCHANGED <<conns, order, names, nextID>>
  BY DEF SecondBegins
<1>7. DOMAIN players' = DOMAIN players
  BY <1>2
<1>. QED BY <1>4, <1>5, <1>6, <1>7 DEF OnlyFlapCounts, conns

LEMMA TickFrames ==
  ASSUME Tick
  PROVE  /\ UNCHANGED <<pump, sess, closed, registry>>
         /\ Broadcast \/ Silence \/ UNCHANGED crashed
BY DEF Tick, TickWaiting, TickCountdown, TickRacing, TickFinished, MaybeSnapshot, FinishRace,
       vars, conns

(***************************************************************************)
(* The registry.                                                           *)
(***************************************************************************)

RegistryOK == ConnType /\ RegistryType /\ SessionInv /\ RegistryInv

LEMMA JoinRegistry ==
  ASSUME IInv, NEW c \in Conn, NEW base \in Requests, Join(c, base)
  PROVE  RegistryOK'
<1>1. PICK s \in [name : Name, bird : Bird, conn : {c}, flaps : {0}] :
         s.name \notin DOMAIN names /\ Register(c, nextID + 1, s)
  BY JoinRegisters
<1>2. /\ pump[c] = "connected" /\ sess[c] = 0 /\ c \notin closed
      /\ UNCHANGED closed /\ Broadcast
  BY JoinRegisters
<1> DEFINE id == nextID + 1
<1>3. /\ nextID \in Nat /\ id \in Nat /\ id # 0 /\ id \notin DOMAIN players
      /\ nextID' = id
  BY <1>1 DEF IInv, TypeOK, RegistryType, Register
<1>4. /\ DOMAIN players' = DOMAIN players \cup {id}
      /\ players'[id] = s
      /\ \A i \in DOMAIN players : players'[i] = players[i]
  BY <1>1, <1>3 DEF Register, Put
<1>5. /\ pump' = [pump EXCEPT ![c] = "playing"]
      /\ sess' = [sess EXCEPT ![c] = id]
      /\ names' = Put(names, s.name, id)
      /\ order' = Append(order, id)
  BY <1>1 DEF Register
<1>6. RegistryType' /\ RegistryInv'
  <2>1. order \in Seq(1 .. id) /\ id \in 1 .. id /\ id \notin Range(order)
    BY <1>3 DEF IInv, TypeOK, RegistryType, RegistryInv
  <2>2. /\ order' \in Seq(1 .. id) /\ IsInjective(order')
        /\ Range(order') = DOMAIN players'
    BY <1>4, <1>5, <2>1, AppendNew DEF IInv, RegistryInv
  <2>3. /\ DOMAIN names' = {players'[i].name : i \in DOMAIN players'}
        /\ \A i \in DOMAIN players' : names'[players'[i].name] = i
    BY <1>1, <1>4, <1>5 DEF Put, IInv, RegistryInv
  <2>4. /\ DOMAIN names' \subseteq Name
        /\ names' \in [DOMAIN names' -> 1 .. id]
    BY <1>1, <1>3, <1>5 DEF Put, IInv, TypeOK, RegistryType
  <2>5. /\ DOMAIN players' \subseteq 1 .. id
        /\ players' \in [DOMAIN players' ->
             [name : Name, bird : Bird, conn : Conn, flaps : 0 .. FlapRateLimit]]
    <3>1. s \in [name : Name, bird : Bird, conn : Conn, flaps : 0 .. FlapRateLimit]
      BY <1>1, ConstantsAssumption
    <3>. QED BY <1>1, <1>3, <3>1 DEF Register, Put, IInv, TypeOK, RegistryType
  <2>. QED BY <1>3, <2>2, <2>3, <2>4, <2>5 DEF RegistryType, RegistryInv
<1>7. ConnType' /\ SessionInv'
  <2>1. s.conn = c
    BY <1>1
  <2>2. pump' \in [Conn -> {"connected", "playing", "refused", "gone"}]
        /\ sess' \in [Conn -> 0 .. nextID'] /\ closed' \subseteq Conn
    BY <1>2, <1>3, <1>5 DEF IInv, TypeOK, ConnType
  <2>3. \A d \in Conn : sess[d] # id
    BY <1>3 DEF IInv, TypeOK, ConnType
  <2>4. \A i \in DOMAIN players : players[i].conn \in Conn /\ players[i].conn # c
    BY <1>2 DEF IInv, TypeOK, RegistryType, SessionInv
  <2>5. \A i \in DOMAIN players' : players'[i].conn \notin closed
    BY <1>2, <1>4, <2>1, <2>4 DEF IInv, SessionInv
  <2>6. ~crashed'
    BY <1>2, <2>5, NoCrash DEF IInv, SessionInv
  <2>7. crashed' \in BOOLEAN
    BY <1>2 DEF Broadcast, IInv, TypeOK, ConnType, Silence
  <2>8. /\ pump'[c] = "playing" /\ sess'[c] = id
        /\ \A d \in Conn : d # c => pump'[d] = pump[d] /\ sess'[d] = sess[d]
    BY <1>5 DEF IInv, TypeOK, ConnType
  <2>9. \A d \in Conn : pump'[d] = "playing"
          => sess'[d] \in DOMAIN players' /\ players'[sess'[d]].conn = d
    BY <1>4, <2>1, <2>8 DEF IInv, SessionInv
  <2>10. \A i \in DOMAIN players' :
           pump'[players'[i].conn] = "playing" /\ sess'[players'[i].conn] = i
    BY <1>4, <2>1, <2>4, <2>8 DEF IInv, SessionInv
  <2>11. /\ \A d \in Conn : sess'[d] # 0 => pump'[d] \in {"playing", "gone"}
         /\ \A d, e \in Conn : sess'[d] = sess'[e] /\ sess'[d] # 0 => d = e
    BY <2>3, <2>8 DEF IInv, SessionInv
  <2>12. \A d \in closed' : pump'[d] \in {"refused", "gone"}
    BY <1>2, <2>8 DEF IInv, SessionInv, TypeOK, ConnType
  <2>. QED BY <2>2, <2>6, <2>7, <2>9, <2>10, <2>11, <2>12 DEF ConnType, SessionInv
<1>. QED BY <1>6, <1>7 DEF RegistryOK

LEMMA LeaveRegistry ==
  ASSUME IInv, NEW c \in Conn, Leave(c)
  PROVE  RegistryOK'
<1> DEFINE id == sess[c]
<1>1. /\ pump[c] = "playing" /\ id \in DOMAIN players /\ c \notin closed
      /\ players[id].conn = c
      /\ pump' = [pump EXCEPT ![c] = "gone"]
      /\ closed' = closed \cup {c} /\ UNCHANGED sess
      /\ Broadcast \/ Silence
  BY LeaveUnregisters
<1>2. /\ players' = Drop(players, id)
      /\ names' = Drop(names, players[id].name)
      /\ order' = RemoveFirst(order, id)
      /\ UNCHANGED nextID
  BY LeaveUnregisters DEF Unregister
<1>3. /\ DOMAIN players' = DOMAIN players \ {id}
      /\ \A i \in DOMAIN players' : players'[i] = players[i]
  BY <1>2 DEF Drop
<1>4. RegistryType' /\ RegistryInv'
  <2>1. /\ order' \in Seq(1 .. nextID') /\ IsInjective(order')
        /\ Range(order') = DOMAIN players'
    BY <1>1, <1>2, <1>3, RemoveFirstOnce DEF IInv, TypeOK, RegistryType, RegistryInv
  <2>2. /\ DOMAIN names' = DOMAIN names \ {players[id].name}
        /\ \A n \in DOMAIN names' : names'[n] = names[n]
    BY <1>2 DEF Drop
  <2>3. \A i \in DOMAIN players' : players[i].name # players[id].name
    BY <1>1, <1>3 DEF IInv, RegistryInv
  <2>4. /\ DOMAIN names' = {players'[i].name : i \in DOMAIN players'}
        /\ \A i \in DOMAIN players' : names'[players'[i].name] = i
    BY <1>1, <1>3, <2>2, <2>3 DEF IInv, RegistryInv
  <2>5. /\ DOMAIN names' \subseteq Name
        /\ names' \in [DOMAIN names' -> 1 .. nextID']
    BY <1>2, <2>2 DEF Drop, IInv, TypeOK, RegistryType
  <2>6. /\ DOMAIN players' \subseteq 1 .. nextID'
        /\ players' \in [DOMAIN players' ->
             [name : Name, bird : Bird, conn : Conn, flaps : 0 .. FlapRateLimit]]
    BY <1>2, <1>3 DEF Drop, IInv, TypeOK, RegistryType
  <2>. QED BY <1>2, <2>1, <2>4, <2>5, <2>6 DEF RegistryType, RegistryInv, IInv, TypeOK
<1>5. ConnType' /\ SessionInv'
  <2>1. \A i \in DOMAIN players' : players'[i].conn \in Conn /\ players'[i].conn # c
                                     /\ players'[i].conn \notin closed
    BY <1>1, <1>3 DEF IInv, TypeOK, RegistryType, SessionInv
  <2>2. ~crashed'
    BY <1>1, <2>1, NoCrash DEF IInv, SessionInv
  <2>3. crashed' \in BOOLEAN
    BY <1>1 DEF Broadcast, Silence, IInv, TypeOK, ConnType
  <2>4. /\ pump'[c] = "gone"
        /\ \A d \in Conn : d # c => pump'[d] = pump[d]
    BY <1>1 DEF IInv, TypeOK, ConnType
  <2>5. /\ pump' \in [Conn -> {"connected", "playing", "refused", "gone"}]
        /\ sess' \in [Conn -> 0 .. nextID'] /\ closed' \subseteq Conn
    BY <1>1, <1>2 DEF IInv, TypeOK, ConnType
  <2>6. \A d \in Conn : pump'[d] = "playing"
          => sess'[d] \in DOMAIN players' /\ players'[sess'[d]].conn = d
    BY <1>1, <1>3, <2>4 DEF IInv, SessionInv
  <2>7. \A i \in DOMAIN players' :
           pump'[players'[i].conn] = "playing" /\ sess'[players'[i].conn] = i
    BY <1>1, <1>3, <2>1, <2>4 DEF IInv, SessionInv
  <2>8. /\ \A d \in Conn : sess'[d] # 0 => pump'[d] \in {"playing", "gone"}
        /\ \A d, e \in Conn : sess'[d] = sess'[e] /\ sess'[d] # 0 => d = e
    BY <1>1, <2>4 DEF IInv, SessionInv
  <2>9. \A d \in closed' : pump'[d] \in {"refused", "gone"}
    BY <1>1, <2>4 DEF IInv, SessionInv, TypeOK, ConnType
  <2>. QED BY <2>2, <2>3, <2>5, <2>6, <2>7, <2>8, <2>9 DEF ConnType, SessionInv
<1>. QED BY <1>4, <1>5 DEF RegistryOK

LEMMA FlapCountsRegistry ==
  ASSUME IInv, OnlyFlapCounts, UNCHANGED conns
  PROVE  RegistryOK'
<1>1. /\ UNCHANGED <<pump, sess, closed, crashed, order, names, nextID>>
      /\ DOMAIN players' = DOMAIN players
      /\ \A id \in DOMAIN players : /\ players'[id].name = players[id].name
                                    /\ players'[id].conn = players[id].conn
  BY DEF conns, OnlyFlapCounts
<1>2. RegistryType'
  BY <1>1 DEF OnlyFlapCounts, IInv, TypeOK, RegistryType
<1>3. RegistryInv'
  BY <1>1 DEF IInv, RegistryInv
<1>4. ConnType' /\ SessionInv'
  BY <1>1 DEF IInv, TypeOK, ConnType, SessionInv
<1>. QED BY <1>2, <1>3, <1>4 DEF RegistryOK

LEMMA StillRegistry ==
  ASSUME IInv, UNCHANGED <<pump, sess, closed, registry>>,
         Broadcast \/ Silence \/ UNCHANGED crashed
  PROVE  RegistryOK'
<1>1. UNCHANGED <<pump, sess, closed, players, order, names, nextID>>
  BY DEF registry
<1>2. ~crashed' /\ crashed' \in BOOLEAN
  <2>1. \A id \in DOMAIN players' : players'[id].conn \notin closed
    BY <1>1 DEF IInv, SessionInv, TypeOK, RegistryType
  <2>2. ~crashed'
    BY <2>1, NoCrash DEF IInv, SessionInv
  <2>. QED BY <2>2 DEF Broadcast, Silence, IInv, TypeOK, ConnType
<1>. QED BY <1>1, <1>2 DEF RegistryOK, IInv, TypeOK, ConnType, RegistryType, SessionInv, RegistryInv

LEMMA RegistryNext == IInv /\ [Next]_vars => RegistryOK'
<1> SUFFICES ASSUME IInv, [Next]_vars PROVE RegistryOK'
  OBVIOUS
<1>1. ASSUME NEW c \in Conn, Reject(c) PROVE RegistryOK'
  <2>1. UNCHANGED <<sess, players, order, names, nextID>>
    BY <1>1 DEF Reject, registry
  <2>2. /\ pump[c] = "connected"
        /\ pump' = [pump EXCEPT ![c] = "refused"]
        /\ closed' = closed \cup {c}
        /\ crashed' = (crashed \/ c \in closed)
    BY <1>1 DEF Reject
  <2>3. c \notin closed /\ sess[c] = 0
    BY <2>2 DEF IInv, SessionInv, TypeOK, ConnType, RegistryType
  <2>. QED BY <2>1, <2>2, <2>3
       DEF RegistryOK, IInv, TypeOK, ConnType, RegistryType, SessionInv, RegistryInv
<1>2. ASSUME NEW c \in Conn, LeaveUnjoined(c) PROVE RegistryOK'
  <2>1. /\ UNCHANGED <<sess, crashed, players, order, names, nextID>>
        /\ pump[c] \in {"connected", "refused"}
        /\ pump' = [pump EXCEPT ![c] = "gone"]
        /\ closed' = closed \cup {c}
    BY <1>2 DEF LeaveUnjoined, registry
  <2>. QED BY <2>1
       DEF RegistryOK, IInv, TypeOK, ConnType, RegistryType, SessionInv, RegistryInv
<1>3. ASSUME NEW c \in Conn, Flap(c) PROVE RegistryOK'
  BY <1>3, FlapCounts, FlapCountsRegistry
<1>4. CASE SecondBegins
  BY <1>4, SecondBeginsCounts, FlapCountsRegistry
<1>5. CASE Tick
  BY <1>5, TickFrames, StillRegistry
<1>6. CASE PeriodElapses \/ SnapshotFallsDue \/ UNCHANGED vars
  <2>1. UNCHANGED <<pump, sess, closed, registry>> /\ UNCHANGED crashed
    BY <1>6 DEF PeriodElapses, SnapshotFallsDue, vars, conns
  <2>. QED BY <2>1, StillRegistry
<1>. QED BY <1>1, <1>2, <1>3, <1>4, <1>5, <1>6, JoinRegistry, LeaveRegistry DEF Next

(***************************************************************************)
(* The race.                                                               *)
(***************************************************************************)

RaceOK == RaceType /\ RaceInv

LEMMA NoRaceOK ==
  ASSUME IInv, RegistryOK', NoRace, DOMAIN players' = {},
         theme' \in 0 .. ThemeCount - 1, lastTheme' \in 0 .. ThemeCount - 1,
         UNCHANGED raceNo, pending' \subseteq 1 .. nextID'
  PROVE  RaceOK'
<1>1. /\ st' = Waiting /\ timer' = 0 /\ hasWorld' = FALSE /\ tick' = 0
      /\ birds' = Empty /\ raceInfo' = Empty /\ results' = Empty
  BY DEF NoRace
<1>2. DOMAIN Empty = {} /\ \A T : Empty \in [DOMAIN Empty -> T]
  BY DEF Empty
<1>3. RaceType'
  <2>1. raceNo' \in 0 .. MaxRaces
    BY DEF IInv, TypeOK, RaceType
  <2>2. /\ DOMAIN birds' \subseteq 1 .. nextID'
        /\ birds' \in [DOMAIN birds' -> [name : Name, dead : BOOLEAN, left : BOOLEAN]]
        /\ raceInfo' \in [DOMAIN raceInfo' -> [name : Name, bird : Bird]]
        /\ results' \in [DOMAIN results' -> [name : Name, left : BOOLEAN]]
    BY <1>1, <1>2
  <2>. QED BY <1>1, <2>1, <2>2 DEF RaceType
<1>4. RaceInv'
  BY <1>1, <1>2 DEF RaceInv
<1>. QED BY <1>3, <1>4 DEF RaceOK

LEMMA BeginCountdownOK ==
  ASSUME IInv, RegistryOK', BeginCountdown, DOMAIN players' # {}, UNCHANGED pending,
         nextID' >= nextID
  PROVE  RaceOK'
<1>1. /\ st' = Counting /\ timer' = Countdown /\ hasWorld' = TRUE /\ tick' = 0
      /\ raceNo' = raceNo + 1 /\ raceNo < MaxRaces
      /\ birds' = [id \in DOMAIN players' |-> NewBird(players'[id])]
      /\ raceInfo' = [id \in DOMAIN players' |-> NewRaceInfo(players'[id])]
      /\ DOMAIN results' = {} /\ results' = Empty
  BY DEF BeginCountdown, Admitted, RegistryOK, RegistryInv, Empty
<1>2. theme' \in 0 .. ThemeCount - 1 /\ UNCHANGED lastTheme
  BY ConstantsAssumption DEF BeginCountdown, PickTheme
<1>3. RaceType'
  <2>1. /\ raceNo' \in 0 .. MaxRaces /\ timer' \in Nat
        /\ lastTheme' \in 0 .. ThemeCount - 1
    BY <1>1, <1>2, ConstantsAssumption DEF IInv, TypeOK, RaceType
  <2>2. pending' \subseteq 1 .. nextID'
    BY DEF IInv, TypeOK, RaceType, RegistryOK, RegistryType
  <2>3. /\ DOMAIN players' \subseteq 1 .. nextID'
        /\ \A id \in DOMAIN players' : players'[id].name \in Name /\ players'[id].bird \in Bird
    BY DEF RegistryOK, RegistryType
  <2>4. /\ DOMAIN birds' \subseteq 1 .. nextID'
        /\ birds' \in [DOMAIN birds' -> [name : Name, dead : BOOLEAN, left : BOOLEAN]]
        /\ raceInfo' \in [DOMAIN raceInfo' -> [name : Name, bird : Bird]]
    BY <1>1, <2>3 DEF NewBird, NewRaceInfo
  <2>5. results' \in [DOMAIN results' -> [name : Name, left : BOOLEAN]]
    BY <1>1 DEF Empty
  <2>. QED BY <1>1, <1>2, <2>1, <2>2, <2>4, <2>5 DEF RaceType
<1>4. \A i, j \in DOMAIN players' : players'[i].name = players'[j].name => i = j
  BY DEF RegistryOK, RegistryInv
<1>5. \A id \in DOMAIN players' : players'[id].conn \in Conn /\ sess'[players'[id].conn] = id
  BY DEF RegistryOK, SessionInv, RegistryType
<1>6. RaceInv'
  BY <1>1, <1>4, <1>5 DEF RaceInv, NewBird, NewRaceInfo
<1>. QED BY <1>3, <1>6 DEF RaceOK

\* bs may be the birds' last state: the same racers, some of them killed.
FinalBirds(bs) ==
  /\ DOMAIN bs = DOMAIN birds
  /\ bs \in [DOMAIN birds -> [name : Name, dead : BOOLEAN, left : BOOLEAN]]
  /\ \A id \in DOMAIN birds : bs[id].name = birds[id].name
  /\ \A id \in DOMAIN birds : bs[id].left => bs[id].dead /\ id \notin DOMAIN players'

\* What KillLeft writes into a bird.
LEMMA Marked ==
  ASSUME NEW b \in [name : Name, dead : BOOLEAN, left : BOOLEAN],
         NEW m, m = [b EXCEPT !.dead = TRUE, !.left = TRUE]
  PROVE  /\ m \in [name : Name, dead : BOOLEAN, left : BOOLEAN]
         /\ m.name = b.name
         /\ m.dead /\ m.left
<1>1. m.name = b.name
  OBVIOUS
<1>2. m.dead = TRUE
  OBVIOUS
<1>3. m.left = TRUE
  OBVIOUS
<1>4. m \in [name : Name, dead : BOOLEAN, left : BOOLEAN]
  OBVIOUS
<1>. QED BY <1>1, <1>2, <1>3, <1>4

\* A leaver's bird dies, if it has not already, and takes nobody with it.
LEMMA KillLeftFinal ==
  ASSUME IInv, NEW c \in Conn, Leave(c), IsRacer(sess[c])
  PROVE  /\ FinalBirds(KillLeft(sess[c]))
         /\ AliveIn(KillLeft(sess[c])) = AliveIn(birds) \ {sess[c]}
<1> DEFINE id == sess[c]
           bs == KillLeft(id)
<1>0. DOMAIN players' = DOMAIN players \ {id}
  BY LeaveUnregisters DEF Unregister, Drop
<1>1. /\ id \in DOMAIN birds /\ id \notin DOMAIN players'
      /\ birds \in [DOMAIN birds -> [name : Name, dead : BOOLEAN, left : BOOLEAN]]
      /\ \A i \in DOMAIN birds : birds[i].left => birds[i].dead /\ i \notin DOMAIN players'
  BY <1>0 DEF IsRacer, IInv, RaceInv, TypeOK, RaceType
<1>2. CASE birds[id].dead
  <2>1. bs = birds
    BY <1>2 DEF KillLeft
  <2>. QED BY <1>1, <1>2, <2>1 DEF FinalBirds, AliveIn
<1>3. CASE ~birds[id].dead
  <2> DEFINE gone == [birds[id] EXCEPT !.dead = TRUE, !.left = TRUE]
  <2>1. /\ gone \in [name : Name, dead : BOOLEAN, left : BOOLEAN]
        /\ gone.name = birds[id].name
        /\ gone.dead /\ gone.left
    <3>1. birds[id] \in [name : Name, dead : BOOLEAN, left : BOOLEAN]
      BY <1>1
    <3>. QED BY <3>1, Marked
  <2>2. bs = [birds EXCEPT ![id] = gone]
    BY <1>1, <1>3 DEF KillLeft
  <2> HIDE DEF gone, bs
  <2>3. /\ DOMAIN bs = DOMAIN birds
        /\ bs[id] = gone
        /\ \A i \in DOMAIN birds : i # id => bs[i] = birds[i]
    BY <1>1, <2>2
  <2>4. bs = [i \in DOMAIN birds |-> bs[i]]
    BY <2>2
  <2>5. ASSUME NEW i \in DOMAIN birds
        PROVE  bs[i] \in [name : Name, dead : BOOLEAN, left : BOOLEAN]
    BY <1>1, <2>1, <2>3
  <2>6. bs \in [DOMAIN birds -> [name : Name, dead : BOOLEAN, left : BOOLEAN]]
    BY <2>4, <2>5
  <2>7. FinalBirds(bs)
    BY <1>1, <2>1, <2>3, <2>6 DEF FinalBirds
  <2>8. AliveIn(bs) = AliveIn(birds) \ {id}
    BY <1>1, <2>1, <2>3 DEF AliveIn
  <2>. QED BY <2>7, <2>8 DEF bs
<1>. QED BY <1>2, <1>3

\* A step of the world kills fliers and does nothing else to a bird.
LEMMA SteppedFinal ==
  ASSUME IInv, UNCHANGED players, NEW dying \in SUBSET AliveIn(birds)
  PROVE  /\ FinalBirds(Stepped(dying))
         /\ AliveIn(Stepped(dying)) \subseteq AliveIn(birds)
<1> DEFINE bs == Stepped(dying)
<1>1. /\ birds \in [DOMAIN birds -> [name : Name, dead : BOOLEAN, left : BOOLEAN]]
      /\ \A i \in DOMAIN birds : birds[i].left => birds[i].dead /\ i \notin DOMAIN players'
  BY DEF IInv, RaceInv, TypeOK, RaceType
<1>2. \A i \in DOMAIN birds :
        bs[i] = [name |-> birds[i].name, dead |-> (birds[i].dead \/ i \in dying),
                 left |-> birds[i].left]
  BY <1>1 DEF Stepped
<1>3. bs \in [DOMAIN birds -> [name : Name, dead : BOOLEAN, left : BOOLEAN]]
  BY <1>1 DEF Stepped
<1>4. DOMAIN bs = DOMAIN birds
  BY DEF Stepped
<1> HIDE DEF bs
<1>5. FinalBirds(bs)
  BY <1>1, <1>2, <1>3, <1>4 DEF FinalBirds
<1>6. AliveIn(bs) \subseteq AliveIn(birds)
  <2>1. ASSUME NEW i \in DOMAIN birds, birds[i].dead PROVE bs[i].dead
    <3>1. (birds[i].dead \/ i \in dying) = TRUE
      BY <2>1
    <3>2. bs[i] = [name |-> birds[i].name, dead |-> TRUE, left |-> birds[i].left]
      BY <1>2, <3>1, Zenon
    <3>. QED BY <3>2
  <2>. QED BY <1>4, <2>1 DEF AliveIn
<1>. QED BY <1>5, <1>6 DEF bs

LEMMA FinishRaceOK ==
  ASSUME IInv, RegistryOK', NEW bs, NEW t \in Nat, FinalBirds(bs), FinishRace(bs, t),
         st = Racing, UNCHANGED <<sess, nextID>>, pending' \subseteq 1 .. nextID'
  PROVE  RaceOK'
<1>1. lastTheme' = theme /\ UNCHANGED <<theme, raceNo>>
  BY DEF FinishRace
<1>2. CASE DOMAIN players' = {}
  BY <1>1, <1>2, NoRaceOK DEF FinishRace, IInv, TypeOK, RaceType
<1>3. CASE DOMAIN players' # {}
  <2>1. /\ st' = Finished /\ timer' = Results /\ birds' = bs /\ tick' = t
        /\ results' = [id \in DOMAIN bs |-> [name |-> bs[id].name, left |-> bs[id].left]]
        /\ UNCHANGED <<hasWorld, raceInfo>>
    BY <1>3 DEF FinishRace
  <2>2. RaceType'
    BY <1>1, <2>1, ConstantsAssumption DEF RaceType, FinalBirds, IInv, TypeOK
  <2>3. RaceInv'
    BY <1>3, <2>1 DEF RaceInv, FinalBirds, IInv
  <2>. QED BY <2>2, <2>3 DEF RaceOK
<1>. QED BY <1>2, <1>3

\* A race that goes on with the birds bs, some of them still flying.
LEMMA RaceGoesOnOK ==
  ASSUME IInv, RegistryOK', NEW bs, FinalBirds(bs), birds' = bs, st = Racing,
         AliveIn(bs) # {}, AliveIn(bs) \subseteq DOMAIN players',
         UNCHANGED <<sess, nextID, st, timer, themes, hasWorld, raceInfo, results>>,
         tick' \in Nat, pending' \subseteq 1 .. nextID'
  PROVE  RaceOK'
<1>1. DOMAIN players' # {}
  OBVIOUS
<1>2. RaceType'
  BY DEF RaceType, FinalBirds, IInv, TypeOK, themes
<1>3. RaceInv'
  BY <1>1 DEF RaceInv, FinalBirds, IInv
<1>. QED BY <1>2, <1>3 DEF RaceOK

LEMMA JoinRace ==
  ASSUME IInv, RegistryOK', NEW c \in Conn, NEW base \in Requests, Join(c, base)
  PROVE  RaceOK'
<1> DEFINE id == nextID + 1
<1>1. PICK s \in [name : Name, bird : Bird, conn : {c}, flaps : {0}] :
        /\ s.name \notin DOMAIN names
        /\ Register(c, id, s)
        /\ \/ st = Waiting /\ BeginCountdown
           \/ st = Counting /\ AdmitRacer(id, s)
           \/ st \in {Racing, Finished} /\ UNCHANGED race
  BY JoinRegisters
<1>2. sess[c] = 0 /\ UNCHANGED pending
  BY JoinRegisters
<1>3. /\ nextID \in Nat /\ nextID' = id /\ id \in Nat /\ id # 0
      /\ id \notin DOMAIN players /\ id \notin DOMAIN birds /\ 0 \notin DOMAIN birds
  BY <1>1 DEF IInv, TypeOK, RegistryType, RaceType, Register
<1>4. /\ DOMAIN players' = DOMAIN players \cup {id}
      /\ players'[id] = s
      /\ \A i \in DOMAIN players : players'[i] = players[i]
  BY <1>1, <1>3 DEF Register, Put
<1>5. sess'[c] = id /\ \A d \in Conn : d # c => sess'[d] = sess[d]
  BY <1>1 DEF Register, IInv, TypeOK, ConnType
<1>6. \A i \in DOMAIN birds : \E d \in Conn : sess'[d] = i
  BY <1>2, <1>3, <1>5 DEF IInv, RaceInv
<1>7. pending' \subseteq 1 .. nextID'
  BY <1>2, <1>3 DEF IInv, TypeOK, RaceType
<1>8. CASE st = Waiting /\ BeginCountdown
  BY <1>2, <1>3, <1>4, <1>8, BeginCountdownOK
<1>9. CASE st = Counting /\ AdmitRacer(id, s)
  <2>1. /\ birds' = Put(birds, id, NewBird(s))
        /\ raceInfo' = Put(raceInfo, id, NewRaceInfo(s))
        /\ UNCHANGED <<st, timer, theme, lastTheme, raceNo, hasWorld, tick, results>>
    BY <1>3, <1>9 DEF AdmitRacer, IsRacer, themes
  <2>2. /\ DOMAIN birds' = DOMAIN birds \cup {id}
        /\ birds'[id] = NewBird(s)
        /\ \A i \in DOMAIN birds : birds'[i] = birds[i]
        /\ DOMAIN raceInfo' = DOMAIN raceInfo \cup {id}
        /\ raceInfo'[id] = NewRaceInfo(s)
        /\ \A i \in DOMAIN raceInfo : i # id => raceInfo'[i] = raceInfo[i]
    BY <1>3, <2>1 DEF Put
  <2>3. RaceType'
    <3>1. /\ NewBird(s) \in [name : Name, dead : BOOLEAN, left : BOOLEAN]
          /\ NewRaceInfo(s) \in [name : Name, bird : Bird]
      BY <1>1 DEF NewBird, NewRaceInfo
    <3>2. birds' \in [DOMAIN birds' -> [name : Name, dead : BOOLEAN, left : BOOLEAN]]
      BY <2>1, <3>1 DEF Put, IInv, TypeOK, RaceType
    <3>3. raceInfo' \in [DOMAIN raceInfo' -> [name : Name, bird : Bird]]
      BY <2>1, <3>1 DEF Put, IInv, TypeOK, RaceType
    <3>4. DOMAIN birds' \subseteq 1 .. nextID'
      BY <1>3, <2>2 DEF IInv, TypeOK, RaceType
    <3>. QED BY <1>7, <2>1, <3>2, <3>3, <3>4 DEF RaceType, IInv, TypeOK
  <2>4. \A i \in DOMAIN players' : birds'[i].name = players'[i].name
                                     /\ ~birds'[i].dead /\ ~birds'[i].left
    BY <1>4, <1>9, <2>2 DEF NewBird, IInv, RaceInv
  <2>5. \A i, j \in DOMAIN birds' : birds'[i].name = birds'[j].name => i = j
    BY <1>4, <1>9, <2>2, <2>4 DEF RegistryOK, RegistryInv, IInv, RaceInv
  <2>6. DOMAIN birds' = DOMAIN players' /\ DOMAIN raceInfo' = DOMAIN birds'
    BY <1>4, <1>9, <2>2 DEF IInv, RaceInv
  <2>7. \A i \in DOMAIN birds' : birds'[i].name = raceInfo'[i].name
    BY <1>3, <2>2 DEF NewBird, NewRaceInfo, IInv, RaceInv
  <2>8. \A i \in DOMAIN birds' : \E d \in Conn : sess'[d] = i
    BY <1>5, <1>6, <2>2
  <2>9. /\ st' = Counting /\ hasWorld' /\ DOMAIN results' = {}
        /\ DOMAIN players' # {}
    BY <1>4, <1>9, <2>1 DEF IInv, RaceInv
  <2>10. RaceInv'
    BY <2>4, <2>5, <2>6, <2>7, <2>8, <2>9 DEF RaceInv
  <2>. QED BY <2>3, <2>10 DEF RaceOK
<1>10. CASE st \in {Racing, Finished} /\ UNCHANGED race
  <2>1. UNCHANGED <<st, timer, theme, lastTheme, raceNo, hasWorld, tick, birds, raceInfo, results>>
    BY <1>10 DEF race, themes, world
  <2>2. RaceType'
    BY <1>3, <1>7, <2>1 DEF RaceType, IInv, TypeOK
  <2>3. AliveIn(birds') = AliveIn(birds)
    BY <2>1
  <2>4. RaceInv'
    BY <1>3, <1>4, <1>6, <1>10, <2>1, <2>3 DEF RaceInv, IInv
  <2>. QED BY <2>2, <2>4 DEF RaceOK
<1>. QED BY <1>1, <1>8, <1>9, <1>10

LEMMA LeaveRace ==
  ASSUME IInv, RegistryOK', NEW c \in Conn, Leave(c)
  PROVE  RaceOK'
<1> DEFINE id == sess[c]
<1>1. /\ id \in DOMAIN players
      /\ UNCHANGED <<sess, pending>>
      /\ Unregister(id)
  BY LeaveUnregisters
<1>2. /\ DOMAIN players' = DOMAIN players \ {id}
      /\ \A i \in DOMAIN players' : players'[i] = players[i]
      /\ UNCHANGED nextID
  BY <1>1 DEF Unregister, Drop
<1>3. pending' \subseteq 1 .. nextID'
  BY <1>1, <1>2 DEF IInv, TypeOK, RaceType
<1>4. CASE LeaveCountdown(id)
  <2>1. /\ st = Counting /\ IsRacer(id) /\ UNCHANGED <<theme, lastTheme, raceNo>>
    BY <1>1, <1>4 DEF LeaveCountdown, IsRacer, IInv, RaceInv, themes
  <2>2. CASE DOMAIN birds = {id}
    <3>1. DOMAIN players' = {}
      BY <1>2, <2>1, <2>2 DEF IInv, RaceInv
    <3>2. NoRace
      BY <1>4, <2>1, <2>2 DEF LeaveCountdown
    <3>. QED BY <1>3, <2>1, <3>1, <3>2, NoRaceOK DEF IInv, TypeOK, RaceType
  <2>3. CASE DOMAIN birds # {id}
    <3>1. /\ birds' = Drop(birds, id) /\ raceInfo' = Drop(raceInfo, id)
          /\ UNCHANGED <<st, timer, hasWorld, tick, results>>
      BY <1>4, <2>1, <2>3 DEF LeaveCountdown
    <3>2. /\ DOMAIN birds' = DOMAIN birds \ {id}
          /\ \A i \in DOMAIN birds' : birds'[i] = birds[i]
          /\ DOMAIN raceInfo' = DOMAIN raceInfo \ {id}
          /\ \A i \in DOMAIN raceInfo' : raceInfo'[i] = raceInfo[i]
      BY <3>1 DEF Drop
    <3>3. RaceType'
      <4>1. birds' \in [DOMAIN birds' -> [name : Name, dead : BOOLEAN, left : BOOLEAN]]
        BY <3>1, <3>2 DEF Drop, IInv, TypeOK, RaceType
      <4>2. raceInfo' \in [DOMAIN raceInfo' -> [name : Name, bird : Bird]]
        BY <3>1, <3>2 DEF Drop, IInv, TypeOK, RaceType
      <4>. QED BY <1>2, <1>3, <2>1, <3>1, <3>2, <4>1, <4>2 DEF RaceType, IInv, TypeOK
    <3>4. DOMAIN players' # {}
      BY <1>1, <1>2, <2>1, <2>3 DEF IInv, RaceInv
    <3>5. RaceInv'
      BY <1>1, <1>2, <2>1, <3>1, <3>2, <3>4 DEF RaceInv, IInv
    <3>. QED BY <3>3, <3>5 DEF RaceOK
  <2>. QED BY <2>2, <2>3
<1>5. CASE LeaveRacing(id)
  <2>1. st = Racing
    BY <1>5 DEF LeaveRacing
  <2>2. CASE ~IsRacer(id)
    <3>1. UNCHANGED race
      BY <1>5, <2>2 DEF LeaveRacing
    <3>2. FinalBirds(birds)
      BY <1>2 DEF FinalBirds, IInv, RaceInv, TypeOK, RaceType
    <3>3. AliveIn(birds) # {} /\ AliveIn(birds) \subseteq DOMAIN players'
      BY <1>2, <2>1, <2>2 DEF IInv, RaceInv, AliveIn, IsRacer
    <3>. QED BY <1>1, <1>2, <1>3, <2>1, <3>1, <3>2, <3>3, RaceGoesOnOK
         DEF race, themes, world, IInv, TypeOK, RaceType
  <2>3. CASE IsRacer(id)
    <3> DEFINE bs == KillLeft(id)
    <3>1. /\ FinalBirds(bs)
          /\ AliveIn(bs) = AliveIn(birds) \ {id}
      BY <2>3, KillLeftFinal
    <3>2. AliveIn(bs) \subseteq DOMAIN players'
      BY <1>2, <2>1, <3>1 DEF IInv, RaceInv
    <3>3. CASE AliveIn(bs) = {}
      <4>1. FinishRace(bs, tick)
        BY <1>5, <2>3, <3>3 DEF LeaveRacing
      <4>. QED BY <1>1, <1>2, <1>3, <2>1, <3>1, <4>1, FinishRaceOK DEF IInv, TypeOK, RaceType
    <3>4. CASE AliveIn(bs) # {}
      <4>1. /\ birds' = bs
            /\ UNCHANGED <<st, timer, themes, hasWorld, tick, raceInfo, results>>
        BY <1>5, <2>3, <3>4 DEF LeaveRacing
      <4>2. tick' \in Nat
        BY <4>1 DEF IInv, TypeOK, RaceType
      <4>. QED BY <1>1, <1>2, <1>3, <2>1, <3>1, <3>2, <3>4, <4>1, <4>2, RaceGoesOnOK
    <3>. QED BY <3>3, <3>4
  <2>. QED BY <2>2, <2>3
<1>6. CASE LeaveFinished
  <2>1. st = Finished /\ UNCHANGED <<theme, lastTheme, raceNo>>
    BY <1>6 DEF LeaveFinished, themes
  <2>2. CASE DOMAIN players' = {}
    BY <1>3, <1>6, <2>1, <2>2, NoRaceOK DEF LeaveFinished, IInv, TypeOK, RaceType
  <2>3. CASE DOMAIN players' # {}
    <3>1. UNCHANGED <<st, timer, hasWorld, tick, birds, raceInfo, results>>
      BY <1>6, <2>3 DEF LeaveFinished, world
    <3>2. RaceType'
      BY <1>2, <1>3, <2>1, <3>1 DEF RaceType, IInv, TypeOK
    <3>3. RaceInv'
      BY <1>1, <1>2, <2>1, <2>3, <3>1 DEF RaceInv, IInv
    <3>. QED BY <3>2, <3>3 DEF RaceOK
  <2>. QED BY <2>2, <2>3
<1>. QED BY <1>4, <1>5, <1>6 DEF Leave

\* Steps that only count flaps or queue impulses leave the race as it is.
LEMMA SameRace ==
  ASSUME IInv, RegistryOK', UNCHANGED <<st, themes, world, sess, nextID>>,
         DOMAIN players' = DOMAIN players,
         \A id \in DOMAIN players : players'[id].name = players[id].name,
         timer' \in Nat, pending' \subseteq 1 .. nextID'
  PROVE  RaceOK'
<1>1. UNCHANGED <<st, theme, lastTheme, raceNo, hasWorld, tick, birds, raceInfo, results>>
  BY DEF themes, world
<1>2. RaceType'
  BY <1>1 DEF RaceType, IInv, TypeOK
<1>3. AliveIn(birds') = AliveIn(birds)
  BY <1>1
<1>4. RaceInv'
  BY <1>1, <1>3 DEF RaceInv, IInv
<1>. QED BY <1>2, <1>4 DEF RaceOK

LEMMA TickRace ==
  ASSUME IInv, RegistryOK', Tick
  PROVE  RaceOK'
<1>1. UNCHANGED <<sess, players, order, names, nextID>>
  BY TickFrames DEF registry
<1>2. timer \in Nat /\ tick \in Nat /\ pending \subseteq 1 .. nextID
  BY DEF IInv, TypeOK, RaceType
<1>3. CASE TickWaiting
  BY <1>1, <1>2, <1>3, SameRace DEF TickWaiting, vars, race
<1>4. CASE TickCountdown
  <2>1. CASE timer = 0
    <3>1. st = Counting /\ st' = Racing /\ UNCHANGED <<timer, themes, world, pending>>
      BY <1>4, <2>1 DEF TickCountdown
    <3>2. UNCHANGED <<theme, lastTheme, raceNo, hasWorld, tick, birds, raceInfo, results>>
      BY <3>1 DEF themes, world
    <3>3. AliveIn(birds) = DOMAIN players /\ DOMAIN players # {}
      BY <3>1 DEF AliveIn, IInv, RaceInv
    <3>4. AliveIn(birds') = AliveIn(birds)
      BY <3>2
    <3>5. RaceType'
      BY <1>1, <1>2, <3>1, <3>2 DEF RaceType, IInv, TypeOK
    <3>6. RaceInv'
      BY <1>1, <3>1, <3>2, <3>3, <3>4 DEF RaceInv, IInv
    <3>. QED BY <3>5, <3>6 DEF RaceOK
  <2>2. CASE timer # 0
    BY <1>1, <1>2, <1>4, <2>2, SameRace DEF TickCountdown
  <2>. QED BY <2>1, <2>2
<1>5. CASE TickRacing
  <2>1. st = Racing /\ pending' = {}
    BY <1>5 DEF TickRacing
  <2>2. PICK dying \in SUBSET AliveIn(birds) :
          LET bs == Stepped(dying)
          IN IF AliveIn(bs) = {} \/ NextTick >= MaxRaceTicks
             THEN FinishRace(bs, NextTick)
             ELSE /\ birds' = bs /\ tick' = NextTick
                  /\ UNCHANGED <<st, timer, themes, hasWorld, raceInfo, results, store>>
                  /\ MaybeSnapshot
    BY <1>5 DEF TickRacing
  <2> DEFINE bs == Stepped(dying)
  <2>7. FinalBirds(bs) /\ AliveIn(bs) \subseteq AliveIn(birds)
    BY <1>1, SteppedFinal
  <2> HIDE DEF bs
  <2>9. AliveIn(bs) \subseteq DOMAIN players'
    BY <1>1, <2>1, <2>7 DEF IInv, RaceInv
  <2>10. NextTick \in Nat /\ pending' \subseteq 1 .. nextID'
    BY <1>2, <2>1 DEF NextTick
  <2>11. CASE AliveIn(bs) = {} \/ NextTick >= MaxRaceTicks
    <3>1. FinishRace(bs, NextTick)
      BY <2>2, <2>11 DEF bs
    <3>. QED BY <1>1, <2>1, <2>7, <2>10, <3>1, FinishRaceOK
  <2>12. CASE ~(AliveIn(bs) = {} \/ NextTick >= MaxRaceTicks)
    <3>1. /\ birds' = bs /\ tick' = NextTick
          /\ UNCHANGED <<st, timer, themes, hasWorld, raceInfo, results>>
      BY <2>2, <2>12 DEF bs
    <3>. QED BY <1>1, <2>1, <2>7, <2>9, <2>10, <2>12, <3>1, RaceGoesOnOK
  <2>. QED BY <2>11, <2>12
<1>6. CASE TickFinished
  <2>1. st = Finished /\ UNCHANGED pending
    BY <1>6 DEF TickFinished
  <2>2. CASE timer > 0
    <3>1. UNCHANGED <<st, timer, themes, world>>
      BY <1>6, <2>2 DEF TickFinished, race
    <3>. QED BY <1>1, <1>2, <2>1, <3>1, SameRace
  <2>3. CASE ~(timer > 0)
    <3>1. DOMAIN players # {}
      <4>1. st = Waiting <=> DOMAIN players = {}
        BY DEF IInv, RaceInv
      <4>2. st # Waiting
        BY <2>1
      <4>. QED BY <4>1, <4>2, Zenon
    <3>2. BeginCountdown
      BY <1>6, <2>3, <3>1 DEF TickFinished
    <3>3. nextID' >= nextID
      BY <1>1 DEF IInv, TypeOK, RegistryType
    <3>. QED BY <1>1, <2>1, <3>1, <3>2, <3>3, BeginCountdownOK
  <2>. QED BY <2>2, <2>3
<1>. QED BY <1>3, <1>4, <1>5, <1>6 DEF Tick

LEMMA RaceNext ==
  ASSUME IInv, RegistryOK', [Next]_vars
  PROVE  RaceOK'
<1>1. timer \in Nat /\ pending \subseteq 1 .. nextID
  BY DEF IInv, TypeOK, RaceType
<1>2. ASSUME NEW c \in Conn, Flap(c) PROVE RaceOK'
  <2>1. /\ OnlyFlapCounts /\ sess[c] \in DOMAIN players /\ UNCHANGED race
        /\ pending' \subseteq pending \cup {sess[c]}
    BY <1>2, FlapCounts DEF Flap
  <2>2. sess[c] \in 1 .. nextID
    BY <2>1 DEF IInv, TypeOK, RegistryType
  <2>. QED BY <1>1, <2>1, <2>2, SameRace DEF OnlyFlapCounts, race
<1>3. CASE SecondBegins
  <2>1. OnlyFlapCounts /\ UNCHANGED <<race, pending>>
    BY <1>3, SecondBeginsCounts DEF SecondBegins
  <2>. QED BY <1>1, <2>1, SameRace DEF OnlyFlapCounts, race
<1>4. ASSUME NEW c \in Conn, Reject(c) \/ LeaveUnjoined(c) PROVE RaceOK'
  BY <1>1, <1>4, SameRace DEF Reject, LeaveUnjoined, registry, race
<1>5. CASE PeriodElapses
  BY <1>1, <1>5, SameRace DEF PeriodElapses, conns, registry
<1>6. CASE SnapshotFallsDue \/ UNCHANGED vars
  BY <1>1, <1>6, SameRace DEF SnapshotFallsDue, vars, conns, registry, race
<1>. QED BY <1>2, <1>3, <1>4, <1>5, <1>6, JoinRace, LeaveRace, TickRace DEF Next

(***************************************************************************)
(* The frames and the state file.                                          *)
(***************************************************************************)

\* What a step may do to the frames: nothing, or send some.
LEMMA FramesNext ==
  ASSUME IInv, [Next]_vars
  PROVE  Broadcast \/ Silence \/ (UNCHANGED seen /\ DOMAIN players' = DOMAIN players)
<1>1. ASSUME NEW c \in Conn, NEW base \in Requests, Join(c, base) PROVE Broadcast
  BY <1>1, JoinRegisters
<1>2. ASSUME NEW c \in Conn, Leave(c) PROVE Broadcast \/ Silence
  BY <1>2, LeaveUnregisters
<1>3. ASSUME NEW c \in Conn, Reject(c) \/ LeaveUnjoined(c) PROVE UNCHANGED <<seen, players>>
  BY <1>3 DEF Reject, LeaveUnjoined, registry, frames
<1>4. ASSUME NEW c \in Conn, Flap(c)
      PROVE UNCHANGED seen /\ DOMAIN players' = DOMAIN players
  BY <1>4, FlapCounts DEF Flap, frames, OnlyFlapCounts
<1>5. CASE SecondBegins
  BY <1>5, SecondBeginsCounts DEF SecondBegins, frames, OnlyFlapCounts
<1>6. CASE PeriodElapses \/ SnapshotFallsDue \/ UNCHANGED vars
  BY <1>6 DEF PeriodElapses, SnapshotFallsDue, vars, registry, frames
<1>7. CASE Tick
  BY <1>7 DEF Tick, TickWaiting, TickCountdown, TickRacing, TickFinished, MaybeSnapshot,
     FinishRace, vars, registry, frames
<1>. QED BY <1>1, <1>2, <1>3, <1>4, <1>5, <1>6, <1>7 DEF Next

Frame(n) == [st : {Waiting, Counting, Racing, Finished}, race : 0 .. MaxRaces,
             racers : SUBSET (1 .. n), left : SUBSET (1 .. n), ranked : SUBSET (1 .. n)]

LEMMA SeenNext ==
  ASSUME IInv, RegistryOK', RaceOK', [Next]_vars, nextID' >= nextID
  PROVE  seen' \in [DOMAIN players' -> Frame(nextID')]
<1>1. seen \in [DOMAIN players -> Frame(nextID)] /\ nextID \in Nat /\ nextID' \in Nat
  BY DEF IInv, TypeOK, OutputType, RegistryType, Frame, RegistryOK
<1>2. Frame(nextID) \subseteq Frame(nextID')
  BY <1>1 DEF Frame
<1>3. Snapshot' \in Frame(nextID') /\ Welcome' \in Frame(nextID')
  <2>1. /\ st' \in {Waiting, Counting, Racing, Finished} /\ raceNo' \in 0 .. MaxRaces
        /\ DOMAIN birds' \subseteq 1 .. nextID'
        /\ DOMAIN results' \subseteq DOMAIN birds'
    BY DEF RaceOK, RaceType, RaceInv
  <2>2. LeftIn(birds') \subseteq DOMAIN birds'
    BY DEF LeftIn
  <2>. QED BY <2>1, <2>2 DEF Snapshot, Welcome, Frame
<1>4. \A id : Shown(id) \in Frame(nextID')
  BY <1>1, <1>2, <1>3 DEF Shown
<1>. QED BY <1>1, <1>2, <1>3, <1>4, FramesNext DEF Broadcast, Silence

EndOfRace == st = Racing /\ st' # Racing

\* What a step may do to the state file: record the race it ends or, when it
\* ends none, add the name that joined.
Added ==
  \E name \in Name \ DOMAIN store, bird \in Bird :
    store' = Put(store, name, [bird |-> bird, races |-> 0])

Recorded == \E bs : FinalBirds(bs) /\ store' = RecordRace(store, Entries(bs))

LEMMA FinishRaceRecords ==
  ASSUME NEW bs, NEW t, FinishRace(bs, t), FinalBirds(bs), st = Racing
  PROVE  EndOfRace /\ Recorded
BY DEF FinishRace, NoRace, EndOfRace, Recorded

LEMMA StoreNext ==
  ASSUME IInv, [Next]_vars
  PROVE  IF EndOfRace THEN Recorded ELSE UNCHANGED store \/ Added
<1>1. ASSUME NEW c \in Conn, NEW base \in Requests, Join(c, base)
      PROVE ~EndOfRace /\ (UNCHANGED store \/ Added)
  <2>1. PICK name \in UniqueName(base) : \E bird \in BirdsFor(name) :
          store' = IF name \in DOMAIN store THEN store
                   ELSE Put(store, name, [bird |-> bird, races |-> 0])
    BY <1>1 DEF Join
  <2>2. PICK bird \in BirdsFor(name) :
          store' = IF name \in DOMAIN store THEN store
                   ELSE Put(store, name, [bird |-> bird, races |-> 0])
    BY <2>1
  <2>3. name \in Name
    BY UniqueNameFree
  <2>4. name \notin DOMAIN store => bird \in Bird
    BY <2>2 DEF BirdsFor
  <2>5. ~EndOfRace
    <3>1. st = Racing => UNCHANGED race
      BY <1>1 DEF Join
    <3>. QED BY <3>1 DEF EndOfRace, race
  <2>. QED BY <2>2, <2>3, <2>4, <2>5 DEF Added
<1>2. ASSUME NEW c \in Conn, Leave(c)
      PROVE \/ ~EndOfRace /\ UNCHANGED store
            \/ EndOfRace /\ Recorded
  <2>1. CASE LeaveCountdown(sess[c]) \/ LeaveFinished
    BY <2>1 DEF LeaveCountdown, LeaveFinished, EndOfRace
  <2>2. CASE LeaveRacing(sess[c])
    <3>1. \/ UNCHANGED <<st, store>>
          \/ IsRacer(sess[c]) /\ FinishRace(KillLeft(sess[c]), tick)
      BY <2>2 DEF LeaveRacing, race
    <3>2. CASE IsRacer(sess[c]) /\ FinishRace(KillLeft(sess[c]), tick)
      <4>1. FinalBirds(KillLeft(sess[c]))
        BY <1>2, <3>2, KillLeftFinal
      <4>2. st = Racing
        BY <2>2 DEF LeaveRacing
      <4>. QED BY <3>2, <4>1, <4>2, FinishRaceRecords
    <3>. QED BY <3>1, <3>2 DEF EndOfRace
  <2>. QED BY <1>2, <2>1, <2>2 DEF Leave
<1>3. CASE TickRacing
  <2>1. PICK dying \in SUBSET AliveIn(birds) :
          UNCHANGED <<st, store>> \/ FinishRace(Stepped(dying), NextTick)
    BY <1>3 DEF TickRacing
  <2>2. FinalBirds(Stepped(dying))
    BY <1>3, SteppedFinal DEF TickRacing, registry
  <2>3. CASE FinishRace(Stepped(dying), NextTick)
    BY <1>3, <2>2, <2>3, FinishRaceRecords DEF TickRacing
  <2>. QED BY <2>1, <2>3 DEF EndOfRace
<1>4. CASE \/ TickWaiting \/ TickCountdown \/ TickFinished
           \/ PeriodElapses \/ SnapshotFallsDue \/ SecondBegins \/ UNCHANGED vars
  BY <1>4 DEF TickWaiting, TickCountdown, TickFinished, PeriodElapses, SnapshotFallsDue,
     SecondBegins, vars, race, EndOfRace
<1>5. ASSUME NEW c \in Conn, Reject(c) \/ LeaveUnjoined(c) \/ Flap(c)
      PROVE UNCHANGED store /\ ~EndOfRace
  BY <1>5 DEF Reject, LeaveUnjoined, Flap, race, EndOfRace
<1>. QED BY <1>1, <1>2, <1>3, <1>4, <1>5 DEF Next, Tick

\* Who raced, and what the end of the race writes for each: one more race, under
\* the bird it raced with. RosterCoherent's distinct names make it one.
LEMMA RecordRaceWrites ==
  ASSUME IInv, Recorded
  PROVE  /\ DOMAIN store' = DOMAIN store \cup {birds[id].name : id \in DOMAIN birds}
         /\ \A id \in DOMAIN birds : store'[birds[id].name] =
              [bird  |-> raceInfo[id].bird,
               races |-> (IF birds[id].name \in DOMAIN store
                          THEN store[birds[id].name].races ELSE 0) + 1]
         /\ \A n \in DOMAIN store \ {birds[id].name : id \in DOMAIN birds} :
              store'[n] = store[n]
<1>1. PICK bs : FinalBirds(bs) /\ store' = RecordRace(store, Entries(bs))
  BY DEF Recorded
<1> DEFINE es    == Entries(bs)
           raced == {birds[id].name : id \in DOMAIN birds}
<1>2. /\ DOMAIN es = DOMAIN birds
      /\ \A id \in DOMAIN birds : es[id] = [name |-> birds[id].name, bird |-> raceInfo[id].bird]
  BY <1>1 DEF FinalBirds, Entries
<1> HIDE DEF es
<1>3. {e.name : e \in Range(es)} = raced
  BY <1>2 DEF Range
<1>4. ASSUME NEW id \in DOMAIN birds
      PROVE  /\ (CHOOSE e \in Range(es) : e.name = birds[id].name) = es[id]
             /\ {i \in DOMAIN es : es[i].name = birds[id].name} = {id}
  <2>1. \A i \in DOMAIN birds : birds[i].name = birds[id].name => i = id
    BY DEF IInv, RaceInv
  <2>2. es[id] \in Range(es) /\ es[id].name = birds[id].name
    BY <1>2 DEF Range
  <2>3. \A e \in Range(es) : e.name = birds[id].name => e = es[id]
    BY <1>2, <2>1 DEF Range
  <2>. QED BY <1>2, <2>1, <2>2, <2>3
<1>5. store' = [n \in DOMAIN store \cup raced |->
                  IF n \in raced
                  THEN [bird  |-> (CHOOSE e \in Range(es) : e.name = n).bird,
                        races |-> (IF n \in DOMAIN store THEN store[n].races ELSE 0)
                                    + Cardinality({i \in DOMAIN es : es[i].name = n})]
                  ELSE store[n]]
  BY <1>1, <1>3 DEF RecordRace, es
<1>6. ASSUME NEW id \in DOMAIN birds
      PROVE  store'[birds[id].name] =
              [bird  |-> raceInfo[id].bird,
               races |-> (IF birds[id].name \in DOMAIN store
                          THEN store[birds[id].name].races ELSE 0) + 1]
  <2>1. Cardinality({id}) = 1
    BY FS_Singleton
  <2>2. birds[id].name \in raced
    OBVIOUS
  <2> DEFINE n == birds[id].name
  <2>3. store'[n] = [bird  |-> (CHOOSE e \in Range(es) : e.name = n).bird,
                     races |-> (IF n \in DOMAIN store THEN store[n].races ELSE 0)
                                 + Cardinality({i \in DOMAIN es : es[i].name = n})]
    BY <1>5, <2>2
  <2>4. (CHOOSE e \in Range(es) : e.name = n) = es[id] /\ {i \in DOMAIN es : es[i].name = n} = {id}
    BY <1>4
  <2>5. es[id].bird = raceInfo[id].bird
    BY <1>2
  <2> HIDE DEF n
  <2>6. store'[n] = [bird  |-> raceInfo[id].bird,
                     races |-> (IF n \in DOMAIN store THEN store[n].races ELSE 0) + 1]
    BY <2>1, <2>3, <2>4, <2>5
  <2>. QED BY <2>6 DEF n
<1>. QED BY <1>5, <1>6

LEMMA StoreType ==
  ASSUME IInv, [Next]_vars
  PROVE  DOMAIN store' \subseteq Name /\ store' \in [DOMAIN store' -> [bird : Bird, races : Nat]]
<1>1. DOMAIN store \subseteq Name /\ store \in [DOMAIN store -> [bird : Bird, races : Nat]]
  BY DEF IInv, TypeOK, OutputType
<1>2. CASE UNCHANGED store
  BY <1>1, <1>2
<1>3. CASE Added
  BY <1>1, <1>3 DEF Added, Put
<1>4. CASE Recorded
  <2> DEFINE raced == {birds[id].name : id \in DOMAIN birds}
  <2>1. \A id \in DOMAIN birds : birds[id].name \in Name /\ raceInfo[id].bird \in Bird
    BY DEF IInv, RaceInv, TypeOK, RaceType
  <2>2. DOMAIN store' = DOMAIN store \cup raced
    BY <1>4, RecordRaceWrites
  <2>3. ASSUME NEW n \in raced PROVE n \in Name /\ store'[n] \in [bird : Bird, races : Nat]
    <3>1. PICK id \in DOMAIN birds : n = birds[id].name
      OBVIOUS
    <3>2. store'[n] = [bird  |-> raceInfo[id].bird,
                       races |-> (IF n \in DOMAIN store THEN store[n].races ELSE 0) + 1]
      BY <1>4, <3>1, RecordRaceWrites
    <3>3. (IF n \in DOMAIN store THEN store[n].races ELSE 0) + 1 \in Nat
      BY <1>1
    <3>. QED BY <2>1, <3>1, <3>2, <3>3
  <2>4. \A n \in DOMAIN store \ raced : store'[n] \in [bird : Bird, races : Nat]
    BY <1>1, <1>4, RecordRaceWrites
  <2>5. store' = [n \in DOMAIN store' |-> store'[n]]
    BY <1>4 DEF Recorded, RecordRace
  <2> HIDE DEF raced
  <2>. QED BY <1>1, <2>2, <2>3, <2>4, <2>5
<1>. QED BY <1>2, <1>3, <1>4, StoreNext

(***************************************************************************)
(* Invariance.                                                             *)
(***************************************************************************)

LEMMA InitIInv == Init => IInv
<1> SUFFICES ASSUME Init PROVE IInv
  OBVIOUS
<1>1. DOMAIN Empty = {} /\ \A T : Empty \in [DOMAIN Empty -> T]
  BY DEF Empty
<1>2. /\ pump = [c \in Conn |-> "connected"] /\ sess = [c \in Conn |-> 0]
      /\ closed = {} /\ crashed = FALSE
      /\ players = Empty /\ order = <<>> /\ names = Empty /\ nextID = 0
      /\ st = Waiting /\ timer = 0 /\ theme = 0 /\ lastTheme = 0 /\ raceNo = 0
      /\ hasWorld = FALSE /\ tick = 0
      /\ birds = Empty /\ raceInfo = Empty /\ results = Empty
      /\ pending = {} /\ snapDue = TRUE /\ seen = Empty
  BY DEF Init
<1>3. ConnType /\ SessionInv
  <2>1. crashed \in BOOLEAN /\ ~crashed
    BY <1>2, Zenon
  <2>2. /\ pump \in [Conn -> {"connected", "playing", "refused", "gone"}]
        /\ sess \in [Conn -> 0 .. nextID] /\ closed \subseteq Conn
    BY <1>2
  <2>3. /\ \A c \in Conn : pump[c] = "connected" /\ sess[c] = 0
        /\ DOMAIN players = {} /\ closed = {}
    BY <1>1, <1>2
  <2>. QED BY <2>1, <2>2, <2>3 DEF ConnType, SessionInv
<1>4. RegistryType /\ RegistryInv
  <2>1. order \in Seq(1 .. nextID) /\ Range(order) = {} /\ IsInjective(order)
    BY <1>2 DEF Range, IsInjective
  <2>2. {players[id].name : id \in DOMAIN players} = {}
    BY <1>1, <1>2
  <2>3. /\ players \in [DOMAIN players ->
              [name : Name, bird : Bird, conn : Conn, flaps : 0 .. FlapRateLimit]]
        /\ names \in [DOMAIN names -> 1 .. nextID]
    BY <1>1, <1>2
  <2>. QED BY <1>1, <1>2, <2>1, <2>2, <2>3 DEF RegistryType, RegistryInv
<1>5. RaceType /\ RaceInv
  <2>1. /\ birds \in [DOMAIN birds -> [name : Name, dead : BOOLEAN, left : BOOLEAN]]
        /\ raceInfo \in [DOMAIN raceInfo -> [name : Name, bird : Bird]]
        /\ results \in [DOMAIN results -> [name : Name, left : BOOLEAN]]
    BY <1>1, <1>2
  <2>2. 0 \in 0 .. ThemeCount - 1 /\ 0 \in 0 .. MaxRaces
    BY ConstantsAssumption
  <2>3. RaceType
    BY <1>1, <1>2, <2>1, <2>2 DEF RaceType
  <2>4. RaceInv
    BY <1>1, <1>2 DEF RaceInv
  <2>. QED BY <2>3, <2>4
<1>6. OutputType
  <2>1. PICK known \in SUBSET Requests : store \in [known -> [bird : Bird, races : {0}]]
    BY DEF Init
  <2>2. DOMAIN store \subseteq Name /\ store \in [DOMAIN store -> [bird : Bird, races : Nat]]
    BY <2>1, ConstantsAssumption
  <2>3. seen \in [DOMAIN players -> Frame(nextID)]
    BY <1>1, <1>2
  <2>4. snapDue \in BOOLEAN
    BY <1>2
  <2>. QED BY <2>2, <2>3, <2>4 DEF OutputType, Frame
<1>. QED BY <1>3, <1>4, <1>5, <1>6 DEF IInv, TypeOK

LEMMA SnapDueType ==
  ASSUME IInv, [Next]_vars
  PROVE  snapDue' \in BOOLEAN
<1>1. ASSUME NEW c \in Conn,
             Reject(c) \/ Flap(c) \/ LeaveUnjoined(c)
      PROVE  UNCHANGED snapDue
  BY <1>1 DEF Reject, Flap, LeaveUnjoined, frames
<1>2. CASE SecondBegins \/ PeriodElapses \/ UNCHANGED vars
  <2>1. UNCHANGED snapDue
    BY <1>2 DEF SecondBegins, PeriodElapses, frames, vars
  <2>. QED BY <2>1 DEF IInv, TypeOK, OutputType
<1>3. CASE SnapshotFallsDue
  BY <1>3 DEF SnapshotFallsDue
<1>4. ASSUME Broadcast \/ Silence \/ UNCHANGED snapDue PROVE snapDue' \in BOOLEAN
  <2>1. UNCHANGED snapDue \/ snapDue' = FALSE
    BY <1>4 DEF Broadcast, Silence
  <2>. QED BY <2>1 DEF IInv, TypeOK, OutputType
<1>5. CASE Tick
  <2>1. Broadcast \/ Silence \/ UNCHANGED snapDue
    BY <1>5 DEF Tick, TickWaiting, TickCountdown, TickRacing, TickFinished, MaybeSnapshot,
       FinishRace, vars, frames
  <2>. QED BY <1>4, <2>1
<1>6. ASSUME NEW c \in Conn, Leave(c) PROVE snapDue' \in BOOLEAN
  BY <1>4, <1>6, LeaveUnregisters
<1>7. ASSUME NEW c \in Conn, NEW base \in Requests, Join(c, base) PROVE snapDue' \in BOOLEAN
  BY <1>4, <1>7, JoinRegisters
<1>8. snapDue \in BOOLEAN
  BY DEF IInv, TypeOK, OutputType
<1>. QED BY <1>1, <1>2, <1>3, <1>5, <1>6, <1>7, <1>8 DEF Next

\* Ids are never given twice.
LEMMA IdsGrow ==
  ASSUME IInv, [Next]_vars
  PROVE  nextID' >= nextID
<1>1. nextID \in Nat
  BY DEF IInv, TypeOK, RegistryType
<1>2. ASSUME NEW c \in Conn, NEW base \in Requests, Join(c, base) PROVE nextID' = nextID + 1
  BY <1>2, JoinRegisters DEF Register
<1>3. ASSUME NEW c \in Conn, Leave(c) PROVE UNCHANGED nextID
  BY <1>3, LeaveUnregisters DEF Unregister
<1>4. ASSUME NEW c \in Conn, Reject(c) \/ Flap(c) \/ LeaveUnjoined(c) PROVE UNCHANGED nextID
  BY <1>4 DEF Reject, Flap, LeaveUnjoined, registry
<1>5. CASE Tick
  BY <1>1, <1>5, TickFrames DEF registry
<1>6. CASE SecondBegins \/ PeriodElapses \/ SnapshotFallsDue \/ UNCHANGED vars
  BY <1>1, <1>6 DEF SecondBegins, PeriodElapses, SnapshotFallsDue, vars, registry
<1>. QED BY <1>1, <1>2, <1>3, <1>4, <1>5, <1>6 DEF Next

LEMMA NextIInv == IInv /\ [Next]_vars => IInv'
<1> SUFFICES ASSUME IInv, [Next]_vars PROVE IInv'
  OBVIOUS
<1>1. RegistryOK'
  BY RegistryNext
<1>2. RaceOK'
  BY <1>1, RaceNext
<1>3. OutputType'
  <2>1. seen' \in [DOMAIN players' -> Frame(nextID')]
    BY <1>1, <1>2, IdsGrow, SeenNext
  <2>. QED BY <2>1, SnapDueType, StoreType DEF OutputType, Frame
<1>. QED BY <1>1, <1>2, <1>3 DEF IInv, TypeOK, RegistryOK, RaceOK

\* The inductive invariant holds in every state of the hub: what the theorems below
\* read their properties off.
THEOREM Invariance == Spec => []IInv
<1>1. Init => IInv
  BY InitIInv
<1>2. IInv /\ [Next]_vars => IInv'
  BY NextIInv
<1>. QED BY <1>1, <1>2, PTL DEF Spec

\* Every variable keeps its type, for any constants (hub.go:49-80).
THEOREM TypeCorrect == Spec => []TypeOK
<1>1. IInv => TypeOK
  BY DEF IInv
<1>. QED BY <1>1, Invariance, PTL

\* The join order, the player map and the name table never drift apart, and a
\* player is exactly a connection whose reader is in a session: what
\* beginCountdown and broadcast rely on when they walk the order.
THEOREM RegistryStaysCoherent == Spec => []RegistryCoherent
<1>1. IInv => RegistryCoherent
  <2> SUFFICES ASSUME IInv PROVE RegistryCoherent
    OBVIOUS
  <2>1. ASSUME NEW c \in Conn
        PROVE pump[c] = "playing" <=> \E id \in DOMAIN players : players[id].conn = c /\ sess[c] = id
    BY DEF IInv, SessionInv
  <2>. QED BY <2>1 DEF RegistryCoherent, RegistryInv, IInv
<1>. QED BY <1>1, Invariance, PTL

\* The hub never sends to a queue it has closed, so it never panics (hub.go:263-267).
THEOREM HubNeverPanics == Spec => []NoSendOnClosed
<1>1. IInv => NoSendOnClosed
  BY DEF IInv, SessionInv, NoSendOnClosed
<1>. QED BY <1>1, Invariance, PTL

\* The world, the display data and the results speak of the same racers.
THEOREM RosterStaysCoherent == Spec => []RosterCoherent
<1>1. IInv => RosterCoherent
  BY DEF IInv, RaceInv, RosterCoherent
<1>. QED BY <1>1, Invariance, PTL

-----------------------------------------------------------------------------
(***************************************************************************)
(* The state file.                                                         *)
(***************************************************************************)

\* Before and after a step a race record counts what RacesRecordedOnce says.
CountedOnce ==
  \A n \in DOMAIN store' :
    store'[n].races - (IF n \in DOMAIN store THEN store[n].races ELSE 0)
      = IF st = Racing /\ st' # Racing /\ \E id \in DOMAIN birds : birds[id].name = n
        THEN 1 ELSE 0

BirdKept == \A n \in DOMAIN store : n \in DOMAIN store' /\ store'[n].bird = store[n].bird

LEMMA AddedWrites ==
  ASSUME IInv, Added
  PROVE  /\ \A n \in DOMAIN store : n \in DOMAIN store' /\ store'[n] = store[n]
         /\ \A n \in DOMAIN store' \ DOMAIN store : store'[n].races = 0
BY DEF Added, Put

LEMMA StoreRaces == IInv => \A n \in DOMAIN store : store[n].races \in Nat
BY DEF IInv, TypeOK, OutputType

LEMMA CountsOnce ==
  ASSUME IInv, [Next]_vars
  PROVE  CountedOnce
<1>1. \A n \in DOMAIN store : store[n].races \in Nat
  BY StoreRaces
<1>2. CASE EndOfRace
  <2>1. Recorded
    BY <1>2, StoreNext
  <2>2. SUFFICES ASSUME NEW n \in DOMAIN store'
                 PROVE  store'[n].races - (IF n \in DOMAIN store THEN store[n].races ELSE 0)
                          = IF \E id \in DOMAIN birds : birds[id].name = n THEN 1 ELSE 0
    BY <1>2 DEF CountedOnce, EndOfRace
  <2>3. CASE \E id \in DOMAIN birds : birds[id].name = n
    <3>1. PICK id \in DOMAIN birds : birds[id].name = n
      BY <2>3
    <3>2. store'[n] = [bird  |-> raceInfo[id].bird,
                       races |-> (IF n \in DOMAIN store THEN store[n].races ELSE 0) + 1]
      BY <2>1, <3>1, RecordRaceWrites
    <3>3. store'[n].races = (IF n \in DOMAIN store THEN store[n].races ELSE 0) + 1
      BY <3>2
    <3>. QED BY <1>1, <2>3, <3>3
  <2>4. CASE ~ \E id \in DOMAIN birds : birds[id].name = n
    <3>1. n \in DOMAIN store /\ store'[n] = store[n]
      BY <2>1, <2>4, RecordRaceWrites
    <3>. QED BY <1>1, <2>4, <3>1
  <2>. QED BY <2>3, <2>4
<1>3. CASE ~EndOfRace
  <2>1. SUFFICES ASSUME NEW n \in DOMAIN store'
                 PROVE  store'[n].races = IF n \in DOMAIN store THEN store[n].races ELSE 0
    BY <1>1, <1>3 DEF CountedOnce, EndOfRace
  <2>2. UNCHANGED store \/ Added
    BY <1>3, StoreNext
  <2>. QED BY <2>2, AddedWrites
<1>. QED BY <1>2, <1>3

LEMMA KeepsBirds ==
  ASSUME IInv, BirdsRemembered, [Next]_vars
  PROVE  BirdKept
<1>1. CASE EndOfRace
  <2>1. Recorded
    BY <1>1, StoreNext
  <2>2. SUFFICES ASSUME NEW n \in DOMAIN store
                 PROVE  n \in DOMAIN store' /\ store'[n].bird = store[n].bird
    BY DEF BirdKept
  <2>3. n \in DOMAIN store'
    BY <2>1, RecordRaceWrites
  <2>4. CASE \E id \in DOMAIN birds : birds[id].name = n
    <3>1. PICK id \in DOMAIN birds : birds[id].name = n
      BY <2>4
    <3>2. id \in DOMAIN raceInfo /\ raceInfo[id].name = n
      BY <3>1 DEF IInv, RaceInv
    <3>3. store'[n] = [bird  |-> raceInfo[id].bird,
                       races |-> (IF n \in DOMAIN store THEN store[n].races ELSE 0) + 1]
      BY <2>1, <3>1, RecordRaceWrites
    <3>4. store'[n].bird = raceInfo[id].bird
      BY <3>3
    <3>. QED BY <2>3, <3>2, <3>4 DEF BirdsRemembered
  <2>5. CASE ~ \E id \in DOMAIN birds : birds[id].name = n
    <3>1. store'[n] = store[n]
      BY <2>1, <2>5, RecordRaceWrites
    <3>. QED BY <2>3, <3>1
  <2>. QED BY <2>4, <2>5
<1>2. CASE ~EndOfRace
  <2>1. UNCHANGED store \/ Added
    BY <1>2, StoreNext
  <2>. QED BY <2>1, AddedWrites DEF BirdKept
<1>. QED BY <1>1, <1>2

\* Where a step takes the players of its next state from: they were there under
\* the same name and bird, or the store knows the one that joined.
PlayersFrom ==
  \A id \in DOMAIN players' :
    \/ /\ id \in DOMAIN players
       /\ players'[id].name = players[id].name /\ players'[id].bird = players[id].bird
    \/ /\ players'[id].name \in DOMAIN store'
       /\ store'[players'[id].name].bird = players'[id].bird

\* And the racers: they raced already, or they are players.
RacersFrom ==
  \A id \in DOMAIN raceInfo' :
    \/ id \in DOMAIN raceInfo /\ raceInfo'[id] = raceInfo[id]
    \/ id \in DOMAIN players' /\ raceInfo'[id] = NewRaceInfo(players'[id])

LEMMA BeginCountdownRacers ==
  ASSUME BeginCountdown, Range(order') = DOMAIN players'
  PROVE  RacersFrom
BY DEF BeginCountdown, Admitted, RacersFrom

LEMMA NoRaceRacers ==
  ASSUME NoRace
  PROVE  RacersFrom
BY DEF NoRace, RacersFrom, Empty

LEMMA FinishRaceRacers ==
  ASSUME NEW bs, NEW t, FinishRace(bs, t)
  PROVE  RacersFrom
BY NoRaceRacers DEF FinishRace, RacersFrom

LEMMA JoinPlayers ==
  ASSUME IInv, IInv', NEW c \in Conn, NEW base \in Requests, Join(c, base)
  PROVE  PlayersFrom /\ RacersFrom
<1> DEFINE id == nextID + 1
<1>1. PICK name \in UniqueName(base) : \E bird \in BirdsFor(name) :
        LET s == [name |-> name, bird |-> bird, conn |-> c, flaps |-> 0]
        IN /\ store' = IF name \in DOMAIN store THEN store
                       ELSE Put(store, name, [bird |-> bird, races |-> 0])
           /\ Register(c, id, s)
           /\ \/ st = Waiting /\ BeginCountdown
              \/ st = Counting /\ AdmitRacer(id, s)
              \/ st \in {Racing, Finished} /\ UNCHANGED race
  BY DEF Join
<1>2. PICK bird \in BirdsFor(name) :
        LET s == [name |-> name, bird |-> bird, conn |-> c, flaps |-> 0]
        IN /\ store' = IF name \in DOMAIN store THEN store
                       ELSE Put(store, name, [bird |-> bird, races |-> 0])
           /\ Register(c, id, s)
           /\ \/ st = Waiting /\ BeginCountdown
              \/ st = Counting /\ AdmitRacer(id, s)
              \/ st \in {Racing, Finished} /\ UNCHANGED race
  BY <1>1
<1> DEFINE s == [name |-> name, bird |-> bird, conn |-> c, flaps |-> 0]
<1>3. s.name = name /\ s.bird = bird
  OBVIOUS
<1> HIDE DEF s
<1>4. /\ store' = IF name \in DOMAIN store THEN store
                  ELSE Put(store, name, [bird |-> bird, races |-> 0])
      /\ players' = Put(players, id, s)
      /\ \/ st = Waiting /\ BeginCountdown
         \/ st = Counting /\ AdmitRacer(id, s)
         \/ st \in {Racing, Finished} /\ UNCHANGED raceInfo
  BY <1>2 DEF s, Register, race, world
<1>5. name \in DOMAIN store' /\ store'[name].bird = bird
  BY <1>4 DEF BirdsFor, Put
<1>6. /\ DOMAIN players' = DOMAIN players \cup {id} /\ players'[id] = s
      /\ \A i \in DOMAIN players \ {id} : players'[i] = players[i]
  BY <1>4 DEF Put
<1>7. PlayersFrom
  BY <1>3, <1>5, <1>6 DEF PlayersFrom
<1>8. RacersFrom
  <2>1. CASE st = Waiting /\ BeginCountdown
    BY <2>1, BeginCountdownRacers DEF IInv, RegistryInv
  <2>2. CASE st = Counting /\ AdmitRacer(id, s)
    BY <2>2, <1>6 DEF AdmitRacer, Put, RacersFrom
  <2>3. CASE UNCHANGED raceInfo
    BY <2>3 DEF RacersFrom
  <2>. QED BY <1>4, <2>1, <2>2, <2>3
<1>. QED BY <1>7, <1>8

LEMMA LeavePlayers ==
  ASSUME NEW c \in Conn, Leave(c)
  PROVE  PlayersFrom /\ RacersFrom
<1>1. PlayersFrom
  BY DEF Leave, Unregister, Drop, PlayersFrom
<1>2. RacersFrom
  <2>1. CASE LeaveCountdown(sess[c])
    BY <2>1, NoRaceRacers DEF LeaveCountdown, Drop, RacersFrom, race, world
  <2>2. CASE LeaveRacing(sess[c])
    BY <2>2, FinishRaceRacers DEF LeaveRacing, RacersFrom, race, world
  <2>3. CASE LeaveFinished
    BY <2>3, NoRaceRacers DEF LeaveFinished, RacersFrom, world
  <2>. QED BY <2>1, <2>2, <2>3 DEF Leave
<1>. QED BY <1>1, <1>2

LEMMA TickPlayers ==
  ASSUME IInv, IInv', Tick
  PROVE  PlayersFrom /\ RacersFrom
<1>1. UNCHANGED players
  BY TickFrames DEF registry
<1>2. PlayersFrom
  BY <1>1 DEF PlayersFrom
<1>3. UNCHANGED raceInfo => RacersFrom
  BY DEF RacersFrom
<1>4. CASE TickWaiting \/ TickCountdown
  BY <1>2, <1>3, <1>4 DEF TickWaiting, TickCountdown, vars, race, world
<1>5. CASE TickRacing
  <2>1. PICK dying \in SUBSET AliveIn(birds) :
          FinishRace(Stepped(dying), NextTick) \/ UNCHANGED raceInfo
    BY <1>5 DEF TickRacing
  <2>. QED BY <1>2, <1>3, <2>1, FinishRaceRacers
<1>6. CASE TickFinished
  <2>1. UNCHANGED raceInfo \/ BeginCountdown \/ NoRace
    BY <1>6 DEF TickFinished, race, world
  <2>2. Range(order') = DOMAIN players'
    BY DEF IInv, RegistryInv
  <2>. QED BY <1>2, <1>3, <2>1, <2>2, BeginCountdownRacers, NoRaceRacers
<1>. QED BY <1>4, <1>5, <1>6 DEF Tick

LEMMA FromNext ==
  ASSUME IInv, IInv', [Next]_vars
  PROVE  PlayersFrom /\ RacersFrom
<1>1. ASSUME OnlyFlapCounts, UNCHANGED raceInfo PROVE PlayersFrom /\ RacersFrom
  BY <1>1 DEF OnlyFlapCounts, PlayersFrom, RacersFrom
<1>2. ASSUME UNCHANGED <<players, raceInfo>> PROVE PlayersFrom /\ RacersFrom
  BY <1>2 DEF PlayersFrom, RacersFrom
<1>3. ASSUME NEW c \in Conn, Flap(c) PROVE PlayersFrom /\ RacersFrom
  BY <1>1, <1>3, FlapCounts DEF Flap, race, world
<1>4. CASE SecondBegins
  BY <1>1, <1>4, SecondBeginsCounts DEF SecondBegins, race, world
<1>5. ASSUME NEW c \in Conn, Reject(c) \/ LeaveUnjoined(c) PROVE PlayersFrom /\ RacersFrom
  BY <1>2, <1>5 DEF Reject, LeaveUnjoined, registry, race, world
<1>6. CASE PeriodElapses \/ SnapshotFallsDue \/ UNCHANGED vars
  BY <1>2, <1>6 DEF PeriodElapses, SnapshotFallsDue, vars, registry, race, world
<1>. QED BY <1>3, <1>4, <1>5, <1>6, JoinPlayers, LeavePlayers, TickPlayers DEF Next

LEMMA RememberedNext ==
  ASSUME IInv, IInv', BirdsRemembered, [Next]_vars
  PROVE  BirdsRemembered'
<1>1. BirdKept /\ PlayersFrom /\ RacersFrom
  BY KeepsBirds, FromNext
<1>2. ASSUME NEW id \in DOMAIN players'
      PROVE  /\ players'[id].name \in DOMAIN store'
             /\ store'[players'[id].name].bird = players'[id].bird
  BY <1>1 DEF BirdKept, PlayersFrom, BirdsRemembered
<1>3. ASSUME NEW id \in DOMAIN raceInfo'
      PROVE  /\ raceInfo'[id].name \in DOMAIN store'
             /\ store'[raceInfo'[id].name].bird = raceInfo'[id].bird
  BY <1>1, <1>2 DEF BirdKept, RacersFrom, BirdsRemembered, NewRaceInfo
<1>. QED BY <1>2, <1>3 DEF BirdsRemembered

\* A player, and a racer even after it left, flies the bird the state file
\* remembers for its name (handleJoin's lookup, finishRace's entries).
THEOREM BirdsStayRemembered == Spec => []BirdsRemembered
<1>1. Init => BirdsRemembered
  BY DEF Init, BirdsRemembered, Empty
<1>2. IInv /\ IInv' /\ BirdsRemembered /\ [Next]_vars => BirdsRemembered'
  BY RememberedNext
<1>. QED BY <1>1, <1>2, Invariance, PTL DEF Spec

\* No race record ever gives a name another bird: store.go's RecordRace writes
\* the bird of the race, which is the one remembered.
THEOREM BirdsNeverChange == Spec => BirdNeverChanges
<1>1. IInv /\ BirdsRemembered /\ [Next]_vars =>
        [\A n \in DOMAIN store : n \in DOMAIN store' /\ store'[n].bird = store[n].bird]_vars
  BY KeepsBirds DEF BirdKept
<1>. QED BY <1>1, Invariance, BirdsStayRemembered, PTL DEF Spec, BirdNeverChanges

\* Whatever ends a race (a tick, the cap, the last flier's leave), everyone who
\* flew in it is counted one race, and nothing else counts one.
THEOREM RacesCountedOnce == Spec => RacesRecordedOnce
<1>1. IInv /\ [Next]_vars => [CountedOnce]_vars
  BY CountsOnce
<1>2. [][CountedOnce]_vars => RacesRecordedOnce
  BY PTL DEF RacesRecordedOnce, CountedOnce
<1>. QED BY <1>1, <1>2, Invariance, PTL DEF Spec
(***************************************************************************)
(* Themes.                                                                 *)
(***************************************************************************)

LEMMA PickedFresh ==
  ASSUME IInv, PickTheme
  PROVE  theme' # lastTheme
<1>1. ThemeCount \in Nat /\ ThemeCount > 1
  BY ConstantsAssumption
<1>2. PICK t \in 0 .. ThemeCount - 1 :
        theme' = IF t = lastTheme THEN (t + 1) % ThemeCount ELSE t
  BY DEF PickTheme
<1>3. CASE t = lastTheme /\ t + 1 < ThemeCount
  <2>1. (t + 1) % ThemeCount = t + 1
    BY <1>1, <1>3
  <2>. QED BY <1>2, <1>3, <2>1
<1>4. CASE t = lastTheme /\ t + 1 = ThemeCount
  <2>1. (t + 1) % ThemeCount = 0
    BY <1>1, <1>4
  <2>. QED BY <1>1, <1>2, <1>4, <2>1
<1>. QED BY <1>1, <1>2, <1>3, <1>4

\* A step keeps the themes, chooses a fresh one or ends a race.
ThemeStep ==
  \/ /\ UNCHANGED <<theme, lastTheme>>
     /\ st' \in {Counting, Racing} => st \in {Counting, Racing}
  \/ PickTheme /\ UNCHANGED lastTheme
  \/ st' \in {Waiting, Finished}

LEMMA ThemesNext ==
  ASSUME [Next]_vars
  PROVE  ThemeStep
<1>1. UNCHANGED <<st, theme, lastTheme>> => ThemeStep
  BY DEF ThemeStep
<1>2. BeginCountdown => ThemeStep
  BY DEF BeginCountdown, ThemeStep
<1>3. NoRace => ThemeStep
  BY DEF NoRace, ThemeStep
<1>4. ASSUME NEW bs, NEW t, FinishRace(bs, t) PROVE ThemeStep
  BY <1>4 DEF FinishRace, NoRace, ThemeStep
<1>5. ASSUME NEW c \in Conn, NEW base \in Requests, Join(c, base) PROVE ThemeStep
  <2>1. BeginCountdown \/ UNCHANGED <<st, theme, lastTheme>>
    BY <1>5 DEF Join, AdmitRacer, race, themes
  <2>. QED BY <1>1, <1>2, <2>1
<1>6. ASSUME NEW c \in Conn, Leave(c) PROVE ThemeStep
  <2>1. CASE LeaveCountdown(sess[c])
    <3>1. NoRace \/ UNCHANGED <<st, theme, lastTheme>>
      BY <2>1 DEF LeaveCountdown, race, themes
    <3>. QED BY <1>1, <1>3, <3>1
  <2>2. CASE LeaveRacing(sess[c])
    <3>1. FinishRace(KillLeft(sess[c]), tick) \/ UNCHANGED <<st, theme, lastTheme>>
      BY <2>2 DEF LeaveRacing, race, themes
    <3>. QED BY <1>1, <1>4, <3>1
  <2>3. CASE LeaveFinished
    <3>1. NoRace \/ UNCHANGED <<st, theme, lastTheme>>
      BY <2>3 DEF LeaveFinished, themes
    <3>. QED BY <1>1, <1>3, <3>1
  <2>. QED BY <1>6, <2>1, <2>2, <2>3 DEF Leave
<1>7. CASE TickWaiting \/ TickCountdown
  BY <1>7 DEF TickWaiting, TickCountdown, ThemeStep, vars, race, themes
<1>8. CASE TickRacing
  <2>1. PICK dying \in SUBSET AliveIn(birds) :
          FinishRace(Stepped(dying), NextTick) \/ UNCHANGED <<st, theme, lastTheme>>
    BY <1>8 DEF TickRacing, themes
  <2>. QED BY <1>1, <1>4, <2>1
<1>9. CASE TickFinished
  <2>1. BeginCountdown \/ NoRace \/ UNCHANGED <<st, theme, lastTheme>>
    BY <1>9 DEF TickFinished, race, themes
  <2>. QED BY <1>1, <1>2, <1>3, <2>1
<1>10. ASSUME NEW c \in Conn, Reject(c) \/ Flap(c) \/ LeaveUnjoined(c) PROVE ThemeStep
  BY <1>1, <1>10 DEF Reject, Flap, LeaveUnjoined, race, themes
<1>11. CASE PeriodElapses \/ SnapshotFallsDue \/ SecondBegins \/ UNCHANGED vars
  BY <1>1, <1>11 DEF PeriodElapses, SnapshotFallsDue, SecondBegins, vars, race, themes
<1>. QED BY <1>5, <1>6, <1>7, <1>8, <1>9, <1>10, <1>11 DEF Next, Tick

\* However many countdowns are abandoned, the next race has another theme than
\* the last one that finished (pickTheme, finishRace).
THEOREM ThemesStayFresh == Spec => []ThemeFresh
<1>1. Init => ThemeFresh
  BY DEF Init, ThemeFresh
<1>2. IInv /\ ThemeFresh /\ [Next]_vars => ThemeFresh'
  BY ThemesNext, PickedFresh DEF ThemeFresh, ThemeStep
<1>. QED BY <1>1, <1>2, Invariance, PTL DEF Spec

(***************************************************************************)
(* Frames.                                                                 *)
(***************************************************************************)

\* A step that shows nothing leaves what there is to show alone, or nobody is
\* there to see it.
Unseen ==
  \/ DOMAIN players' = {}
  \/ /\ Snapshot' = Snapshot
     /\ DOMAIN players' \subseteq DOMAIN players
     /\ \A id \in DOMAIN players' : seen'[id] = seen[id]

Quiet ==
  /\ DOMAIN players' \subseteq DOMAIN players
  /\ UNCHANGED <<st, raceNo, results>>
  /\ DOMAIN birds' = DOMAIN birds /\ LeftIn(birds') = LeftIn(birds)

LEMMA QuietUnseen ==
  ASSUME IInv, Quiet, Silence \/ UNCHANGED seen
  PROVE  Unseen
<1>1. Snapshot' = Snapshot
  BY DEF Quiet, Snapshot
<1>2. DOMAIN players' \subseteq DOMAIN players /\ DOMAIN seen = DOMAIN players
  BY DEF Quiet, IInv, TypeOK, OutputType
<1>3. \A id \in DOMAIN players' : seen'[id] = seen[id]
  BY <1>2 DEF Silence, Shown
<1>. QED BY <1>1, <1>2, <1>3 DEF Unseen

LEMMA LeaveShows ==
  ASSUME IInv, NEW c \in Conn, Leave(c)
  PROVE  Broadcast \/ Unseen
<1>1. DOMAIN players' \subseteq DOMAIN players
  BY DEF Leave, Unregister, Drop
<1>2. UNCHANGED race /\ Silence => Unseen
  BY <1>1, QuietUnseen DEF Quiet, race, themes, world
<1>3. CASE LeaveFinished
  <2>1. CASE DOMAIN players' = {}
    BY <2>1 DEF Unseen
  <2>2. CASE DOMAIN players' # {}
    BY <1>1, <1>3, <2>2, QuietUnseen DEF LeaveFinished, Quiet, themes, world
  <2>. QED BY <2>1, <2>2
<1>4. CASE LeaveCountdown(sess[c])
  BY <1>2, <1>4 DEF LeaveCountdown
<1>5. CASE LeaveRacing(sess[c])
  BY <1>2, <1>5 DEF LeaveRacing, FinishRace
<1>. QED BY <1>3, <1>4, <1>5 DEF Leave

\* The deaths of a tick mark nobody as left.
LEMMA SteppedShowsSame ==
  ASSUME IInv, NEW dying
  PROVE  DOMAIN Stepped(dying) = DOMAIN birds /\ LeftIn(Stepped(dying)) = LeftIn(birds)
<1>1. \A id \in DOMAIN birds :
        birds[id] \in [name : Name, dead : BOOLEAN, left : BOOLEAN]
  BY DEF IInv, TypeOK, RaceType
<1>2. \A id \in DOMAIN birds : Stepped(dying)[id].left = birds[id].left
  BY <1>1 DEF Stepped
<1>. QED BY <1>2 DEF Stepped, LeftIn

LEMMA TickShows ==
  ASSUME IInv, Tick
  PROVE  Broadcast \/ Unseen
<1>1. UNCHANGED players
  BY TickFrames DEF registry
<1>2. UNCHANGED <<st, raceNo, birds, results>> /\ (Silence \/ UNCHANGED seen) => Unseen
  BY <1>1, QuietUnseen DEF Quiet
<1>3. CASE TickWaiting
  BY <1>2, <1>3 DEF TickWaiting, vars, race, themes, world, frames
<1>4. CASE TickCountdown
  BY <1>2, <1>4 DEF TickCountdown, MaybeSnapshot, themes, world
<1>5. CASE TickRacing
  <2>1. PICK dying \in SUBSET AliveIn(birds) :
          \/ FinishRace(Stepped(dying), NextTick)
          \/ /\ birds' = Stepped(dying) /\ UNCHANGED <<st, themes, results>>
             /\ MaybeSnapshot
    BY <1>5 DEF TickRacing
  <2>2. CASE Broadcast
    BY <2>2
  <2>3. CASE birds' = Stepped(dying) /\ UNCHANGED <<st, themes, results>> /\ Silence
    BY <1>1, <2>3, SteppedShowsSame, QuietUnseen DEF Quiet, themes
  <2>. QED BY <2>1, <2>2, <2>3 DEF FinishRace, MaybeSnapshot
<1>6. CASE TickFinished
  <2>1. CASE timer > 0
    BY <1>2, <1>6, <2>1 DEF TickFinished, MaybeSnapshot, race, themes, world
  <2>2. CASE ~(timer > 0)
    BY <1>1, <1>6, <2>2 DEF TickFinished, Unseen
  <2>. QED BY <2>1, <2>2
<1>. QED BY <1>3, <1>4, <1>5, <1>6 DEF Tick

LEMMA NextShows ==
  ASSUME IInv, [Next]_vars
  PROVE  Broadcast \/ Unseen
<1>1. UNCHANGED <<race, seen>> /\ DOMAIN players' = DOMAIN players => Unseen
  BY QuietUnseen DEF Quiet, race, themes, world
<1>2. ASSUME NEW c \in Conn, NEW base \in Requests, Join(c, base) PROVE Broadcast
  BY <1>2, JoinRegisters
<1>3. ASSUME NEW c \in Conn, Reject(c) \/ LeaveUnjoined(c) PROVE Unseen
  BY <1>1, <1>3 DEF Reject, LeaveUnjoined, registry, frames
<1>4. ASSUME NEW c \in Conn, Flap(c) PROVE Unseen
  BY <1>1, <1>4, FlapCounts DEF Flap, OnlyFlapCounts, frames
<1>5. CASE SecondBegins
  BY <1>1, <1>5, SecondBeginsCounts DEF SecondBegins, OnlyFlapCounts, frames
<1>6. CASE PeriodElapses
  BY <1>6, QuietUnseen DEF PeriodElapses, Quiet, registry, themes, world, frames
<1>7. CASE SnapshotFallsDue \/ UNCHANGED vars
  BY <1>1, <1>7 DEF SnapshotFallsDue, vars, registry, frames
<1>. QED BY <1>2, <1>3, <1>4, <1>5, <1>6, <1>7, LeaveShows, TickShows DEF Next

LEMMA CurrentNext ==
  ASSUME IInv, IInv', FramesCurrent, [Next]_vars
  PROVE  FramesCurrent'
<1>1. CASE DOMAIN players' = {}
  BY <1>1 DEF FramesCurrent
<1>2. CASE DOMAIN players' # {}
  <2>1. st' # Waiting /\ Recipients' = DOMAIN players'
    BY <1>2 DEF IInv, RaceInv, RegistryInv, Recipients
  <2>2. CASE Broadcast
    BY <1>2, <2>1, <2>2 DEF Broadcast, FramesCurrent
  <2>3. CASE Unseen
    BY <1>2, <2>3 DEF Unseen, FramesCurrent
  <2>. QED BY <2>2, <2>3, NextShows
<1>. QED BY <1>1, <1>2

\* Whatever a frame shows besides the flight itself is current in the newest
\* frame of every player: no handler changes it without a broadcast.
THEOREM FramesStayCurrent == Spec => []FramesCurrent
<1>1. Init => FramesCurrent
  BY DEF Init, FramesCurrent, Empty
<1>2. IInv /\ IInv' /\ FramesCurrent /\ [Next]_vars => FramesCurrent'
  BY CurrentNext
<1>. QED BY <1>1, <1>2, Invariance, PTL DEF Spec

-----------------------------------------------------------------------------
(***************************************************************************)
(* The hub implements the race cycle and the life of a connection. Both    *)
(* sides of a step satisfy the hub's inductive invariant, which already    *)
(* says most of what the abstract step asks for: who is a member, who is   *)
(* in the field of a countdown, and that no abstract race is without a     *)
(* player.                                                                 *)
(***************************************************************************)

\* The connections that stand for a set of ids.
Of(ids) == {c \in Conn : sess[c] \in ids}

(***************************************************************************)
(* The abstract state.                                                     *)
(***************************************************************************)

PhaseMap ==
  /\ st = Waiting  <=> Phase = "waiting"
  /\ st = Counting <=> Phase = "countdown"
  /\ st = Racing   <=> Phase = "racing"
  /\ st = Finished <=> Phase = "finished"

\* The members are the registered players' connections, the field is the birds'.
MemberMap ==
  /\ Members = Of(DOMAIN players)
  /\ Field = Of(DOMAIN birds)
  /\ Members = {} <=> DOMAIN players = {}
  /\ \A id \in DOMAIN birds : \E c \in Conn : sess[c] = id
  /\ \A c, d \in Conn : sess[c] = sess[d] /\ sess[c] \in DOMAIN birds => c = d
  /\ \A c \in Conn : sess[c] = 0 => c \notin Members \cup Field

\* What the phase says of members, field and fliers.
FieldMap ==
  /\ st = Waiting <=> Members = {}
  /\ st = Waiting => Field = {} /\ Flying = {}
  /\ st = Counting => Field = Members /\ Flying = Members
  /\ st = Racing => Flying = Of(AliveIn(birds)) /\ Flying # {} /\ Flying \subseteq Members
  /\ st = Finished => Flying = {}

Mapped == PhaseMap /\ MemberMap /\ FieldMap

LEMMA PhaseIs ==
  ASSUME IInv
  PROVE  PhaseMap
<1>1. st \in {0, 1, 2, 3}
  BY DEF IInv, TypeOK, RaceType
<1>2. CASE st = 0
  BY <1>2 DEF Phase, PhaseMap
<1>3. CASE st = 1
  BY <1>3 DEF Phase, PhaseMap
<1>4. CASE st = 2
  BY <1>4 DEF Phase, PhaseMap
<1>5. CASE st = 3
  BY <1>5 DEF Phase, PhaseMap
<1>. QED BY <1>1, <1>2, <1>3, <1>4, <1>5

LEMMA Abstract ==
  ASSUME IInv
  PROVE  MemberMap
<1>1. DOMAIN players \subseteq 1 .. nextID /\ DOMAIN birds \subseteq 1 .. nextID
  BY DEF IInv, TypeOK, RegistryType, RaceType
<1>2. \A c \in Conn : pump[c] = "playing" <=> sess[c] \in DOMAIN players
  <2>1. ASSUME NEW c \in Conn, sess[c] \in DOMAIN players PROVE pump[c] = "playing"
    <3>1. /\ players[sess[c]].conn \in Conn
          /\ pump[players[sess[c]].conn] = "playing"
          /\ sess[players[sess[c]].conn] = sess[c]
      BY <2>1 DEF IInv, TypeOK, RegistryType, SessionInv
    <3>2. sess[c] # 0
      BY <1>1, <2>1
    <3>. QED BY <3>1, <3>2 DEF IInv, SessionInv
  <2>. QED BY <2>1 DEF IInv, SessionInv
<1>3. Members = Of(DOMAIN players)
  BY <1>2 DEF Members, Of
<1>4. Members = {} <=> DOMAIN players = {}
  <2>1. ASSUME NEW id \in DOMAIN players PROVE players[id].conn \in Members
    BY <2>1 DEF IInv, TypeOK, RegistryType, SessionInv, Members
  <2>. QED BY <2>1, <1>3 DEF Of
<1>5. \A c, d \in Conn : sess[c] = sess[d] /\ sess[c] \in DOMAIN birds => c = d
  BY <1>1 DEF IInv, SessionInv
<1>6. \A c \in Conn : sess[c] = 0 => c \notin Members \cup Field
  BY <1>1, <1>3 DEF Of, Field
<1>. QED BY <1>3, <1>4, <1>5, <1>6 DEF MemberMap, Of, Field, IInv, RaceInv

LEMMA AbstractByPhase ==
  ASSUME IInv
  PROVE  FieldMap
<1>0. MemberMap
  BY Abstract
<1>1. CASE st = Waiting
  BY <1>1, <1>0 DEF FieldMap, MemberMap, IInv, RaceInv, Flying, Of
<1>2. CASE st = Counting
  <2>1. DOMAIN birds = DOMAIN players /\ AliveIn(birds) = DOMAIN birds
    BY <1>2 DEF IInv, RaceInv, AliveIn
  <2>2. Flying = Of(AliveIn(birds))
    BY <1>2 DEF Flying, Of
  <2>. QED BY <1>2, <2>1, <2>2, <1>0 DEF FieldMap, MemberMap, IInv, RaceInv
<1>3. CASE st = Racing
  <2>1. AliveIn(birds) # {} /\ AliveIn(birds) \subseteq DOMAIN players
        /\ AliveIn(birds) \subseteq DOMAIN birds
    BY <1>3 DEF IInv, RaceInv, AliveIn
  <2>2. Flying = Of(AliveIn(birds))
    BY <1>3 DEF Flying, Of
  <2>3. Flying # {}
    BY <2>1, <2>2, <1>0 DEF MemberMap, Of
  <2>4. Flying \subseteq Members
    BY <2>1, <2>2, <1>0 DEF MemberMap, Of
  <2>. QED BY <1>3, <2>2, <2>3, <2>4, <1>0 DEF FieldMap, MemberMap, IInv, RaceInv
<1>4. CASE st = Finished
  BY <1>4, <1>0 DEF FieldMap, MemberMap, IInv, RaceInv, Flying
<1>. QED BY <1>1, <1>2, <1>3, <1>4 DEF IInv, TypeOK, RaceType

LEMMA MappedNow == IInv => Mapped
BY PhaseIs, Abstract, AbstractByPhase DEF Mapped

LEMMA MappedNext == IInv' => Mapped'
BY MappedNow, PTL

\* Steps that change none of the mapped variables stutter.
LEMMA Stutter ==
  ASSUME UNCHANGED <<sess, st, birds>>, Members' = Members
  PROVE  UNCHANGED RC!vars
BY DEF RC!vars, Phase, Field, Flying, AliveIn

-----------------------------------------------------------------------------

LEMMA JoinArrives ==
  ASSUME IInv, Mapped, Mapped', NEW c \in Conn, NEW base \in Requests, Join(c, base)
  PROVE  RC!Arrive(c)
<1>1. PICK s \in [name : Name, bird : Bird, conn : {c}, flaps : {0}] :
        /\ Register(c, nextID + 1, s)
        /\ \/ st = Waiting /\ BeginCountdown
           \/ st = Counting /\ AdmitRacer(nextID + 1, s)
           \/ st \in {Racing, Finished} /\ UNCHANGED race
  BY JoinRegisters
<1>2. pump[c] = "connected" /\ sess[c] = 0
  BY JoinRegisters
<1>3. pump \in [Conn -> {"connected", "playing", "refused", "gone"}] /\ sess \in [Conn -> 0 .. nextID]
  BY DEF IInv, TypeOK, ConnType
<1>4. pump' = [pump EXCEPT ![c] = "playing"] /\ sess' = [sess EXCEPT ![c] = nextID + 1]
  BY <1>1 DEF Register
<1>5. c \notin Members \cup Field
  BY <1>2 DEF Mapped, MemberMap
<1>6. Members' = Members \cup {c}
  BY <1>3, <1>4 DEF Members
<1>7. CASE st = Waiting /\ BeginCountdown
  <2>1. st' = Counting
    BY <1>7 DEF BeginCountdown
  <2>2. Phase = "waiting" /\ Phase' = "countdown"
    BY <1>7, <2>1 DEF Mapped, PhaseMap
  <2>3. Field' = Members' /\ Flying' = Members'
    BY <2>1 DEF Mapped, FieldMap
  <2>. QED BY <1>5, <1>6, <2>2, <2>3 DEF RC!Arrive, RC!OpenLobby
<1>8. CASE st = Counting /\ AdmitRacer(nextID + 1, s)
  <2>1. st' = Counting
    BY <1>8 DEF AdmitRacer
  <2>2. Phase = "countdown" /\ Phase' = "countdown"
    BY <1>8, <2>1 DEF Mapped, PhaseMap
  <2>3. Field' = Field \cup {c} /\ Flying' = Flying \cup {c}
    BY <1>6, <1>8, <2>1 DEF Mapped, FieldMap
  <2>. QED BY <1>5, <1>6, <2>2, <2>3 DEF RC!Arrive
<1>9. CASE st \in {Racing, Finished} /\ UNCHANGED race
  <2>1. UNCHANGED <<st, birds>>
    BY <1>9 DEF race, world
  <2>2. Phase \in {"racing", "finished"} /\ Phase' = Phase
    BY <1>9, <2>1 DEF Mapped, PhaseMap, Phase
  <2>3. 0 \notin DOMAIN birds /\ nextID + 1 \notin DOMAIN birds
    BY DEF IInv, TypeOK, RegistryType, RaceType
  <2>4. \A d \in Conn : sess'[d] \in DOMAIN birds <=> sess[d] \in DOMAIN birds
    BY <1>2, <1>3, <1>4, <2>3
  <2>5. Field' = Field
    BY <2>1, <2>4 DEF Field
  <2>6. AliveIn(birds) \subseteq DOMAIN birds
    BY DEF AliveIn
  <2>7. \A d \in Conn : sess'[d] \in AliveIn(birds) <=> sess[d] \in AliveIn(birds)
    BY <1>2, <1>3, <1>4, <2>3, <2>6
  <2>8. AliveIn(birds)' = AliveIn(birds)
    BY <2>1 DEF AliveIn
  <2>9. Flying' = Flying
    BY <2>1, <2>7, <2>8 DEF Flying
  <2>. QED BY <1>5, <1>6, <2>2, <2>5, <2>9 DEF RC!Arrive
<1>. QED BY <1>1, <1>7, <1>8, <1>9

LEMMA FinishCloses ==
  ASSUME IInv, Mapped, Mapped', NEW bs, NEW t, FinishRace(bs, t), DOMAIN bs = DOMAIN birds, UNCHANGED sess
  PROVE  RC!CloseRace
<1>1. CASE DOMAIN players' = {}
  <2>1. st' = Waiting
    BY <1>1 DEF FinishRace, NoRace
  <2>. QED BY <2>1 DEF Mapped, PhaseMap, FieldMap, RC!CloseRace
<1>2. CASE DOMAIN players' # {}
  <2>1. st' = Finished /\ birds' = bs
    BY <1>2 DEF FinishRace
  <2>2. Field' = Field
    BY <2>1 DEF Field
  <2>3. Members' # {}
    BY <1>2 DEF Mapped, MemberMap
  <2>. QED BY <2>1, <2>2, <2>3 DEF Mapped, PhaseMap, FieldMap, RC!CloseRace
<1>. QED BY <1>1, <1>2

LEMMA LeaveDeparts ==
  ASSUME IInv, Mapped, Mapped', NEW c \in Conn, Leave(c)
  PROVE  RC!Depart(c)
<1>1. /\ pump[c] = "playing" /\ sess[c] \in DOMAIN players
      /\ pump' = [pump EXCEPT ![c] = "gone"] /\ UNCHANGED sess
  BY LeaveUnregisters
<1>2. c \in Members
  BY <1>1 DEF Members
<1>3. Members' = Members \ {c}
  BY <1>1 DEF Members, IInv, TypeOK, ConnType
<1>4. CASE LeaveCountdown(sess[c])
  <2>1. st = Counting /\ st' \in {Waiting, Counting}
    BY <1>4 DEF LeaveCountdown, NoRace, race
  <2>2. Field' = Members' /\ Flying' = Members'
    BY <2>1 DEF Mapped, FieldMap
  <2>3. Field' = Field \ {c} /\ Flying' = Flying \ {c}
    BY <1>3, <2>1, <2>2 DEF Mapped, FieldMap
  <2>4. Phase = "countdown" /\ Phase' = IF Field' = {} THEN "waiting" ELSE "countdown"
    BY <2>1, <2>2 DEF Mapped, PhaseMap, FieldMap
  <2>. QED BY <1>2, <1>3, <2>3, <2>4 DEF RC!Depart
<1>5. CASE LeaveRacing(sess[c])
  <2>1. st = Racing /\ Phase = "racing"
    BY <1>5 DEF Mapped, PhaseMap, LeaveRacing
  <2>2. Flying = Of(AliveIn(birds)) /\ Flying # {}
    BY <2>1 DEF Mapped, FieldMap
  <2>3. CASE ~IsRacer(sess[c])
    <3>1. UNCHANGED <<st, birds>>
      BY <1>5, <2>3 DEF LeaveRacing, race, world
    <3>2. Field' = Field /\ Flying' = Flying /\ Phase' = Phase
      BY <1>1, <3>1 DEF Field, Flying, Phase, AliveIn
    <3>3. c \notin Flying
      BY <2>2, <2>3 DEF Of, IsRacer, AliveIn
    <3>. QED BY <1>2, <1>3, <2>1, <2>2, <3>2, <3>3 DEF RC!Depart
  <2>4. CASE IsRacer(sess[c])
    <3> DEFINE bs == KillLeft(sess[c])
    <3>1. DOMAIN bs = DOMAIN birds /\ AliveIn(bs) = AliveIn(birds) \ {sess[c]}
      BY <2>4, KillLeftFinal DEF FinalBirds
    <3> HIDE DEF bs
    <3>2. AliveIn(birds) \subseteq DOMAIN birds
      BY DEF AliveIn
    <3>3. Of(AliveIn(bs)) = Flying \ {c}
      BY <2>2, <3>1, <3>2 DEF Mapped, MemberMap, Of
    <3>4. AliveIn(bs) = {} <=> Flying \subseteq {c}
      <4>1. AliveIn(bs) = {} => Of(AliveIn(bs)) = {}
        BY DEF Of
      <4>2. Of(AliveIn(bs)) = {} => AliveIn(bs) = {}
        BY <3>1, <3>2 DEF Mapped, MemberMap, Of
      <4>. QED BY <3>3, <4>1, <4>2
    <3>5. CASE AliveIn(bs) = {}
      <4>1. FinishRace(bs, tick)
        BY <1>5, <2>4, <3>5 DEF LeaveRacing, bs
      <4>2. RC!CloseRace
        BY <1>1, <3>1, <4>1, FinishCloses
      <4>. QED BY <1>2, <1>3, <2>1, <3>4, <3>5, <4>2 DEF RC!Depart
    <3>6. CASE AliveIn(bs) # {}
      <4>1. birds' = bs /\ UNCHANGED st
        BY <1>5, <2>4, <3>6 DEF LeaveRacing, bs
      <4>2. Field' = Field /\ Phase' = Phase
        BY <1>1, <3>1, <4>1 DEF Field, Phase
      <4>3. Flying' = Of(AliveIn(bs))
        BY <1>1, <2>1, <4>1 DEF Flying, Of, AliveIn
      <4>. QED BY <1>2, <1>3, <2>1, <3>3, <3>4, <3>6, <4>2, <4>3 DEF RC!Depart
    <3>. QED BY <3>5, <3>6
  <2>. QED BY <2>3, <2>4
<1>6. CASE LeaveFinished
  <2>1. st = Finished /\ st' \in {Waiting, Finished}
    BY <1>6 DEF LeaveFinished, NoRace
  <2>2. Flying = {} /\ Flying' = {}
    BY <2>1 DEF Mapped, FieldMap
  <2>3. CASE Members' = {}
    BY <1>2, <1>3, <2>1, <2>2, <2>3 DEF Mapped, PhaseMap, FieldMap, RC!Depart
  <2>4. CASE Members' # {}
    <3>1. UNCHANGED <<st, birds>>
      BY <1>6, <2>4 DEF Mapped, MemberMap, LeaveFinished, world
    <3>2. Field' = Field /\ Phase' = Phase
      BY <1>1, <3>1 DEF Field, Phase
    <3>. QED BY <1>2, <1>3, <2>1, <2>2, <2>4, <3>2 DEF Mapped, PhaseMap, RC!Depart
  <2>. QED BY <2>3, <2>4
<1>. QED BY <1>4, <1>5, <1>6 DEF Leave

LEMMA TickBeats ==
  ASSUME IInv, Mapped, Mapped', Tick
  PROVE  RC!Next \/ UNCHANGED RC!vars
<1>1. UNCHANGED <<pump, sess, players>>
  BY TickFrames DEF registry
<1>2. Members' = Members
  BY <1>1 DEF Members
<1>3. CASE TickWaiting
  <2>1. UNCHANGED <<sess, st, birds>>
    BY <1>3 DEF TickWaiting, vars, conns, race, world
  <2>. QED BY <1>2, <2>1, Stutter
<1>4. CASE TickCountdown
  <2>1. st = Counting /\ UNCHANGED birds /\ (st' = Racing \/ UNCHANGED st)
    BY <1>4 DEF TickCountdown, world
  <2>2. CASE UNCHANGED st
    BY <1>1, <1>2, <2>1, <2>2, Stutter
  <2>3. CASE st' = Racing
    <3>1. Field' = Field /\ Flying' = Flying
      BY <1>1, <2>1, <2>3 DEF Field, Flying, AliveIn
    <3>. QED BY <1>2, <2>1, <2>3, <3>1 DEF Mapped, PhaseMap, RC!Next, RC!Go
  <2>. QED BY <2>1, <2>2, <2>3
<1>5. CASE TickRacing
  <2>1. PICK dying \in SUBSET AliveIn(birds) :
          IF AliveIn(Stepped(dying)) = {} \/ NextTick >= MaxRaceTicks
          THEN FinishRace(Stepped(dying), NextTick)
          ELSE birds' = Stepped(dying) /\ UNCHANGED st
    BY <1>5 DEF TickRacing
  <2> DEFINE bs == Stepped(dying)
  <2>2. st = Racing /\ Phase = "racing"
    BY <1>5 DEF Mapped, PhaseMap, TickRacing
  <2>3. DOMAIN bs = DOMAIN birds /\ AliveIn(bs) \subseteq AliveIn(birds)
    BY <1>1, SteppedFinal DEF FinalBirds
  <2> HIDE DEF bs
  <2>4. CASE FinishRace(bs, NextTick)
    <3>1. RC!CloseRace
      BY <1>1, <2>3, <2>4, FinishCloses
    <3>. QED BY <1>2, <2>2, <3>1 DEF RC!Next, RC!Beat
  <2>5. CASE birds' = bs /\ UNCHANGED st
    <3>1. Field' = Field /\ Phase' = Phase
      BY <1>1, <2>3, <2>5 DEF Field, Phase
    <3>2. Flying' \subseteq Flying
      BY <1>1, <2>2, <2>3, <2>5 DEF Flying, AliveIn
    <3>3. Flying' # {}
      BY <2>2, <2>5 DEF Mapped, FieldMap
    <3> DEFINE dead == Flying \ Flying'
    <3>4. dead \in SUBSET Flying /\ dead # Flying /\ Flying' = Flying \ dead
      BY <3>2, <3>3
    <3>. QED BY <1>2, <2>2, <3>1, <3>4 DEF RC!Next, RC!Beat
  <2>. QED BY <2>1, <2>4, <2>5 DEF bs
<1>6. CASE TickFinished
  <2>1. st = Finished /\ Phase = "finished" /\ DOMAIN players # {}
    BY <1>6 DEF Mapped, PhaseMap, TickFinished, IInv, RaceInv
  <2>2. CASE UNCHANGED race
    BY <1>1, <1>2, <2>2, Stutter DEF race, world
  <2>3. CASE BeginCountdown
    <3>1. st' = Counting
      BY <2>3 DEF BeginCountdown
    <3>. QED BY <1>2, <2>1, <3>1
             DEF Mapped, PhaseMap, FieldMap, RC!Next, RC!NextRace, RC!OpenLobby
  <2>. QED BY <1>6, <2>1, <2>2, <2>3 DEF TickFinished
<1>. QED BY <1>3, <1>4, <1>5, <1>6 DEF Tick

LEMMA OthersStutter ==
  ASSUME IInv, Mapped, Mapped',
         \/ \E c \in Conn : Reject(c) \/ Flap(c) \/ LeaveUnjoined(c)
         \/ PeriodElapses \/ SnapshotFallsDue \/ SecondBegins
         \/ UNCHANGED vars
  PROVE  UNCHANGED RC!vars
<1>0. pump \in [Conn -> {"connected", "playing", "refused", "gone"}]
  BY DEF IInv, TypeOK, ConnType
<1>1. ASSUME NEW c \in Conn, Reject(c) PROVE UNCHANGED <<sess, st, birds>> /\ Members' = Members
  BY <1>0, <1>1 DEF Reject, race, world, Members
<1>2. ASSUME NEW c \in Conn, Flap(c) PROVE UNCHANGED <<sess, st, birds>> /\ Members' = Members
  BY <1>2 DEF Flap, conns, race, world, Members
<1>3. ASSUME NEW c \in Conn, LeaveUnjoined(c)
      PROVE  UNCHANGED <<sess, st, birds>> /\ Members' = Members
  BY <1>0, <1>3 DEF LeaveUnjoined, race, world, Members
<1>4. ASSUME PeriodElapses \/ SnapshotFallsDue \/ SecondBegins \/ UNCHANGED vars
      PROVE  UNCHANGED <<sess, st, birds>> /\ Members' = Members
  BY <1>4 DEF PeriodElapses, SnapshotFallsDue, SecondBegins, vars, conns, race, world, Members
<1>. QED BY <1>1, <1>2, <1>3, <1>4, Stutter

-----------------------------------------------------------------------------

\* Every handler, tick and movement of the clock is a step of the promised
\* lifecycle or invisible to it (hub.go:45-48), for any number of connections.
THEOREM HubImplementsRaceCycle == Spec => ImplementsRaceCycle
<1>1. Init => RC!Init
  BY DEF Init, RC!Init, Phase, Members, Field, Flying, Empty
<1>2. IInv /\ IInv' /\ [Next]_vars => [RC!Next]_(RC!vars)
  <2> SUFFICES ASSUME IInv, Mapped, Mapped', [Next]_vars
              PROVE  RC!Next \/ UNCHANGED RC!vars
    BY MappedNow, MappedNext
  <2>1. ASSUME NEW c \in Conn, NEW base \in Requests, Join(c, base) PROVE RC!Next
    BY <2>1, JoinArrives DEF RC!Next
  <2>2. ASSUME NEW c \in Conn, Leave(c) PROVE RC!Next
    BY <2>2, LeaveDeparts DEF RC!Next
  <2>3. CASE Tick
    BY <2>3, TickBeats
  <2>4. CASE \/ \E c \in Conn : Reject(c) \/ Flap(c) \/ LeaveUnjoined(c)
             \/ PeriodElapses \/ SnapshotFallsDue \/ SecondBegins
             \/ UNCHANGED vars
    BY <2>4, OthersStutter
  <2>. QED BY <2>1, <2>2, <2>3, <2>4 DEF Next
<1>. QED BY <1>1, <1>2, Invariance, PTL DEF Spec, ImplementsRaceCycle, RC!Spec

(***************************************************************************)
(* Connections. Its limit counts the connections that play, the hub's the  *)
(* registered ids; the hub's invariant pairs them off.                     *)
(***************************************************************************)

LEMMA PlayingCounted ==
  ASSUME IInv
  PROVE  Cardinality(Members) = Cardinality(DOMAIN players)
<1>1. IsFiniteSet(DOMAIN players)
  <2>1. nextID \in Nat /\ DOMAIN players \in SUBSET (1 .. nextID)
    BY DEF IInv, TypeOK, RegistryType
  <2>2. IsFiniteSet(1 .. nextID)
    BY <2>1, FS_Interval
  <2>. QED BY <2>1, <2>2, FS_Subset
<1> DEFINE f == [id \in DOMAIN players |-> players[id].conn]
<1>2. \A id \in DOMAIN players : f[id] \in Members /\ sess[f[id]] = id
  BY DEF IInv, TypeOK, RegistryType, SessionInv, Members
<1>3. \A c \in Members : sess[c] \in DOMAIN players /\ f[sess[c]] = c
  BY DEF IInv, SessionInv, Members
<1>4. f \in [DOMAIN players -> Members]
  BY <1>2
<1> HIDE DEF f
<1>5. f \in Bijection(DOMAIN players, Members)
  BY <1>2, <1>3, <1>4 DEF Bijection, Injection, Surjection, IsInjective
<1>6. ExistsBijection(DOMAIN players, Members)
  BY <1>5 DEF ExistsBijection
<1>. QED BY <1>1, <1>6, FS_Bijection

LEMMA PlayingIsMembers == C!Playing = Members
  BY DEF C!Playing, Life, Members

\* Who is seated, refused, gone and left (handleJoin, handleLeave, readPump): the
\* hub never seats more players than its limit and never the same connection twice.
THEOREM HubImplementsConnections == Spec => ImplementsConnections
<1>1. Init => C!Init
  BY DEF Init, C!Init, Life
<1>2. IInv /\ [Next]_vars => [C!Next]_Life
  <2> SUFFICES ASSUME IInv, [Next]_vars PROVE C!Next \/ UNCHANGED Life
    OBVIOUS
  <2>0. pump \in [Conn -> {"connected", "playing", "refused", "gone"}]
    BY DEF IInv, TypeOK, ConnType
  <2>1. ASSUME NEW c \in Conn, NEW base \in Requests, Join(c, base) PROVE C!Next
    <3>1. pump[c] = "connected" /\ pump' = [pump EXCEPT ![c] = "playing"]
      BY <2>1 DEF Join, Register
    <3>2. Cardinality(C!Playing) < MaxPlayers
      BY <2>1, PlayingCounted, PlayingIsMembers DEF Join, HasRoom
    <3>3. Life[c] = "connected" /\ Life' = [Life EXCEPT ![c] = "playing"]
      BY <2>0, <3>1 DEF Life
    <3>4. C!Accept(c)
      BY <3>2, <3>3 DEF C!Accept, C!Cardinality, Cardinality
    <3>. QED BY <3>4 DEF C!Next
  <2>2. ASSUME NEW c \in Conn, Reject(c) PROVE C!Next
    <3>1. pump[c] = "connected" /\ pump' = [pump EXCEPT ![c] = "refused"]
      BY <2>2 DEF Reject
    <3>2. Life[c] # "over" /\ Life' = [Life EXCEPT ![c] = "over"]
      BY <2>0, <3>1 DEF Life
    <3>. QED BY <3>2 DEF C!Next, C!End
  <2>3. ASSUME NEW c \in Conn, LeaveUnjoined(c) PROVE C!Next \/ UNCHANGED Life
    <3>1. pump[c] \in {"connected", "refused"} /\ pump' = [pump EXCEPT ![c] = "gone"]
      BY <2>3 DEF LeaveUnjoined
    <3>2. CASE pump[c] = "connected"
      <4>1. Life[c] # "over" /\ Life' = [Life EXCEPT ![c] = "over"]
        BY <2>0, <3>1, <3>2 DEF Life
      <4>. QED BY <4>1 DEF C!Next, C!End
    <3>3. CASE pump[c] = "refused"
      BY <2>0, <3>1, <3>3 DEF Life
    <3>. QED BY <3>1, <3>2, <3>3
  <2>4. ASSUME NEW c \in Conn, Leave(c) PROVE C!Next
    <3>1. pump[c] = "playing" /\ pump' = [pump EXCEPT ![c] = "gone"]
      BY <2>4 DEF Leave
    <3>2. Life[c] # "over" /\ Life' = [Life EXCEPT ![c] = "over"]
      BY <2>0, <3>1 DEF Life
    <3>. QED BY <3>2 DEF C!Next, C!End
  <2>5. ASSUME UNCHANGED pump PROVE UNCHANGED Life
    BY <2>5 DEF Life
  <2>6. CASE Tick
    BY <2>5, <2>6, TickFrames
  <2>7. CASE (\E c \in Conn : Flap(c)) \/ PeriodElapses \/ SnapshotFallsDue \/ SecondBegins
    BY <2>5, <2>7 DEF Flap, PeriodElapses, SnapshotFallsDue, SecondBegins, conns
  <2>8. CASE UNCHANGED vars
    BY <2>5, <2>8 DEF vars, conns
  <2>. QED BY <2>1, <2>2, <2>3, <2>4, <2>6, <2>7, <2>8 DEF Next
<1>. QED BY <1>1, <1>2, Invariance, PTL DEF Spec, ImplementsConnections, C!Spec

=============================================================================
