------------------------------ MODULE RaceClock ------------------------------
(***************************************************************************)
(* flappy-race's timers on a wall clock that may be set: the hub's         *)
(* countdown, results and snapshot cadence (internal/server/hub.go), and   *)
(* a client's newest snapshot, estimate of the server's clock and          *)
(* countdown display (internal/client: interp.go, clock.go, hud.go).       *)
(*                                                                         *)
(* A unit of time is a tick of the hub. All times are kept relative to the *)
(* hub's clock, so setting it moves them all. A snapshot arrives at once,  *)
(* in order, at a client that is connected all the time.                   *)
(***************************************************************************)
EXTENDS Integers, FiniteSetsExt

CONSTANTS
  Countdown, Results,   \* Config.Countdown and Config.Results
  RaceTicks,            \* protocol.MaxRaceTicks
  SnapEvery,            \* Hub.snapshotEvery
  Second, GoFlash,      \* 1000 ms, and the 700 ms GO lingers
  JumpReject, JumpsBeforeResync, Weight,   \* see Clock
  Settings,             \* bound: by how much the clock is set
  MaxSettings,          \* bound: how often
  Calm                  \* how many ticks after a setting everything is right again: the clocks
                        \* have caught up with it, and the client's rejected its last sample

RaceClockAssumption ==
  /\ {Countdown, Results, RaceTicks, SnapEvery, Second, GoFlash, JumpsBeforeResync, Weight, Calm}
       \subseteq Nat \ {0}
  /\ {JumpReject, MaxSettings} \subseteq Nat /\ Settings \subseteq Int \ {0}
  /\ \E most \in 0..Calm :
       /\ Settings \subseteq (0 - most)..most
       /\ Calm >= MaxSettings * most + JumpsBeforeResync * SnapEvery

VARIABLES
  st,            \* Hub.st: "countdown" | "racing" | "finished"
  left,          \* goAt, or in "finished" finishAt, less now
  tick,          \* World.Tick
  since,         \* now less lastSnap
  newest,        \* the newest snapshot of the client's ring, see Snap
  err,           \* the client's offset less the true one
  rejected,      \* Clock.jumps
  quiet,         \* history: ticks since the last snapshot
  calm,          \* history: ticks since the clock was last set
  settings       \* how often it was

vars == <<st, left, tick, since, newest, err, rejected, quiet, calm, settings>>

Clk == INSTANCE Clock WITH
  offset <- err, jumps <- rejected, have <- TRUE, true <- 0, good <- 0, late <- 0,
  settled <- FALSE, worst <- 0, Offsets <- {0}, Deviations <- {0}, Jitter <- 0

\* What the client keeps of a snapshot: the state, and its goAt and now less now.
Snap == [st |-> st, toGo |-> left, ahead |-> 0]

AtLeast(x, lo) == Max({x, lo})
AtMost(x, hi) == Min({x, hi})

TypeOK ==
  /\ st \in {"countdown", "racing", "finished"} /\ tick \in 0..RaceTicks
  /\ left \in Int /\ since \in Int /\ since <= SnapEvery
  /\ newest.st \in {"countdown", "racing", "finished"} /\ newest.ahead >= 0 - 1
  /\ err \in Int /\ rejected \in 0..JumpsBeforeResync - 1
  /\ quiet \in 0..SnapEvery + 1 /\ calm \in 0..Calm /\ settings \in 0..MaxSettings

-----------------------------------------------------------------------------
(* Time passes, or is set: every time relative to now moves by d *)

Moved(snap, d) ==
  [snap EXCEPT !.toGo = AtLeast(@ - d, 0 - GoFlash), !.ahead = AtLeast(@ - d, 0 - 1)]

SetClock(d) ==
  /\ settings < MaxSettings /\ settings' = settings + 1
  /\ left' = AtLeast(left - d, 0 - GoFlash) /\ since' = AtMost(since + d, SnapEvery)
  /\ newest' = Moved(newest, d) /\ err' = err - d /\ calm' = 0
  /\ UNCHANGED <<st, tick, rejected, quiet>>

-----------------------------------------------------------------------------
(* A snapshot is sent, and the client folds it in *)

\* held is the client's newest snapshot so far: one as old is ignored.
Broadcast(snap, held) ==
  /\ since' = 0 /\ quiet' = 0
  /\ Clk!Fold(0)
  /\ newest' = IF held.ahead >= 0 THEN held ELSE snap

MaybeSnapshot ==
  LET held == Moved(newest, 1) IN
    IF since + 1 >= SnapEvery
      THEN Broadcast(Snap', held)
      ELSE /\ since' = since + 1 /\ quiet' = AtMost(quiet + 1, SnapEvery + 1)
           /\ newest' = held /\ UNCHANGED <<err, rejected>>

\* A join or a leave has the world sent out of turn.
Rebroadcast ==
  /\ Broadcast(Snap, newest)
  /\ UNCHANGED <<st, left, tick, calm, settings>>

-----------------------------------------------------------------------------
(* The hub's tick, one unit of time after the last *)

Flip(next, time) ==
  /\ st' = next /\ left' = time
  /\ Broadcast(Snap', Moved(newest, 1))

Stay(time) == st' = st /\ left' = time /\ MaybeSnapshot

Due(time) == time <= 0

RaceGoesOn(time) == tick' < RaceTicks /\ Stay(time)

Tick ==
  LET time == AtLeast(left - 1, 0 - GoFlash) IN
    /\ calm' = AtMost(calm + 1, Calm) /\ UNCHANGED settings
    /\ \/ /\ st = "countdown" /\ tick' = 0
          /\ IF Due(time) THEN Flip("racing", time) ELSE Stay(time)
       \/ /\ st = "racing" /\ tick' = tick + 1
          /\ \/ Flip("finished", Results)
             \/ RaceGoesOn(time)
       \/ /\ st = "finished" /\ tick' = 0
          /\ IF Due(time) THEN Flip("countdown", Countdown) ELSE Stay(time)

Init ==
  /\ st = "countdown" /\ left = Countdown /\ tick = 0 /\ since = 0
  /\ newest = Snap /\ err = 0 /\ rejected = 0
  /\ quiet = 0 /\ calm = Calm /\ settings = 0

Next == Tick \/ Rebroadcast \/ \E d \in Settings : SetClock(d)

\* The ticker goes on.
Spec == Init /\ [][Next]_vars /\ WF_vars(Tick)

-----------------------------------------------------------------------------
(* The display: DeriveHUD *)

CeilDiv(a, b) == (a + b - 1) \div b

Number(remaining) == Max({1, Min({3, CeilDiv(remaining, Second)})})

\* 3, 2, 1, GO as 0, or nothing as -1.
Shown ==
  LET remaining == newest.toGo - err IN
    CASE newest.st = "countdown" /\ remaining > 0 -> Number(remaining)
      [] newest.st = "countdown" /\ remaining <= 0 -> 0
      [] newest.st = "racing" /\ remaining > 0 - GoFlash -> 0
      [] OTHER -> 0 - 1

-----------------------------------------------------------------------------
(* Properties *)

\* Whatever the clock was set to, once it has been left alone for Calm ticks
\* snapshots come in their cadence, the client sees the hub's state, and the
\* number it shows is the time left, but for the error its clock may keep
\* (hub.go:457-462, interp.go:60, clock.go:39, hud.go:40-52).
Settles ==
  calm = Calm =>
    /\ quiet <= SnapEvery
    /\ newest.st = st
    /\ st = "countdown" =>
         \E e \in (0 - JumpReject)..JumpReject :
           Shown = IF left - e > 0 THEN AtLeast(AtMost(CeilDiv(left - e, Second), 3), 1) ELSE 0

=============================================================================
