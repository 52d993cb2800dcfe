------------------------------- MODULE Client -------------------------------
(***************************************************************************)
(* What the race client does over time: it comes back after a loss, it     *)
(* estimates the server's clock, and it shows the phases of a hub whose    *)
(* own clock may be set. The three share no state that their modules do    *)
(* not hold already, so a behaviour is about the part chosen at the start, *)
(* and the others stay as they began.                                      *)
(***************************************************************************)
EXTENDS Integers, Sequences

CONSTANTS
  Bases, BaseLen, MaxNameLen, MaxPlayers, RingLen, BaseDelay, MaxDelay,
  MaxConns, MaxFaults, MaxOthers, None,                              \* of Reconnect
  Weight,                                                            \* of both clocks
  JumpReject, JumpsBeforeResync, Offsets, Jitter, Deviations,        \* of Clock
  TicksReject, TicksBeforeResync,   \* the first two in the units of RaceClock
  Countdown, Results, RaceTicks, SnapEvery, Second, GoFlash,
  Settings, MaxSettings, Calm                                        \* of RaceClock

VARIABLES
  part,                                                              \* the one that runs
  net, fatal, dial, dialed, dialName, attempts, wait, ring, sess, picked,
  conns, up, others, othersJoined, faults,                           \* of Reconnect
  have, offset, jumps, true, good, late, settled, worst,             \* of Clock
  st, left, tick, since, newest, err, rejected, quiet, calm, settings  \* of RaceClock

Player == INSTANCE Reconnect
Estimate == INSTANCE Clock
Display == INSTANCE RaceClock WITH
  JumpReject <- TicksReject, JumpsBeforeResync <- TicksBeforeResync

ASSUME ClientAssumption ==
  Player!ReconnectAssumption /\ Estimate!ClockAssumption /\ Display!RaceClockAssumption

-----------------------------------------------------------------------------
(* Side by side *)

playerVars  == <<net, fatal, dial, dialed, dialName, attempts, wait, ring, sess, picked,
                 conns, up, others, othersJoined, faults>>
clockVars   == <<have, offset, jumps, true, good, late, settled, worst>>
displayVars == <<st, left, tick, since, newest, err, rejected, quiet, calm, settings>>
vars == <<part, playerVars, clockVars, displayVars>>

\* The parts that stand still begin in one of their initial states.
Init ==
  /\ part \in {"player", "clock", "display"}
  /\ Player!Init /\ Estimate!Init /\ Display!Init
  /\ part # "player" => picked = (CHOOSE b \in Bases : TRUE) /\ up
  /\ part # "clock" => true = (CHOOSE t \in Offsets : TRUE)

Alone(mine, rest) == part = mine /\ UNCHANGED <<part, rest>>

Next ==
  \/ Alone("player", <<clockVars, displayVars>>) /\ Player!Next
  \/ Alone("clock", <<playerVars, displayVars>>) /\ Estimate!Next
  \/ Alone("display", <<playerVars, clockVars>>) /\ Display!Next

Playing(step) == part = "player" /\ step

\* The part that runs is as fair as its own specification says.
Fairness ==
  /\ WF_playerVars(Playing(Player!PumpNet)) /\ WF_playerVars(Playing(Player!StartDial))
  /\ WF_playerVars(Playing(Player!Dial)) /\ WF_playerVars(Playing(Player!Join))
  /\ WF_playerVars(Playing(Player!Reconnect)) /\ WF_playerVars(Playing(Player!Tick))
  /\ WF_playerVars(Playing(Player!Restart))
  /\ \A i \in 1..MaxConns :
       /\ WF_playerVars(Playing(i \in Player!ConnIds /\ (Player!ReadFrame(i) \/ Player!ReadFails(i))))
       /\ WF_playerVars(Playing(i \in Player!ConnIds /\ Player!HandleJoin(i)))
       /\ WF_playerVars(Playing(i \in Player!ConnIds /\ Player!HandleLeave(i)))
  /\ WF_displayVars(part = "display" /\ Display!Tick)

Spec == Init /\ [][Next]_vars /\ Fairness

-----------------------------------------------------------------------------
(* Properties *)

\* The type invariant of the part that runs.
TypeOK ==
  /\ part = "player"  => Player!TypeOK
  /\ part = "clock"   => Estimate!TypeOK
  /\ part = "display" => Display!TypeOK

\* The client never has two connections that live, draws from one only, and takes no
\* loss for a refusal (game.go's reconnect, Net.fail, Ring.Reset).
OneConnection == part = "player" =>
  Player!OneConnection /\ Player!RingOneConnection /\ Player!LossNotTerminal

\* Whatever a clock was set to and however samples came, the estimate of the server's
\* clock is right again after jumpsBeforeResync ordinary samples, and so are the phase
\* and the number shown (Clock.Sample, DeriveHUD).
Settles == /\ part = "clock" => Estimate!EstimateHolds
           /\ part = "display" => Display!Settles

\* Nobody is left out: a player who lost the server is back in the game, or refused
\* (README.md:79), and however often the clock is set every countdown ends in a race and
\* every race in a countdown (Hub.tick).
BackInGame ==
  /\ []<>(part = "player" => Player!InGame \/ fatal)
  /\ \A phase \in {"countdown", "racing"} : []<>(part = "display" => st = phase)

=============================================================================
