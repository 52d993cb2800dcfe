------------------------------ MODULE RaceCycle ------------------------------
(***************************************************************************)
(* What the hub of flappy-race promises to its players, without saying how *)
(* (internal/server/hub.go, the state machine in the comment of type Hub): *)
(*                                                                         *)
(*   waiting -> countdown -> racing -> finished -> countdown ...           *)
(*   waiting <= the last player leaves at any point                        *)
(*                                                                         *)
(* Names, appearances, frames, flaps, themes, results and the store are    *)
(* absent: RaceHub has them, and is shown to implement this module.        *)
(***************************************************************************)

CONSTANT Player      \* everyone who may ever connect

VARIABLES
  phase,             \* "waiting" | "countdown" | "racing" | "finished"
  members,           \* the connected players
  field,             \* the racers of the current race
  flying             \* the racers still alive; {} once the race is over

vars == <<phase, members, field, flying>>

Phases == {"waiting", "countdown", "racing", "finished"}

Init ==
  /\ phase = "waiting"
  /\ members = {} /\ field = {} /\ flying = {}

-----------------------------------------------------------------------------

\* The lobby opens: everyone connected is a racer of the coming race.
OpenLobby ==
  /\ phase' = "countdown"
  /\ field' = members'
  /\ flying' = members'

\* The race is over: its field stays on display while somebody watches.
CloseRace ==
  /\ flying' = {}
  /\ IF members' = {} THEN phase' = "waiting" /\ field' = {}
                      ELSE phase' = "finished" /\ UNCHANGED field

-----------------------------------------------------------------------------

\* A newcomer opens the lobby, enters a countdown, or watches until the next.
Arrive(p) ==
  /\ p \notin members \cup field
  /\ members' = members \cup {p}
  /\ \/ phase = "waiting" /\ OpenLobby
     \/ /\ phase = "countdown"
        /\ field' = field \cup {p}
        /\ flying' = flying \cup {p}
        /\ UNCHANGED phase
     \/ phase \in {"racing", "finished"} /\ UNCHANGED <<phase, field, flying>>

\* A leaver abandons a countdown, or stops flying but stays in the field.
Depart(p) ==
  /\ p \in members
  /\ members' = members \ {p}
  /\ \/ /\ phase = "countdown"
        /\ field' = field \ {p}
        /\ flying' = flying \ {p}
        /\ phase' = IF field' = {} THEN "waiting" ELSE "countdown"
     \/ /\ phase = "racing"
        /\ IF flying \subseteq {p}
           THEN CloseRace
           ELSE flying' = flying \ {p} /\ UNCHANGED <<phase, field>>
     \/ /\ phase = "finished"
        /\ IF members' = {} THEN phase' = "waiting" /\ field' = {}
                            ELSE UNCHANGED <<phase, field>>
        /\ UNCHANGED flying

Go ==
  /\ phase = "countdown"
  /\ phase' = "racing"
  /\ UNCHANGED <<members, field, flying>>

\* Time passes in a race: some racers die; it ends with the last of them, and
\* may be called off early.
Beat ==
  /\ phase = "racing"
  /\ UNCHANGED members
  /\ \/ \E dying \in SUBSET flying :
          /\ dying # flying
          /\ flying' = flying \ dying
          /\ UNCHANGED <<phase, field>>
     \/ CloseRace

NextRace ==
  /\ phase = "finished"
  /\ UNCHANGED members
  /\ OpenLobby

Next ==
  \/ \E p \in Player : Arrive(p) \/ Depart(p)
  \/ Go
  \/ Beat
  \/ NextRace

Spec == Init /\ [][Next]_vars

-----------------------------------------------------------------------------

\* Only players are in a race, and only its racers fly.
TypeOK ==
  /\ phase \in Phases
  /\ members \subseteq Player
  /\ field \subseteq Player
  /\ flying \subseteq field

\* No phantom races: a race exists exactly while somebody is connected, all of
\* a countdown's players and only they will race, and whoever flies is there
\* (hub.go:42-49 and handleLeave's contract, hub.go:263-267).
Coherent ==
  /\ phase = "waiting" <=> members = {}
  /\ phase = "waiting" => field = {}
  /\ phase = "countdown" => field = members /\ flying = members
  /\ phase = "racing" => flying # {} /\ flying \subseteq members
  /\ phase \in {"waiting", "finished"} => flying = {}

\* While a race is on, its field is closed and nobody comes back to life.
FieldFixed ==
  [][phase = "racing" /\ phase' = "racing"
       => field' = field /\ flying' \subseteq flying]_vars

=============================================================================
