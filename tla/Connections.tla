----------------------------- MODULE Connections -----------------------------
(***************************************************************************)
(* The life of a websocket as the hub sees it (internal/server/client.go,  *)
(* "the first frame must be the join", and hub.go's handleJoin, handleLeave *)
(* and reject): a connection is accepted at most once, by a hub with room, *)
(* and after a refusal or a leave it never comes back. RaceHub and         *)
(* Transport both implement it: RaceHub for the handlers, Transport for    *)
(* the goroutines and channels that call them.                             *)
(***************************************************************************)
EXTENDS Naturals, FiniteSets

CONSTANTS
  Conn,         \* the connections ever opened
  MaxPlayers

VARIABLE life   \* per connection: "connected" | "playing" | "over"

Playing == {c \in Conn : life[c] = "playing"}

Init == life = [c \in Conn |-> "connected"]

Accept(c) ==
  /\ life[c] = "connected"
  /\ Cardinality(Playing) < MaxPlayers
  /\ life' = [life EXCEPT ![c] = "playing"]

\* Refused, gone before its join, or left.
End(c) ==
  /\ life[c] # "over"
  /\ life' = [life EXCEPT ![c] = "over"]

Next == \E c \in Conn : Accept(c) \/ End(c)

Spec == Init /\ [][Next]_life
=============================================================================
