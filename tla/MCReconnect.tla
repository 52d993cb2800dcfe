----------------------------- MODULE MCReconnect -----------------------------
(* Lengths for three names: one short, one as long as allowed, one too long.  *)
EXTENDS Reconnect

CONSTANTS short, long, overlong
MCBaseLen == [b \in Bases |-> IF b = short THEN 1 ELSE IF b = long THEN 4 ELSE 5]

=============================================================================
