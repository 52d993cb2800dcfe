------------------------------ MODULE MCRaceHub ------------------------------
(* Values for the constants of RaceHub. *)
EXTENDS RaceHub, TLC

\* Connections are interchangeable, and so are appearances.
Symmetry == Permutations(Conn) \cup Permutations(Bird)

MCBase == {"ada"}

\* A name and what the hub makes of a second request for it: asking for the
\* latter outright collides with a deduplicated player.
MCRequests == {<<"ada", <<>>>>, <<"ada", <<2>>>>}

MCOneRequest == {<<"ada", <<>>>>}
=============================================================================
