------------------------------- MODULE MCClient -------------------------------
(* Values for the constants of Client.                                        *)
EXTENDS Client

\* A name that leaves room for a number, one that does not, and one that is too long
\* by itself.
MCBaseLen == [b \in Bases |-> CASE b = "short" -> 1 [] b = "long" -> 4 [] OTHER -> 5]

\* Ordinary samples; ones that the average takes in from a good estimate, or once it has
\* moved; and ones far off, both ways.
MCDeviations == ((0 - 2)..2) \cup {0 - 20, 0 - 40, 51, 0 - 51}

\* The clock is set back by more than a snapshot interval, or ahead.
MCSettings == {0 - 6, 5}

=============================================================================
