-------------------------------- MODULE Clock --------------------------------
(***************************************************************************)
(* A flappy-race client's estimate of the server's clock                   *)
(* (internal/client/clock.go): the offset of server time over local time   *)
(* as a moving average, with samples far off rejected until they are too   *)
(* many in a row.                                                          *)
(*                                                                         *)
(* The local clock may be moved (the machine slept), and a snapshot's way  *)
(* may take any time: a sample is off by that deviation. What is asked of  *)
(* the estimate depends on which samples came: ordinary ones, off by the   *)
(* usual jitter; far ones, which a good estimate tells apart; and those in *)
(* between, which the average takes in. The estimate is a whole number of  *)
(* units: one of the two next to the moving average.                       *)
(***************************************************************************)
EXTENDS Integers

CONSTANTS
  JumpReject,          \* jumpRejectMs
  JumpsBeforeResync,   \* jumpsBeforeResync
  Offsets,             \* bound: the true offsets there may be
  Weight,              \* 1 / emaAlpha: the average moves by this part of the way
  Deviations,          \* bound: how far samples may be off, whatever the reason
  Jitter               \* how far one may be off to count as ordinary, 25 ms for clock.go's constants

ClockAssumption ==
  /\ {JumpReject, Jitter} \subseteq Nat /\ {JumpsBeforeResync, Weight} \subseteq Nat \ {0}
  /\ Offsets \subseteq Int /\ Deviations \subseteq Int
  /\ 2 * Weight * Jitter <= JumpReject

VARIABLES
  have,          \* a first sample was taken
  offset,        \* the estimate
  jumps,         \* samples rejected in a row
  true,          \* the true offset
  good,          \* history: ordinary samples in a row since the offset last moved
  late,          \* history: other samples in a row
  settled,       \* history: there have been enough ordinary samples in a row
  worst          \* history: how far a sample was off of those the estimate has to do with

vars == <<have, offset, jumps, true, good, late, settled, worst>>

Dist(a, b) == IF a > b THEN a - b ELSE b - a
Span(a, b) == IF a < b THEN a..b ELSE b..a
Average(a, o) == {x \in Span(a, o) : Dist(Weight * x, (Weight - 1) * a + o) < Weight}

Off(d) == Dist(d, 0)
Ordinary(d) == Off(d) <= Jitter
Far(d) == Off(d) > 2 * JumpReject
OneMore(n) == IF n = JumpsBeforeResync THEN n ELSE n + 1

TypeOK ==
  /\ have \in BOOLEAN /\ offset \in Int /\ true \in Offsets
  /\ jumps \in 0..JumpsBeforeResync - 1
  /\ good \in 0..JumpsBeforeResync /\ late \in 0..JumpsBeforeResync
  /\ settled \in BOOLEAN /\ worst \in Nat

-----------------------------------------------------------------------------

\* Mutant of Fold: an accepted sample does not end a row of rejected ones.
FoldKeepJumps(o) ==
  /\ have' = TRUE
  /\ IF ~have THEN offset' = o /\ UNCHANGED jumps
     ELSE IF Dist(o, offset) <= JumpReject THEN UNCHANGED jumps /\ offset' \in Average(offset, o)
     ELSE IF jumps + 1 < JumpsBeforeResync THEN jumps' = jumps + 1 /\ UNCHANGED offset
     ELSE jumps' = 0 /\ offset' = o

\* Sample, of a snapshot whose time is o ahead of the local clock.
Fold(o) ==
  /\ have' = TRUE
  /\ IF ~have THEN offset' = o /\ UNCHANGED jumps
     ELSE IF Dist(o, offset) <= JumpReject THEN jumps' = 0 /\ offset' \in Average(offset, o)
     ELSE IF jumps + 1 < JumpsBeforeResync THEN jumps' = jumps + 1 /\ UNCHANGED offset
     ELSE jumps' = 0 /\ offset' = o

\* The samples a settled estimate has to do with: none, as long as all were ordinary, or
\* far and not too many in a row; once another came, all, until it has settled anew.
Worst(d) ==
  IF ~settled' \/ good' = JumpsBeforeResync THEN 0
  ELSE IF worst = 0 /\ (Ordinary(d) \/ (Far(d) /\ late' < JumpsBeforeResync)) THEN 0
  ELSE IF Off(d) > worst THEN Off(d) ELSE worst

Sample(d) ==
  /\ Fold(true + d)
  /\ good' = IF Ordinary(d) THEN OneMore(good) ELSE 0
  /\ late' = IF Ordinary(d) THEN 0 ELSE OneMore(late)
  /\ settled' = (settled \/ good' = JumpsBeforeResync)
  /\ worst' = Worst(d)
  /\ UNCHANGED true

Move(t) ==
  /\ t # true /\ true' = t
  /\ good' = 0 /\ late' = 0 /\ settled' = FALSE /\ worst' = 0
  /\ UNCHANGED <<have, offset, jumps>>

Init ==
  /\ have = FALSE /\ offset = 0 /\ jumps = 0 /\ true \in Offsets
  /\ good = 0 /\ late = 0 /\ settled = FALSE /\ worst = 0

Next ==
  \/ \E d \in Deviations : Sample(d)
  \/ \E t \in Offsets : Move(t)

Spec == Init /\ [][Next]_vars

-----------------------------------------------------------------------------
(* Properties *)

\* Whatever samples came before, after jumpsBeforeResync ordinary ones in a row the
\* estimate is right but for the rejection threshold. It stays so until the local clock
\* moves, over ordinary samples and far ones, however many these are in all, if fewer
\* than jumpsBeforeResync in a row. A sample in between, or a row that long, may take it
\* away, but never further than the worst sample since, and until the next such row of
\* ordinary ones: "Occasional jitter is noise; a sustained divergence means the local
\* clock moved" (clock.go:40).
EstimateHolds ==
  settled => have /\ (Dist(offset, true) <= JumpReject \/ Dist(offset, true) <= worst)

=============================================================================
