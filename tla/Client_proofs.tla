---------------------------- MODULE Client_proofs ----------------------------
(***************************************************************************)
(* Proofs about the race client's connection, its estimate of the server's *)
(* clock and its display, for any names, thresholds, delays and settings   *)
(* of the clock.                                                           *)
(***************************************************************************)
EXTENDS Client, OrderLemmas

PlayerSafety  == Player!Init /\ [][Player!Next]_(Player!vars)
ClockSafety   == Estimate!Init /\ [][Estimate!Next]_(Estimate!vars)
DisplaySafety == Display!Init /\ [][Display!Next]_(Display!vars)

\* Each part of a behaviour of the composition behaves as by itself, whichever of
\* them runs.
LEMMA EachByItself == Spec => PlayerSafety /\ ClockSafety /\ DisplaySafety
<1>1. Init => Player!Init /\ Estimate!Init /\ Display!Init
  BY DEF Init
<1>2. [Next]_vars => [Player!Next]_(Player!vars)
  BY DEF Next, Alone, vars, playerVars, Player!vars
<1>3. [Next]_vars => [Estimate!Next]_(Estimate!vars)
  BY DEF Next, Alone, vars, clockVars, Estimate!vars
<1>4. [Next]_vars => [Display!Next]_(Display!vars)
  BY DEF Next, Alone, vars, displayVars, Display!vars
<1> QED BY <1>1, <1>2, <1>3, <1>4, PTL DEF Spec, PlayerSafety, ClockSafety, DisplaySafety

-----------------------------------------------------------------------------
(* Clock: the inductive invariant *)

\* The estimate is so near that every ordinary sample is accepted and every far one is not.
Near == offset - true \in (0 - (JumpReject - Jitter))..(JumpReject - Jitter)

\* Since it settled, the estimate has to do with no other samples than ordinary ones and
\* far ones, and is near; or it is no further off than by the worst of the others.
Held ==
  /\ worst = 0 => Near /\ jumps <= late /\ late < JumpsBeforeResync
  /\ worst > 0 => Near \/ Estimate!Dist(offset, true) <= worst

\* As many ordinary samples as there were in a row have been rejected, or one of them was
\* not, and brought the estimate near; from there only far ones are rejected.
ClockInv ==
  /\ Estimate!TypeOK
  /\ ~have => good = 0 /\ jumps = 0 /\ ~settled
  /\ good > 0 => (Near /\ jumps = 0) \/ jumps >= good
  /\ settled => Held

\* What the constants of the estimate are, one fact each.
LEMMA ClockConstants ==
  /\ JumpReject \in Nat /\ Jitter \in Nat
  /\ JumpsBeforeResync \in Nat \ {0} /\ Weight \in Nat \ {0}
  /\ Offsets \subseteq Int /\ Deviations \subseteq Int
  /\ 2 * Weight * Jitter <= JumpReject
  /\ 2 * Jitter <= JumpReject
<1>1. /\ JumpReject \in Nat /\ Jitter \in Nat
      /\ JumpsBeforeResync \in Nat \ {0} /\ Weight \in Nat \ {0}
      /\ Offsets \subseteq Int /\ Deviations \subseteq Int
      /\ 2 * Weight * Jitter <= JumpReject
  BY ClientAssumption DEF ClientAssumption, Estimate!ClockAssumption
<1>2. 2 * Jitter <= 2 * Weight * Jitter
  <2>1. \A w \in Nat \ {0}, j \in Nat : j <= w * j /\ w * j \in Nat /\ 2 * w * j = 2 * (w * j)
    OBVIOUS
  <2> QED BY <1>1, <2>1
<1>3. 2 * Weight * Jitter \in Nat
  BY <1>1
<1> QED BY <1>1, <1>2, <1>3

\* An average is between the two values, and at least about its share of the way from the
\* old one to the new one.
LEMMA AverageBetween ==
  ASSUME NEW a \in Int, NEW o \in Int, NEW x \in Estimate!Average(a, o)
  PROVE  /\ x \in Int
         /\ a <= o => a <= x /\ x <= o /\ Weight * (o - x) < (Weight - 1) * (o - a) + Weight
         /\ o <= a => o <= x /\ x <= a /\ Weight * (x - o) < (Weight - 1) * (a - o) + Weight
<1> DEFINE m == (Weight - 1) * a + o
           p == Weight * x
<1>1. x \in Int /\ (a < o => a <= x /\ x <= o) /\ (~(a < o) => o <= x /\ x <= a)
  BY DEF Estimate!Average, Estimate!Span
<1>2. Weight \in Int /\ p \in Int /\ m \in Int
  BY <1>1, ClockConstants
<1>3. p - m < Weight /\ m - p < Weight
  <2>1. Estimate!Dist(p, m) < Weight
    BY DEF Estimate!Average
  <2> HIDE DEF p, m
  <2> QED BY <1>2, <2>1 DEF Estimate!Dist
<1>4. Weight * (o - x) = Weight * o - p /\ Weight * (x - o) = p - Weight * o
  BY <1>1, <1>2
<1>5. (Weight - 1) * (o - a) = Weight * o - m /\ (Weight - 1) * (a - o) = m - Weight * o
  <2>1. \A w \in Int : (w - 1) * (o - a) = w * o - ((w - 1) * a + o)
                       /\ (w - 1) * (a - o) = ((w - 1) * a + o) - w * o
    OBVIOUS
  <2> QED BY <1>2, <2>1
<1>6. Weight * o \in Int
  BY <1>2
<1> HIDE DEF m, p
<1> QED BY <1>1, <1>2, <1>3, <1>4, <1>5, <1>6

\* A sample that is accepted brings the estimate near, however far it was.
LEMMA AcceptedIsNear ==
  ASSUME NEW a \in Int, NEW t \in Int, NEW d \in (0 - Jitter)..Jitter,
         Estimate!Dist(t + d, a) <= JumpReject, NEW x \in Estimate!Average(a, t + d)
  PROVE  x \in Int /\ x - t \in (0 - (JumpReject - Jitter))..(JumpReject - Jitter)
<1> DEFINE o == t + d
<1>1. o \in Int /\ d \in Int /\ 0 - Jitter <= d /\ d <= Jitter /\ o - t = d
  BY ClockConstants
<1>2. /\ x \in Int
      /\ a <= o => a <= x /\ x <= o /\ Weight * (o - x) < (Weight - 1) * (o - a) + Weight
      /\ o <= a => o <= x /\ x <= a /\ Weight * (x - o) < (Weight - 1) * (a - o) + Weight
  BY <1>1, AverageBetween
<1>3. (a <= o => o - a <= JumpReject) /\ (o <= a => a - o <= JumpReject)
  BY <1>1 DEF Estimate!Dist
<1> HIDE DEF o
<1>4. ASSUME NEW e \in Nat, NEW g \in Nat, g <= JumpReject,
             Weight * e < (Weight - 1) * g + Weight
      PROVE  e <= JumpReject - 2 * Jitter
  <2>1. (Weight - 1) * g <= (Weight - 1) * JumpReject
    BY <1>4, ClockConstants
  <2> DEFINE b == JumpReject - 2 * Jitter
  <2>2. b \in Nat
    BY ClockConstants
  <2>3. Weight * (b + 1) = Weight * JumpReject - 2 * Weight * Jitter + Weight
    BY ClockConstants
  <2>4. (Weight - 1) * JumpReject = Weight * JumpReject - JumpReject
    BY ClockConstants
  <2>5. /\ Weight * (b + 1) \in Int /\ Weight * JumpReject \in Int /\ 2 * Weight * Jitter \in Int
        /\ Weight * e \in Int /\ (Weight - 1) * g \in Int /\ (Weight - 1) * JumpReject \in Int
    BY <2>2, ClockConstants
  <2>6. Weight * e < Weight * (b + 1)
    BY <1>4, <2>1, <2>3, <2>4, <2>5, ClockConstants
  <2>7. \A w \in Nat \ {0}, y, z \in Int : w * y < w * z => y < z
    OBVIOUS
  <2> HIDE DEF b
  <2>8. e < b + 1
    BY <2>2, <2>6, <2>7, ClockConstants
  <2>9. e <= b
    BY <2>2, <2>8
  <2> QED BY <2>9 DEF b
<1>5. CASE a <= o
  <2>1. o - x \in Nat /\ o - a \in Nat
    BY <1>1, <1>2, <1>5
  <2>2. o - x <= JumpReject - 2 * Jitter
    BY <1>2, <1>3, <1>4, <1>5, <2>1
  <2> QED BY <1>1, <1>2, <1>5, <2>2, ClockConstants
<1>6. CASE o <= a
  <2>1. x - o \in Nat /\ a - o \in Nat
    BY <1>1, <1>2, <1>6
  <2>2. x - o <= JumpReject - 2 * Jitter
    BY <1>2, <1>3, <1>4, <1>6, <2>1
  <2> QED BY <1>1, <1>2, <1>6, <2>2, ClockConstants
<1> QED BY <1>1, <1>5, <1>6

\* At the beginning there is no estimate.
LEMMA ClockBegins == Estimate!Init => ClockInv
<1> SUFFICES ASSUME Estimate!Init PROVE ClockInv
  OBVIOUS
<1>1. 0 \in Int /\ 0 \in 0..JumpsBeforeResync /\ 0 \in 0..JumpsBeforeResync - 1
  BY ClockConstants
<1>2. Estimate!TypeOK
  BY <1>1 DEF Estimate!Init, Estimate!TypeOK
<1> QED BY <1>1, <1>2 DEF Estimate!Init, ClockInv

\* The values a sample finds.
LEMMA SampleFinds ==
  ASSUME ClockInv, NEW d \in Deviations
  PROVE  /\ offset \in Int /\ true \in Int /\ d \in Int /\ true \in Offsets /\ settled \in BOOLEAN
         /\ jumps \in 0..JumpsBeforeResync - 1 /\ worst \in Nat
         /\ good \in 0..JumpsBeforeResync /\ late \in 0..JumpsBeforeResync
         /\ have \in BOOLEAN /\ (~have => jumps = 0)
BY ClockConstants DEF ClockInv, Estimate!TypeOK

\* What it does to the histories.
LEMMA SampleHistory ==
  ASSUME NEW d \in Deviations, Estimate!Sample(d)
  PROVE  /\ have' = TRUE /\ true' = true
         /\ settled' = (settled \/ good' = JumpsBeforeResync) /\ worst' = Estimate!Worst(d)
         /\ Estimate!Ordinary(d) => late' = 0 /\ good' = Estimate!OneMore(good)
         /\ ~Estimate!Ordinary(d) => good' = 0 /\ late' = Estimate!OneMore(late)
BY DEF Estimate!Sample, Estimate!Fold

\* What it does to the estimate: the first sample is taken, the others are accepted,
\* rejected, or taken after too many rejected ones.
LEMMA SampleMoves ==
  ASSUME ClockInv, NEW d \in Deviations, Estimate!Sample(d)
  PROVE  \/ ~have /\ offset' = true + d /\ jumps' = 0
         \/ /\ have /\ Estimate!Dist(true + d, offset) <= JumpReject /\ jumps' = 0
            /\ offset' \in Estimate!Average(offset, true + d)
         \/ /\ have /\ ~(Estimate!Dist(true + d, offset) <= JumpReject)
            /\ jumps + 1 < JumpsBeforeResync /\ jumps' = jumps + 1 /\ offset' = offset
         \/ have /\ ~(jumps + 1 < JumpsBeforeResync) /\ jumps' = 0 /\ offset' = true + d
<1>1. Estimate!Fold(true + d) /\ (~have => jumps = 0)
  BY SampleFinds DEF Estimate!Sample
<1> QED BY <1>1 DEF Estimate!Fold

\* A sample keeps the types.
LEMMA SampleTyped ==
  ASSUME ClockInv, NEW d \in Deviations, Estimate!Sample(d)
  PROVE  Estimate!TypeOK'
<1>1. offset' \in Int /\ jumps' \in 0..JumpsBeforeResync - 1
  <2>1. offset' \in Estimate!Average(offset, true + d) => offset' \in Int
    BY SampleFinds, SampleHistory, SampleMoves, AverageBetween
  <2> QED BY <2>1, SampleFinds, SampleHistory, SampleMoves, ClockConstants
<1>2. good' \in 0..JumpsBeforeResync /\ late' \in 0..JumpsBeforeResync
  BY SampleFinds, SampleHistory, SampleMoves, ClockConstants DEF Estimate!OneMore
<1>3. worst' \in Nat
  BY SampleFinds, SampleHistory, SampleMoves DEF Estimate!Worst, Estimate!Off, Estimate!Dist
<1> QED BY <1>1, <1>2, <1>3, SampleFinds, SampleHistory, SampleMoves DEF Estimate!TypeOK

\* No sample takes the estimate further from the truth than it was, or than the sample was.
LEMMA NoFurther ==
  ASSUME ClockInv, NEW d \in Deviations, Estimate!Sample(d), have
  PROVE  \/ Estimate!Dist(offset', true) <= Estimate!Dist(offset, true)
         \/ Estimate!Dist(offset', true) <= Estimate!Off(d)
<1>1. CASE offset' = offset
  BY <1>1, SampleFinds, SampleHistory, SampleMoves DEF Estimate!Dist
<1>2. CASE offset' = true + d
  BY <1>2, SampleFinds, SampleHistory, SampleMoves DEF Estimate!Dist, Estimate!Off
<1>3. CASE offset' \in Estimate!Average(offset, true + d)
  <2>1. /\ offset' \in Int /\ offset \in Int /\ true \in Int /\ d \in Int
        /\ offset <= true + d => offset <= offset' /\ offset' <= true + d
        /\ true + d <= offset => true + d <= offset' /\ offset' <= offset
    BY <1>3, SampleFinds, SampleHistory, SampleMoves, AverageBetween
  <2>2. \A a, x, t, o \in Int : (a <= x /\ x <= o) \/ (o <= x /\ x <= a) =>
          \/ Estimate!Dist(x, t) <= Estimate!Dist(a, t)
          \/ Estimate!Dist(x, t) <= Estimate!Dist(o, t)
    BY DEF Estimate!Dist
  <2>3. true + d \in Int /\ Estimate!Dist(true + d, true) = Estimate!Off(d)
    BY <2>1 DEF Estimate!Dist, Estimate!Off
  <2> QED BY <2>1, <2>2, <2>3
<1> QED BY <1>1, <1>2, <1>3, SampleFinds, SampleHistory, SampleMoves

\* An ordinary sample is accepted, and then the estimate is near, or rejected, and then it
\* was not; the last one a row of rejected ones may have is taken.
LEMMA OrdinarySample ==
  ASSUME ClockInv, NEW d \in Deviations, Estimate!Sample(d), Estimate!Ordinary(d)
  PROVE  \/ Near' /\ jumps' = 0
         \/ /\ ~Near /\ have /\ jumps + 1 < JumpsBeforeResync
            /\ jumps' = jumps + 1 /\ offset' = offset
<1>1. d \in (0 - Jitter)..Jitter
  BY SampleFinds, SampleHistory, SampleMoves, ClockConstants DEF Estimate!Ordinary, Estimate!Off, Estimate!Dist
<1>2. CASE offset' = true + d /\ jumps' = 0
  <2>1. offset' - true' = d /\ d \in (0 - (JumpReject - Jitter))..(JumpReject - Jitter)
    BY <1>1, <1>2, SampleFinds, SampleHistory, SampleMoves, ClockConstants
  <2> QED BY <1>2, <2>1 DEF Near
<1>3. CASE /\ Estimate!Dist(true + d, offset) <= JumpReject /\ jumps' = 0
           /\ offset' \in Estimate!Average(offset, true + d)
  <2>1. offset' - true \in (0 - (JumpReject - Jitter))..(JumpReject - Jitter)
    BY <1>1, <1>3, SampleFinds, SampleHistory, SampleMoves, AcceptedIsNear
  <2> QED BY <1>3, <2>1, SampleFinds, SampleHistory, SampleMoves DEF Near
<1>4. CASE /\ have /\ ~(Estimate!Dist(true + d, offset) <= JumpReject)
           /\ jumps + 1 < JumpsBeforeResync /\ jumps' = jumps + 1 /\ offset' = offset
  <2>1. ~Near
    BY <1>1, <1>4, SampleFinds, SampleHistory, SampleMoves, ClockConstants DEF Near, Estimate!Dist
  <2> QED BY <1>4, <2>1
<1> QED BY <1>2, <1>3, <1>4, SampleFinds, SampleHistory, SampleMoves

\* Near says how far the estimate is off at most.
LEMMA NearIs ==
  /\ offset \in Int /\ true \in Int =>
       (Near <=> Estimate!Dist(offset, true) <= JumpReject - Jitter)
  /\ offset' \in Int /\ true' \in Int =>
       (Near' <=> Estimate!Dist(offset', true') <= JumpReject - Jitter)
BY ClockConstants DEF Near, Estimate!Dist

\* After as many ordinary samples in a row as a resync takes, one of them was accepted.
LEMMA EnoughOrdinary ==
  ASSUME ClockInv, NEW d \in Deviations, Estimate!Sample(d), good' = JumpsBeforeResync
  PROVE  Estimate!Ordinary(d) /\ Near' /\ jumps' = 0 /\ late' = 0 /\ worst' = 0
<1>1. Estimate!Ordinary(d) /\ late' = 0 /\ good' = Estimate!OneMore(good)
  BY SampleFinds, SampleHistory, SampleMoves, ClockConstants
<1>2. worst' = 0
  BY SampleFinds, SampleHistory, SampleMoves DEF Estimate!Worst
<1>3. ASSUME ~Near, jumps + 1 < JumpsBeforeResync PROVE FALSE
  <2>1. good > 0 => jumps >= good
    BY <1>3 DEF ClockInv
  <2> QED BY <1>1, <1>3, <2>1, SampleFinds, SampleHistory, SampleMoves, ClockConstants DEF Estimate!OneMore
<1> QED BY <1>1, <1>2, <1>3, OrdinarySample

\* An estimate that has to do with ordinary and far samples only stays near.
LEMMA StaysNear ==
  ASSUME ClockInv, NEW d \in Deviations, Estimate!Sample(d), settled, worst = 0,
         Estimate!Ordinary(d) \/ (Estimate!Far(d) /\ late' < JumpsBeforeResync)
  PROVE  Near' /\ jumps' <= late' /\ late' < JumpsBeforeResync
<1>1. have /\ Near /\ jumps <= late /\ late < JumpsBeforeResync
  BY DEF ClockInv, Held
<1>2. CASE Estimate!Ordinary(d)
  <2>1. late' = 0 /\ 0 < JumpsBeforeResync
    <3>1. late' = 0
      BY <1>2, SampleHistory
    <3> QED BY <3>1, ClockConstants
  <2>2. Near' /\ jumps' = 0
    BY <1>1, <1>2, OrdinarySample
  <2> QED BY <2>1, <2>2
<1>3. CASE ~Estimate!Ordinary(d)
  <2>1. late' = late + 1 /\ late + 1 < JumpsBeforeResync
    <3>1. late' = late + 1
      <4>1. late' = Estimate!OneMore(late)
        BY <1>3, SampleHistory
      <4>2. late \in Nat /\ late < JumpsBeforeResync
        BY <1>1, SampleFinds, ClockConstants
      <4> QED BY <4>1, <4>2, ClockConstants DEF Estimate!OneMore
    <3> QED BY <1>3, <3>1, SampleFinds, ClockConstants DEF Estimate!Far
  <2>2. ~(Estimate!Dist(true + d, offset) <= JumpReject)
    BY <1>1, <1>3, SampleFinds, SampleHistory, SampleMoves, ClockConstants DEF Near, Estimate!Far, Estimate!Off, Estimate!Dist
  <2>3. jumps' = jumps + 1 /\ offset' = offset
    BY <1>1, <2>1, <2>2, SampleFinds, SampleHistory, SampleMoves, ClockConstants
  <2>4. Near'
    BY <1>1, <2>3, SampleFinds, SampleHistory, SampleMoves DEF Near
  <2> QED BY <1>1, <2>1, <2>3, <2>4, SampleFinds, SampleHistory, SampleMoves, ClockConstants
<1> QED BY <1>2, <1>3

\* Otherwise it is no further off than the worst of the samples it has to do with.
LEMMA StaysWithin ==
  ASSUME ClockInv, NEW d \in Deviations, Estimate!Sample(d), settled,
         good' # JumpsBeforeResync,
         ~(worst = 0 /\ (Estimate!Ordinary(d) \/ (Estimate!Far(d) /\ late' < JumpsBeforeResync)))
  PROVE  worst' > 0 /\ (Near' \/ Estimate!Dist(offset', true) <= worst')
<1>1. have /\ Held
  BY DEF ClockInv
<1>2. Estimate!Off(d) \in Nat /\ (~Estimate!Ordinary(d) => Estimate!Off(d) > 0)
  BY SampleFinds, SampleHistory, SampleMoves, ClockConstants DEF Estimate!Ordinary, Estimate!Off, Estimate!Dist
<1>3. worst' = IF Estimate!Off(d) > worst THEN Estimate!Off(d) ELSE worst
  BY SampleFinds, SampleHistory, SampleMoves DEF Estimate!Worst
<1>4. worst' > 0 /\ worst' >= worst /\ worst' >= Estimate!Off(d) /\ worst' \in Nat
  <2>1. worst > 0 \/ ~Estimate!Ordinary(d)
    BY SampleFinds, SampleHistory, SampleMoves
  <2> QED BY <1>2, <1>3, <2>1, SampleFinds, SampleHistory, SampleMoves
<1>5. /\ offset' \in Int /\ true' = true /\ Estimate!Dist(offset', true) \in Nat
      /\ offset \in Int /\ true \in Int /\ Estimate!Dist(offset, true) \in Nat
  <2>1. offset' \in Int /\ true' = true /\ offset \in Int /\ true \in Int
    BY SampleTyped, SampleFinds, SampleHistory DEF Estimate!TypeOK
  <2>2. \A a, b \in Int : Estimate!Dist(a, b) \in Nat
    BY DEF Estimate!Dist
  <2> QED BY <2>1, <2>2
<1>6. Near \/ Estimate!Dist(offset, true) <= worst
  BY <1>1, SampleFinds, SampleHistory, SampleMoves DEF Held
<1> QED BY <1>1, <1>2, <1>4, <1>5, <1>6, NoFurther, NearIs, SampleFinds, SampleHistory, SampleMoves, ClockConstants

\* A sample keeps the invariant.
LEMMA ClockSamples ==
  ASSUME ClockInv, NEW d \in Deviations, Estimate!Sample(d)
  PROVE  ClockInv'
<1>1. have' /\ Estimate!TypeOK'
  BY SampleFinds, SampleHistory, SampleMoves, SampleTyped
<1>2. ASSUME good' > 0 PROVE (Near' /\ jumps' = 0) \/ jumps' >= good'
  <2>1. Estimate!Ordinary(d) /\ good' = Estimate!OneMore(good)
    BY <1>2, SampleFinds, SampleHistory, SampleMoves
  <2>2. ASSUME ~Near, jumps + 1 < JumpsBeforeResync, jumps' = jumps + 1
        PROVE  jumps' >= good'
    <3>1. good > 0 => jumps >= good
      BY <2>2 DEF ClockInv
    <3> QED BY <2>1, <2>2, <3>1, SampleFinds, SampleHistory, SampleMoves, ClockConstants DEF Estimate!OneMore
  <2> QED BY <2>1, <2>2, OrdinarySample
<1>3. ASSUME settled' PROVE Held'
  <2>1. CASE good' = JumpsBeforeResync
    BY <2>1, EnoughOrdinary, ClockConstants DEF Held
  <2>2. CASE /\ good' # JumpsBeforeResync /\ worst = 0
             /\ Estimate!Ordinary(d) \/ (Estimate!Far(d) /\ late' < JumpsBeforeResync)
    <3>1. settled /\ worst' = 0
      BY <1>3, <2>2, SampleFinds, SampleHistory, SampleMoves DEF Estimate!Worst
    <3> QED BY <2>2, <3>1, StaysNear DEF Held
  <2>3. CASE /\ good' # JumpsBeforeResync
             /\ ~(worst = 0 /\ (Estimate!Ordinary(d) \/ (Estimate!Far(d) /\ late' < JumpsBeforeResync)))
    <3>1. settled /\ true' = true
      BY <1>3, <2>3, SampleFinds, SampleHistory, SampleMoves
    <3> QED BY <2>3, <3>1, StaysWithin DEF Held
  <2> QED BY <2>1, <2>2, <2>3
<1> QED BY <1>1, <1>2, <1>3 DEF ClockInv

\* Every step of the estimate keeps its invariant.
LEMMA ClockNext == ClockInv /\ [Estimate!Next]_(Estimate!vars) => ClockInv'
<1> SUFFICES ASSUME ClockInv, [Estimate!Next]_(Estimate!vars) PROVE ClockInv'
  OBVIOUS
<1>1. ASSUME NEW t \in Offsets, Estimate!Move(t) PROVE ClockInv'
  <2>1. 0 \in 0..JumpsBeforeResync /\ 0 \in 0..JumpsBeforeResync - 1 /\ ~(0 > 0)
    BY ClockConstants
  <2>2. /\ true' = t /\ good' = 0 /\ late' = 0 /\ settled' = FALSE /\ worst' = 0
        /\ have' = have /\ offset' = offset /\ jumps' = jumps
    BY <1>1 DEF Estimate!Move
  <2>3. Estimate!TypeOK'
    BY <1>1, <2>1, <2>2 DEF ClockInv, Estimate!TypeOK
  <2>4. ~have' => good' = 0 /\ jumps' = 0 /\ ~settled'
    BY <2>2 DEF ClockInv
  <2>5. ~(good' > 0) /\ ~settled'
    BY <2>1, <2>2
  <2> QED BY <2>3, <2>4, <2>5 DEF ClockInv
<1>2. CASE UNCHANGED Estimate!vars
  BY <1>2 DEF Estimate!vars, ClockInv, Held, Near, Estimate!TypeOK
<1> QED BY <1>1, <1>2, ClockSamples DEF Estimate!Next

\* The invariant of the estimate holds in every behaviour of it.
LEMMA ClockInvariance == ClockSafety => []ClockInv
BY ClockBegins, ClockNext, PTL DEF ClockSafety

\* Whatever samples came, after as many ordinary ones in a row as a resync takes the estimate
\* is right but for the threshold, and stays so over ordinary and far ones until too many of
\* these come in a row; any other sample takes it no further than it was off itself, until
\* the next such row of ordinary ones (Clock.Sample).
THEOREM EstimateRecovers == ClockSafety => []Estimate!EstimateHolds
<1>1. ClockInv => Estimate!EstimateHolds
  <2> SUFFICES ASSUME ClockInv, settled
               PROVE  have /\ (Estimate!Dist(offset, true) <= JumpReject \/ Estimate!Dist(offset, true) <= worst)
    BY DEF Estimate!EstimateHolds
  <2>1. have /\ Held /\ offset \in Int /\ true \in Int /\ worst \in Nat
    BY ClockConstants DEF ClockInv, Estimate!TypeOK
  <2>2. Near => Estimate!Dist(offset, true) <= JumpReject
    BY <2>1, ClockConstants DEF Near, Estimate!Dist
  <2> QED BY <2>1, <2>2 DEF Held
<1> QED BY <1>1, ClockInvariance, PTL

-----------------------------------------------------------------------------
(* Display: the inductive invariant *)

\* By how much the clock is set at most, and by how much in all.
Most == CHOOSE most \in 0..Calm :
  /\ Settings \subseteq (0 - most)..most
  /\ Calm >= MaxSettings * most + TicksBeforeResync * SnapEvery
Reach == MaxSettings * Most

\* The client's newest snapshot tells the state of the hub, and the time left of a countdown.
Current == newest.st = st /\ (st = "countdown" => newest.toGo = left)

DisplayTyped ==
  /\ Display!TypeOK
  /\ newest \in [st : {"countdown", "racing", "finished"}, toGo : Int, ahead : Int]
  /\ st = "racing" => tick < RaceTicks

\* What a setting left behind is over: a cadence it disturbed when the hub's clock has caught
\* up with it, a snapshot from the future when the time has come, and the rejection of
\* samples with the last of the row.
DisplayInv ==
  /\ DisplayTyped
  /\ since < SnapEvery \/ calm = 0
  /\ quiet = since \/ since >= calm - settings * Most
  /\ newest.ahead < 0 \/ newest.ahead <= settings * Most - calm \/ (newest.ahead = 0 /\ Current)
  /\ Current \/ calm <= Reach \/ since >= calm - Reach
  /\ err \in (0 - TicksReject)..TicksReject \/ calm - Reach <= rejected * SnapEvery + since

\* What the constants of the display are, one fact each.
LEMMA DisplayConstants ==
  /\ Countdown \in Nat \ {0} /\ Results \in Nat \ {0} /\ RaceTicks \in Nat \ {0}
  /\ SnapEvery \in Nat \ {0} /\ Second \in Nat \ {0} /\ GoFlash \in Nat \ {0}
  /\ TicksBeforeResync \in Nat \ {0} /\ Weight \in Nat \ {0} /\ Calm \in Nat \ {0}
  /\ TicksReject \in Nat /\ MaxSettings \in Nat
  /\ Most \in Nat /\ Reach \in Nat /\ TicksBeforeResync * SnapEvery \in Nat
  /\ \A d \in Settings : d \in Int /\ 0 - Most <= d /\ d <= Most
  /\ Calm >= Reach + TicksBeforeResync * SnapEvery
<1>1. /\ Countdown \in Nat \ {0} /\ Results \in Nat \ {0} /\ RaceTicks \in Nat \ {0}
      /\ SnapEvery \in Nat \ {0} /\ Second \in Nat \ {0} /\ GoFlash \in Nat \ {0}
      /\ TicksBeforeResync \in Nat \ {0} /\ Weight \in Nat \ {0} /\ Calm \in Nat \ {0}
      /\ TicksReject \in Nat /\ MaxSettings \in Nat /\ Settings \subseteq Int \ {0}
      /\ \E most \in 0..Calm :
           /\ Settings \subseteq (0 - most)..most
           /\ Calm >= MaxSettings * most + TicksBeforeResync * SnapEvery
  BY ClientAssumption DEF ClientAssumption, Display!RaceClockAssumption
<1>2. /\ Most \in 0..Calm /\ Settings \subseteq (0 - Most)..Most
      /\ Calm >= MaxSettings * Most + TicksBeforeResync * SnapEvery
  BY <1>1, Zenon DEF Most
<1>3. Most \in Nat /\ \A d \in Settings : d \in Int /\ 0 - Most <= d /\ d <= Most
  BY <1>1, <1>2
<1>4. \A a, b \in Nat : a * b \in Nat
  OBVIOUS
<1>5. Reach \in Nat /\ TicksBeforeResync * SnapEvery \in Nat
  BY <1>1, <1>3, <1>4 DEF Reach
<1> QED BY <1>1, <1>2, <1>3, <1>5 DEF Reach

\* What the settings so far can have moved grows by one setting's part, up to all of it, and
\* the time of the samples rejected so far by one interval of the cadence.
LEMMA Shares ==
  ASSUME NEW n \in 0..MaxSettings, NEW r \in 0..TicksBeforeResync - 1
  PROVE  /\ n * Most \in Nat /\ n * Most <= Reach
         /\ n < MaxSettings => (n + 1) * Most = n * Most + Most /\ n * Most + Most <= Reach
         /\ r * SnapEvery \in Nat /\ (r + 1) * SnapEvery = r * SnapEvery + SnapEvery
         /\ r * SnapEvery + SnapEvery <= TicksBeforeResync * SnapEvery
<1>1. n \in Nat /\ r \in Nat /\ n <= MaxSettings /\ r + 1 <= TicksBeforeResync
      /\ MaxSettings \in Nat /\ TicksBeforeResync \in Nat /\ SnapEvery \in Nat /\ Most \in Nat
  BY DisplayConstants
<1>2. \A a, b \in Nat : a * b \in Nat /\ (a + 1) * b = a * b + b
  OBVIOUS
<1>3. \A a, b, c \in Nat : a <= b => a * c <= b * c
  OBVIOUS
<1>4. n * Most \in Nat /\ (n + 1) * Most = n * Most + Most /\ n * Most <= Reach
  BY <1>1, <1>2, <1>3 DEF Reach
<1>5. r * SnapEvery \in Nat /\ (r + 1) * SnapEvery = r * SnapEvery + SnapEvery
  BY <1>1, <1>2
<1>6. n < MaxSettings => (n + 1) * Most <= Reach
  <2>1. n + 1 \in Nat /\ (n < MaxSettings => n + 1 <= MaxSettings)
    BY <1>1
  <2> QED BY <1>1, <1>3, <2>1 DEF Reach
<1>7. (r + 1) * SnapEvery <= TicksBeforeResync * SnapEvery
  <2>1. r + 1 \in Nat
    BY <1>1
  <2> QED BY <1>1, <1>3, <2>1
<1>8. /\ n < MaxSettings => (n + 1) * Most = n * Most + Most /\ n * Most + Most <= Reach
  BY <1>4, <1>6, Zenon
<1>9. r * SnapEvery + SnapEvery <= TicksBeforeResync * SnapEvery
  BY <1>5, <1>7, Zenon
<1> QED BY <1>4, <1>5, <1>8, <1>9, Zenon

\* The larger, and the smaller, of two numbers.
LEMMA AtLeastIs ==
  ASSUME NEW x \in Int, NEW lo \in Int
  PROVE  Display!AtLeast(x, lo) = IF x >= lo THEN x ELSE lo
BY DEF Display!AtLeast, Display!Max

LEMMA AtMostIs ==
  ASSUME NEW x \in Int, NEW hi \in Int
  PROVE  Display!AtMost(x, hi) = IF x <= hi THEN x ELSE hi
BY DEF Display!AtMost, Display!Min

\* A snapshot seen from a clock that has moved on by d.
LEMMA MovedIs ==
  ASSUME NEW snap \in [st : {"countdown", "racing", "finished"}, toGo : Int, ahead : Int], NEW d \in Int
  PROVE  LET m == Display!Moved(snap, d) IN
           /\ m \in [st : {"countdown", "racing", "finished"}, toGo : Int, ahead : Int]
           /\ m.st = snap.st
           /\ m.toGo = Display!AtLeast(snap.toGo - d, 0 - GoFlash)
           /\ m.ahead = IF snap.ahead - d >= 0 - 1 THEN snap.ahead - d ELSE 0 - 1
<1> DEFINE S == [st : {"countdown", "racing", "finished"}, toGo : Int, ahead : Int]
           t == Display!AtLeast(snap.toGo - d, 0 - GoFlash)
           a == Display!AtLeast(snap.ahead - d, 0 - 1)
           m == Display!Moved(snap, d)
<1>1. snap.toGo - d \in Int /\ snap.ahead - d \in Int /\ 0 - GoFlash \in Int /\ 0 - 1 \in Int
  BY DisplayConstants
<1>2. t \in Int
  BY <1>1, AtLeastIs
<1>3. a \in Int /\ a = IF snap.ahead - d >= 0 - 1 THEN snap.ahead - d ELSE 0 - 1
  BY <1>1, AtLeastIs
<1>4. m = [[snap EXCEPT !.toGo = t] EXCEPT !.ahead = a]
  BY DEF Display!Moved
<1> HIDE DEF m, t, a
<1>5. m \in S /\ m.st = snap.st /\ m.toGo = t /\ m.ahead = a
  BY <1>2, <1>3, <1>4
<1> QED BY <1>3, <1>5 DEF m, t

\* What is known of the display, its numbers by themselves.
LEMMA DisplayFacts ==
  ASSUME DisplayInv
  PROVE  /\ st \in {"countdown", "racing", "finished"} /\ tick \in 0..RaceTicks
         /\ left \in Int /\ since \in Int /\ since <= SnapEvery
         /\ newest \in [st : {"countdown", "racing", "finished"}, toGo : Int, ahead : Int]
         /\ newest.ahead \in Int /\ newest.toGo \in Int /\ newest.ahead >= 0 - 1
         /\ err \in Int /\ rejected \in 0..TicksBeforeResync - 1
         /\ quiet \in 0..SnapEvery + 1 /\ calm \in 0..Calm /\ settings \in 0..MaxSettings
BY DEF DisplayInv, DisplayTyped, Display!TypeOK

\* A sample on time is rejected, or leaves an error that is not worth rejecting.
LEMMA Folds ==
  ASSUME DisplayInv, Display!Clk!Fold(0)
  PROVE  /\ err' \in Int /\ rejected' \in 0..TicksBeforeResync - 1
         /\ \/ err' \in (0 - TicksReject)..TicksReject
            \/ err' = err /\ rejected' = rejected + 1 /\ err \notin (0 - TicksReject)..TicksReject
<1>1. err \in Int /\ rejected \in 0..TicksBeforeResync - 1 /\ TicksReject \in Nat /\ TicksBeforeResync \in Nat \ {0}
  BY DisplayFacts, DisplayConstants
<1>2. \/ Display!Clk!Dist(0, err) <= TicksReject /\ rejected' = 0 /\ err' \in Display!Clk!Average(err, 0)
      \/ /\ ~(Display!Clk!Dist(0, err) <= TicksReject) /\ rejected + 1 < TicksBeforeResync
         /\ rejected' = rejected + 1 /\ err' = err
      \/ rejected' = 0 /\ err' = 0
  BY DEF Display!Clk!Fold
<1>3. Display!Clk!Dist(0, err) <= TicksReject <=> err \in (0 - TicksReject)..TicksReject
  BY <1>1 DEF Display!Clk!Dist
<1>4. ASSUME err \in (0 - TicksReject)..TicksReject, err' \in Display!Clk!Average(err, 0)
      PROVE  err' \in (0 - TicksReject)..TicksReject
  BY <1>1, <1>4 DEF Display!Clk!Average, Display!Clk!Span
<1>5. 0 \in (0 - TicksReject)..TicksReject /\ 0 \in 0..TicksBeforeResync - 1
  BY <1>1
<1>6. (0 - TicksReject)..TicksReject \subseteq Int
  OBVIOUS
<1>7. rejected + 1 < TicksBeforeResync => rejected + 1 \in 0..TicksBeforeResync - 1
  BY <1>1
<1> QED BY <1>1, <1>2, <1>3, <1>4, <1>5, <1>6, <1>7, Zenon

\* An interval of the cadence takes no longer than from one snapshot to the next.
LEMMA OneMoreInterval ==
  ASSUME NEW c \in Int, NEW d \in Int, NEW all \in Nat, NEW spent \in Nat,
         NEW every \in Nat \ {0}, NEW s \in Int,
         s <= every, c - all <= spent + s, d <= c \/ (d <= c + 1 /\ (s < every \/ c = 0))
  PROVE  d - all <= spent + every
OBVIOUS

\* A snapshot that is sent now shows the hub's state, unless the client holds one from the
\* future, of before the last setting. What the client holds, and how long the clock has
\* been left alone, are those of after the step.
LEMMA Sends ==
  ASSUME DisplayInv,
         NEW held \in [st : {"countdown", "racing", "finished"}, toGo : Int, ahead : Int],
         Display!Broadcast(Display!Snap', held),
         st' \in {"countdown", "racing", "finished"}, tick' \in 0..RaceTicks, left' \in Int,
         settings' = settings, calm' \in 0..Calm,
         \/ calm' <= calm /\ calm \in 0..Calm
         \/ calm' <= calm + 1 /\ (since < SnapEvery \/ calm = 0),
         st' = "racing" => tick' < RaceTicks, held.ahead >= 0 - 1,
         \/ held.ahead < 0
         \/ held.ahead <= settings * Most - calm'
         \/ held.ahead = 0 /\ held.st = st' /\ (st' = "countdown" => held.toGo = left')
  PROVE  DisplayInv'
<1> DEFINE moved == settings * Most
           spent == rejected * SnapEvery
           S == [st : {"countdown", "racing", "finished"}, toGo : Int, ahead : Int]
<1>1. /\ since \in Int /\ since <= SnapEvery /\ err \in Int /\ rejected \in 0..TicksBeforeResync - 1
      /\ calm \in 0..Calm /\ settings \in 0..MaxSettings
  BY DisplayFacts
<1>2. /\ since' = 0 /\ quiet' = 0 /\ Display!Clk!Fold(0)
      /\ newest' = IF held.ahead >= 0 THEN held ELSE Display!Snap'
  BY DEF Display!Broadcast
<1>3. /\ moved \in Nat /\ moved <= Reach /\ spent \in Nat
      /\ (rejected + 1) * SnapEvery = spent + SnapEvery
  BY <1>1, Shares
<1>4. /\ SnapEvery \in Nat \ {0} /\ TicksReject \in Nat /\ Reach \in Nat /\ Calm \in Nat \ {0}
      /\ TicksBeforeResync \in Nat \ {0} /\ MaxSettings \in Nat
  BY DisplayConstants
<1>5. calm' \in Int /\ calm \in Int /\ held.ahead \in Int
  BY <1>1
<1>6. newest' \in S /\ newest'.ahead >= 0 - 1
  <2>1. Display!Snap' = [st |-> st', toGo |-> left', ahead |-> 0]
    BY DEF Display!Snap
  <2>2. Display!Snap' \in S /\ Display!Snap'.ahead >= 0 - 1
    BY <2>1
  <2> QED BY <1>2, <2>2
<1>7. Current' \/ (newest' = held /\ held.ahead >= 0 /\ held.ahead <= moved - calm')
  <2>1. CASE held.ahead >= 0
    <3>1. newest' = held
      BY <1>2, <2>1
    <3>2. ~(held.ahead < 0)
      BY <1>5, <2>1
    <3> QED BY <2>1, <3>1, <3>2 DEF Current
  <2>2. CASE ~(held.ahead >= 0)
    <3>1. newest' = [st |-> st', toGo |-> left', ahead |-> 0]
      BY <1>2, <2>2 DEF Display!Snap
    <3> QED BY <3>1 DEF Current
  <2> QED BY <2>1, <2>2
<1>8. newest'.ahead < 0 \/ newest'.ahead <= moved - calm' \/ (newest'.ahead = 0 /\ Current')
  <2>1. CASE held.ahead >= 0
    <3>1. newest' = held /\ ~(held.ahead < 0)
      BY <1>2, <1>5, <2>1
    <3> QED BY <3>1 DEF Current
  <2>2. CASE ~(held.ahead >= 0)
    <3>1. newest' = [st |-> st', toGo |-> left', ahead |-> 0]
      BY <1>2, <2>2 DEF Display!Snap
    <3> QED BY <3>1 DEF Current
  <2> QED BY <2>1, <2>2
<1>9. Current' \/ calm' <= Reach \/ since' >= calm' - Reach
  <2> HIDE DEF moved
  <2> QED BY <1>3, <1>4, <1>5, <1>7
<1>10. /\ err' \in Int /\ rejected' \in 0..TicksBeforeResync - 1
       /\ \/ err' \in (0 - TicksReject)..TicksReject
          \/ err' = err /\ rejected' = rejected + 1 /\ err \notin (0 - TicksReject)..TicksReject
  BY <1>2, Folds
<1>11. err' \in (0 - TicksReject)..TicksReject \/ calm' - Reach <= rejected' * SnapEvery + since'
  <2>1. ASSUME rejected' = rejected + 1, err \notin (0 - TicksReject)..TicksReject
        PROVE  calm' - Reach <= rejected' * SnapEvery + since'
    <3>1. calm - Reach <= spent + since
      BY <2>1 DEF DisplayInv
    <3>2. rejected' * SnapEvery = spent + SnapEvery
      BY <1>3, <2>1
    <3> HIDE DEF spent
    <3>3. calm' - Reach <= spent + SnapEvery
      <4>1. calm' <= calm \/ (calm' <= calm + 1 /\ (since < SnapEvery \/ calm = 0))
        OBVIOUS
      <4>2. SnapEvery \in Nat \ {0} /\ Reach \in Nat /\ spent \in Nat /\ since \in Int
            /\ since <= SnapEvery /\ calm \in Int /\ calm' \in Int
        BY <1>1, <1>3, <1>4, <1>5
      <4> QED BY <3>1, <4>1, <4>2, OneMoreInterval
    <3>4. spent + SnapEvery = spent + SnapEvery + since'
      BY <1>2, <1>3, <1>4
    <3> QED BY <3>2, <3>3, <3>4
  <2> QED BY <1>10, <2>1
<1>12. since' < SnapEvery /\ since' <= SnapEvery /\ since' \in Int /\ quiet' = since'
       /\ quiet' \in 0..SnapEvery + 1
  BY <1>2, <1>4
<1>13. Display!TypeOK'
  <2>1. newest'.st \in {"countdown", "racing", "finished"}
    BY <1>6
  <2>2. settings' \in 0..MaxSettings
    BY <1>1
  <2> QED BY <1>6, <1>10, <1>12, <2>1, <2>2 DEF Display!TypeOK
<1>14. settings' * Most = moved
  OBVIOUS
<1> HIDE DEF moved, spent
<1> QED BY <1>6, <1>8, <1>9, <1>11, <1>12, <1>13, <1>14 DEF DisplayInv, DisplayTyped

\* At the beginning the clock has never been set.
LEMMA DisplayBegins == Display!Init => DisplayInv
<1> SUFFICES ASSUME Display!Init PROVE DisplayInv
  OBVIOUS
<1>1. /\ Countdown \in Int /\ SnapEvery \in Nat \ {0} /\ Calm \in Nat \ {0} /\ MaxSettings \in Nat
      /\ TicksReject \in Nat /\ TicksBeforeResync \in Nat \ {0} /\ RaceTicks \in Nat \ {0}
  BY DisplayConstants
<1>2. /\ st = "countdown" /\ left = Countdown /\ tick = 0 /\ since = 0 /\ err = 0 /\ rejected = 0
      /\ quiet = 0 /\ calm = Calm /\ settings = 0 /\ newest = [st |-> st, toGo |-> left, ahead |-> 0]
  BY DEF Display!Init, Display!Snap
<1>3. newest.st = st /\ newest.toGo = left /\ newest.ahead = 0
      /\ newest \in [st : {"countdown", "racing", "finished"}, toGo : Int, ahead : Int]
  BY <1>1, <1>2
<1>4. Current
  BY <1>3 DEF Current
<1>5. /\ 0 \in Int /\ 0 <= SnapEvery /\ 0 < SnapEvery /\ 0 \in 0..RaceTicks /\ 0 < RaceTicks /\ 0 \in 0..TicksBeforeResync - 1
      /\ 0 \in 0..SnapEvery + 1 /\ Calm \in 0..Calm /\ 0 \in 0..MaxSettings /\ 0 >= 0 - 1
      /\ 0 \in (0 - TicksReject)..TicksReject
  BY <1>1
<1>6. DisplayTyped
  BY <1>1, <1>2, <1>3, <1>5 DEF DisplayTyped, Display!TypeOK
<1> QED BY <1>2, <1>3, <1>4, <1>5, <1>6, Zenon DEF DisplayInv

\* A snapshot is ahead by no more than before and what the clock was set back.
LEMMA AheadMoves ==
  ASSUME NEW a \in Int, NEW b \in Int, NEW d \in Int, NEW most \in Nat, NEW moved \in Nat,
         0 - most <= d, d <= most, a <= 0 \/ a <= moved,
         b = IF a - d >= 0 - 1 THEN a - d ELSE 0 - 1
  PROVE  b >= 0 - 1 /\ (b < 0 \/ b <= moved + most)
OBVIOUS

\* Setting the clock moves the times by no more than a setting does.
LEMMA DisplaySets ==
  ASSUME DisplayInv, NEW d \in Settings, Display!SetClock(d)
  PROVE  DisplayInv'
<1> DEFINE moved == settings * Most
           spent == rejected * SnapEvery
<1>1. /\ st \in {"countdown", "racing", "finished"} /\ tick \in 0..RaceTicks
      /\ left \in Int /\ since \in Int /\ since <= SnapEvery
      /\ newest \in [st : {"countdown", "racing", "finished"}, toGo : Int, ahead : Int]
      /\ newest.ahead \in Int /\ newest.ahead >= 0 - 1
      /\ err \in Int /\ rejected \in 0..TicksBeforeResync - 1
      /\ quiet \in 0..SnapEvery + 1 /\ calm \in 0..Calm /\ settings \in 0..MaxSettings
  BY DisplayFacts
<1>2. /\ settings < MaxSettings /\ settings' = settings + 1 /\ calm' = 0
      /\ left' = Display!AtLeast(left - d, 0 - GoFlash)
      /\ since' = Display!AtMost(since + d, SnapEvery)
      /\ newest' = Display!Moved(newest, d) /\ err' = err - d
      /\ st' = st /\ tick' = tick /\ rejected' = rejected /\ quiet' = quiet
  BY DEF Display!SetClock
<1>3. d \in Int /\ 0 - Most <= d /\ d <= Most /\ Most \in Nat /\ SnapEvery \in Nat \ {0} /\ Reach \in Nat
      /\ GoFlash \in Nat /\ MaxSettings \in Nat /\ Calm \in Nat
  BY DisplayConstants
<1>4. /\ moved \in Nat /\ spent \in Nat
      /\ settings' * Most = moved + Most /\ moved + Most <= Reach
  BY <1>1, <1>2, Shares
<1>5. since' \in Int /\ since' <= SnapEvery /\ (since' >= since + d \/ since' = SnapEvery)
  <2>1. since + d \in Int /\ SnapEvery \in Int
    BY <1>1, <1>3
  <2>2. since' = IF since + d <= SnapEvery THEN since + d ELSE SnapEvery
    BY <1>2, <2>1, AtMostIs, Zenon
  <2> QED BY <2>1, <2>2
<1>6. left' \in Int
  <2>1. left - d \in Int /\ 0 - GoFlash \in Int
    BY <1>1, <1>3
  <2>2. left' = IF left - d >= 0 - GoFlash THEN left - d ELSE 0 - GoFlash
    BY <1>2, <2>1, AtLeastIs, Zenon
  <2> QED BY <2>1, <2>2
<1>7. /\ newest' \in [st : {"countdown", "racing", "finished"}, toGo : Int, ahead : Int]
      /\ newest'.ahead = IF newest.ahead - d >= 0 - 1 THEN newest.ahead - d ELSE 0 - 1
  BY <1>1, <1>2, <1>3, MovedIs
<1>8. newest'.ahead >= 0 - 1 /\ (newest'.ahead < 0 \/ newest'.ahead <= moved + Most)
  <2>1. newest.ahead <= 0 \/ newest.ahead <= moved
    <3>1. newest.ahead < 0 \/ newest.ahead <= moved - calm \/ newest.ahead = 0
      BY DEF DisplayInv
    <3> HIDE DEF moved
    <3> QED BY <1>1, <1>4, <3>1
  <2>2. newest.ahead \in Int /\ newest'.ahead \in Int
        /\ newest'.ahead = IF newest.ahead - d >= 0 - 1 THEN newest.ahead - d ELSE 0 - 1
    BY <1>1, <1>7
  <2> HIDE DEF moved
  <2> QED BY <1>3, <1>4, <2>1, <2>2, AheadMoves
<1>9. since' >= 0 - (moved + Most) /\ since' >= 0 - Reach
  <2>1. since >= 0 - moved
    <3>1. quiet = since \/ since >= calm - moved
      BY DEF DisplayInv
    <3> HIDE DEF moved
    <3> QED BY <1>1, <1>3, <1>4, <3>1
  <2> HIDE DEF moved
  <2> QED BY <1>1, <1>3, <1>4, <1>5, <2>1
<1>10. err' \in Int /\ settings' \in 0..MaxSettings /\ calm' \in 0..Calm
  BY <1>1, <1>2, <1>3
<1>11. DisplayTyped'
  <2>1. newest'.st \in {"countdown", "racing", "finished"}
    BY <1>7
  <2>2. Display!TypeOK'
    BY <1>1, <1>2, <1>5, <1>6, <1>8, <1>10, <2>1 DEF Display!TypeOK
  <2>3. (st = "racing" => tick < RaceTicks)'
    BY <1>2 DEF DisplayInv, DisplayTyped
  <2> QED BY <1>7, <2>2, <2>3 DEF DisplayTyped
<1>12. /\ since' >= calm' - settings' * Most
       /\ newest'.ahead < 0 \/ newest'.ahead <= settings' * Most - calm'
       /\ calm' <= Reach
       /\ calm' - Reach <= rejected' * SnapEvery + since'
  <2>1. rejected' * SnapEvery = spent
    BY <1>2
  <2>2. newest'.ahead \in Int
    BY <1>7
  <2> HIDE DEF moved, spent
  <2>3. since' >= 0 - (moved + Most) /\ (newest'.ahead < 0 \/ newest'.ahead <= (moved + Most) - 0)
    BY <1>3, <1>4, <1>8, <1>9, <2>2
  <2>4. 0 <= Reach /\ 0 - Reach <= spent + since'
    <3>1. \A r, s \in Nat, t \in Int : t >= 0 - r => 0 <= r /\ 0 - r <= s + t
      OBVIOUS
    <3> QED BY <1>3, <1>4, <1>5, <1>9, <3>1, Zenon
  <2>5. calm' = 0 /\ settings' * Most = moved + Most
    BY <1>2, <1>4
  <2>6. 0 - (moved + Most) = calm' - settings' * Most
    BY <2>5, Zenon
  <2>7. (moved + Most) - 0 = settings' * Most - calm'
    BY <2>5, Zenon
  <2> QED BY <2>1, <2>3, <2>4, <2>5, <2>6, <2>7, Zenon
<1> HIDE DEF moved, spent
<1> QED BY <1>2, <1>11, <1>12 DEF DisplayInv

\* A snapshot from the future comes nearer with every unit of time.
LEMMA AheadNears ==
  ASSUME NEW a \in Int, NEW b \in Int, NEW c \in Int, NEW d \in Int, NEW moved \in Nat,
         d <= c + 1, a <= 0 \/ a <= moved - c,
         b = IF a - 1 >= 0 - 1 THEN a - 1 ELSE 0 - 1
  PROVE  b >= 0 - 1 /\ (b < 0 \/ b <= moved - d)
OBVIOUS

\* A tick without a snapshot brings everything one unit nearer.
LEMMA Waits ==
  ASSUME DisplayInv,
         since' = since + 1, ~(since + 1 >= SnapEvery),
         quiet' = Display!AtMost(quiet + 1, SnapEvery + 1), calm' = Display!AtMost(calm + 1, Calm),
         newest' = Display!Moved(newest, 1), err' = err, rejected' = rejected, settings' = settings,
         st' = st, left' = Display!AtLeast(left - 1, 0 - GoFlash),
         tick' \in 0..RaceTicks, st = "racing" => tick' < RaceTicks
  PROVE  DisplayInv'
<1> DEFINE moved == settings * Most
           spent == rejected * SnapEvery
<1>1. /\ st \in {"countdown", "racing", "finished"} /\ tick \in 0..RaceTicks
      /\ left \in Int /\ since \in Int /\ since <= SnapEvery
      /\ newest \in [st : {"countdown", "racing", "finished"}, toGo : Int, ahead : Int]
      /\ newest.ahead \in Int /\ newest.ahead >= 0 - 1 /\ newest.toGo \in Int
      /\ err \in Int /\ rejected \in 0..TicksBeforeResync - 1
      /\ quiet \in 0..SnapEvery + 1 /\ calm \in 0..Calm /\ settings \in 0..MaxSettings
  BY DisplayFacts
<1>2. SnapEvery \in Nat \ {0} /\ Reach \in Nat /\ GoFlash \in Nat /\ MaxSettings \in Nat /\ Calm \in Nat
  BY DisplayConstants
<1>3. moved \in Nat /\ spent \in Nat /\ moved <= Reach
  BY <1>1, Shares
<1>4. calm' \in 0..Calm /\ calm' <= calm + 1
  <2>1. calm + 1 \in Int /\ Calm \in Int
    BY <1>1, <1>2
  <2>2. calm' = IF calm + 1 <= Calm THEN calm + 1 ELSE Calm
    BY <2>1, AtMostIs, Zenon
  <2> QED BY <1>1, <1>2, <2>2
<1>5. quiet' \in 0..SnapEvery + 1 /\ (quiet = since => quiet' = since')
  <2>1. quiet + 1 \in Int /\ SnapEvery + 1 \in Int
    BY <1>1, <1>2
  <2>2. quiet' = IF quiet + 1 <= SnapEvery + 1 THEN quiet + 1 ELSE SnapEvery + 1
    BY <2>1, AtMostIs, Zenon
  <2> QED BY <1>1, <1>2, <2>2
<1>6. left' \in Int
  <2>1. left - 1 \in Int /\ 0 - GoFlash \in Int
    BY <1>1, <1>2
  <2>2. left' = IF left - 1 >= 0 - GoFlash THEN left - 1 ELSE 0 - GoFlash
    BY <2>1, AtLeastIs, Zenon
  <2> QED BY <2>1, <2>2
<1>7. /\ newest' \in [st : {"countdown", "racing", "finished"}, toGo : Int, ahead : Int]
      /\ newest'.st = newest.st /\ newest'.toGo = Display!AtLeast(newest.toGo - 1, 0 - GoFlash)
      /\ newest'.ahead = IF newest.ahead - 1 >= 0 - 1 THEN newest.ahead - 1 ELSE 0 - 1
  <2>1. 1 \in Int
    OBVIOUS
  <2> QED BY <1>1, <2>1, MovedIs
<1>8. Current => Current'
  <2> SUFFICES ASSUME Current PROVE newest'.st = st' /\ (st' = "countdown" => newest'.toGo = left')
    BY DEF Current
  <2>1. newest.st = st /\ (st = "countdown" => newest.toGo = left)
    BY DEF Current
  <2> QED BY <1>7, <2>1
<1>9. newest'.ahead >= 0 - 1 /\ (newest'.ahead < 0 \/ newest'.ahead <= moved - calm')
  <2>1. newest.ahead <= 0 \/ newest.ahead <= moved - calm
    <3>1. newest.ahead < 0 \/ newest.ahead <= moved - calm \/ newest.ahead = 0
      BY DEF DisplayInv
    <3> HIDE DEF moved
    <3> QED BY <1>1, <3>1
  <2>2. newest'.ahead \in Int /\ calm \in Int /\ calm' \in Int
    BY <1>1, <1>4, <1>7
  <2> HIDE DEF moved
  <2> QED BY <1>1, <1>3, <1>4, <1>7, <2>1, <2>2, AheadNears
<1>10. quiet' = since' \/ since' >= calm' - moved
  <2>1. quiet = since \/ since >= calm - moved
    BY DEF DisplayInv
  <2> HIDE DEF moved
  <2>2. since >= calm - moved => since + 1 >= calm' - moved
    BY <1>1, <1>3, <1>4
  <2> QED BY <1>5, <2>1, <2>2
<1>11. Current' \/ calm' <= Reach \/ since' >= calm' - Reach
  <2>1. Current \/ calm <= Reach \/ since >= calm - Reach
    BY DEF DisplayInv
  <2>2. quiet = since \/ since >= calm - moved
    BY DEF DisplayInv
  <2> HIDE DEF moved
  <2>3. calm <= Reach => calm' <= Reach \/ since + 1 >= calm' - Reach
    BY <1>1, <1>2, <1>3, <1>4, <2>2
  <2>4. since >= calm - Reach => since + 1 >= calm' - Reach
    BY <1>1, <1>2, <1>4
  <2> QED BY <1>8, <2>1, <2>3, <2>4
<1>12. err' \in (0 - TicksReject)..TicksReject \/ calm' - Reach <= rejected' * SnapEvery + since'
  <2>1. err \in (0 - TicksReject)..TicksReject \/ calm - Reach <= spent + since
    BY DEF DisplayInv
  <2>2. rejected' * SnapEvery = spent
    OBVIOUS
  <2> HIDE DEF spent
  <2>3. calm - Reach <= spent + since => calm' - Reach <= spent + (since + 1)
    BY <1>1, <1>2, <1>3, <1>4
  <2> QED BY <2>1, <2>2, <2>3
<1>13. since' \in Int /\ since' < SnapEvery /\ since' <= SnapEvery
  BY <1>1, <1>2
<1>14. DisplayTyped'
  <2>1. newest'.st \in {"countdown", "racing", "finished"}
    BY <1>7
  <2>2. Display!TypeOK'
    BY <1>1, <1>4, <1>5, <1>6, <1>9, <1>13, <2>1 DEF Display!TypeOK
  <2> QED BY <1>7, <2>2 DEF DisplayTyped
<1>15. settings' * Most = moved
  OBVIOUS
<1> HIDE DEF moved, spent
<1> QED BY <1>9, <1>10, <1>11, <1>12, <1>13, <1>14, <1>15 DEF DisplayInv

\* A tick sends a snapshot or does not, and may pass from one phase to the next.
LEMMA DisplayTicks == ASSUME DisplayInv, Display!Tick PROVE DisplayInv'
<1> DEFINE time == Display!AtLeast(left - 1, 0 - GoFlash)
           held == Display!Moved(newest, 1)
<1>1. /\ st \in {"countdown", "racing", "finished"} /\ tick \in 0..RaceTicks
      /\ left \in Int /\ since \in Int
      /\ newest \in [st : {"countdown", "racing", "finished"}, toGo : Int, ahead : Int]
      /\ newest.ahead \in Int /\ newest.ahead >= 0 - 1 /\ newest.toGo \in Int
      /\ calm \in 0..Calm /\ settings \in 0..MaxSettings /\ (st = "racing" => tick < RaceTicks)
  BY DisplayFacts DEF DisplayInv, DisplayTyped
<1>2. /\ GoFlash \in Nat /\ Calm \in Nat /\ Results \in Nat \ {0} /\ Countdown \in Nat \ {0}
      /\ RaceTicks \in Nat \ {0} /\ MaxSettings \in Nat /\ Most \in Nat
  BY DisplayConstants
<1>3. calm' = Display!AtMost(calm + 1, Calm) /\ settings' = settings
  BY DEF Display!Tick
<1>4. calm' \in 0..Calm /\ calm' <= calm + 1
  <2>1. calm + 1 \in Int /\ Calm \in Int
    BY <1>1, <1>2
  <2>2. calm' = IF calm + 1 <= Calm THEN calm + 1 ELSE Calm
    BY <1>3, <2>1, AtMostIs, Zenon
  <2> QED BY <1>1, <1>2, <2>2
<1>5. time \in Int
  <2>1. left - 1 \in Int /\ 0 - GoFlash \in Int
    BY <1>1, <1>2
  <2>2. time = IF left - 1 >= 0 - GoFlash THEN left - 1 ELSE 0 - GoFlash
    BY <2>1, AtLeastIs, Zenon
  <2> HIDE DEF time
  <2> QED BY <2>1, <2>2
<1>6. /\ held \in [st : {"countdown", "racing", "finished"}, toGo : Int, ahead : Int]
      /\ held.ahead = IF newest.ahead - 1 >= 0 - 1 THEN newest.ahead - 1 ELSE 0 - 1
  <2>1. 1 \in Int
    OBVIOUS
  <2> HIDE DEF held
  <2> QED BY <1>1, <2>1, MovedIs DEF held
<1>7. held.ahead >= 0 - 1 /\ (held.ahead < 0 \/ held.ahead <= settings * Most - calm')
  <2> DEFINE moved == settings * Most
  <2>1. moved \in Nat
    BY <1>1, <1>2
  <2>2. newest.ahead <= 0 \/ newest.ahead <= moved - calm
    <3>1. newest.ahead < 0 \/ newest.ahead <= moved - calm \/ newest.ahead = 0
      BY DEF DisplayInv
    <3> HIDE DEF moved
    <3> QED BY <1>1, <3>1
  <2> HIDE DEF held
  <2>3. held.ahead \in Int /\ calm \in Int /\ calm' \in Int
    BY <1>1, <1>4, <1>6
  <2> HIDE DEF moved
  <2>4. held.ahead >= 0 - 1 /\ (held.ahead < 0 \/ held.ahead <= moved - calm')
    BY <1>1, <1>4, <1>6, <2>1, <2>2, <2>3, AheadNears
  <2> QED BY <2>4 DEF moved
<1>8. since < SnapEvery \/ calm = 0
  BY DEF DisplayInv
<1> HIDE DEF held, time
<1>9. ASSUME NEW next \in {"countdown", "racing", "finished"}, NEW t \in Int, Display!Flip(next, t),
             tick' \in 0..RaceTicks, next = "racing" => tick' < RaceTicks
      PROVE  DisplayInv'
  <2>1. st' = next /\ left' = t /\ Display!Broadcast(Display!Snap', held)
    BY <1>9 DEF Display!Flip, held
  <2>2. /\ st' \in {"countdown", "racing", "finished"} /\ left' \in Int
        /\ st' = "racing" => tick' < RaceTicks
    BY <1>9, <2>1
  <2> QED BY <1>3, <1>4, <1>6, <1>7, <1>8, <1>9, <2>1, <2>2, Sends
<1>10. ASSUME Display!Stay(time), tick' \in 0..RaceTicks, st = "racing" => tick' < RaceTicks
       PROVE  DisplayInv'
  <2>1. st' = st /\ left' = time /\ Display!MaybeSnapshot
    BY <1>10 DEF Display!Stay
  <2>2. CASE since + 1 >= SnapEvery
    <3>1. Display!Broadcast(Display!Snap', held)
      BY <2>1, <2>2 DEF Display!MaybeSnapshot, held
    <3>2. /\ st' \in {"countdown", "racing", "finished"} /\ left' \in Int
          /\ st' = "racing" => tick' < RaceTicks
      BY <1>1, <1>5, <1>10, <2>1
    <3> QED BY <1>3, <1>4, <1>6, <1>7, <1>8, <1>10, <3>1, <3>2, Sends
  <2>3. CASE ~(since + 1 >= SnapEvery)
    <3>1. /\ since' = since + 1 /\ quiet' = Display!AtMost(quiet + 1, SnapEvery + 1)
          /\ newest' = Display!Moved(newest, 1) /\ err' = err /\ rejected' = rejected
      BY <2>1, <2>3 DEF Display!MaybeSnapshot
    <3>2. left' = Display!AtLeast(left - 1, 0 - GoFlash)
      BY <2>1 DEF time
    <3> QED BY <1>3, <1>10, <2>1, <2>3, <3>1, <3>2, Waits
  <2> QED BY <2>2, <2>3
<1>11. 0 \in 0..RaceTicks /\ 0 < RaceTicks /\ (st = "racing" => tick + 1 \in 0..RaceTicks)
       /\ Results \in Int /\ Countdown \in Int
  BY <1>1, <1>2
<1>12. CASE st = "countdown" /\ tick' = 0
            /\ IF Display!Due(time) THEN Display!Flip("racing", time) ELSE Display!Stay(time)
  BY <1>5, <1>9, <1>10, <1>11, <1>12
<1>13. CASE /\ st = "racing" /\ tick' = tick + 1
            /\ \/ Display!Flip("finished", Results)
               \/ Display!RaceGoesOn(time)
  BY <1>9, <1>10, <1>11, <1>13 DEF Display!RaceGoesOn
<1>14. CASE st = "finished" /\ tick' = 0
            /\ IF Display!Due(time) THEN Display!Flip("countdown", Countdown) ELSE Display!Stay(time)
  BY <1>9, <1>10, <1>11, <1>14
<1> QED BY <1>12, <1>13, <1>14 DEF Display!Tick, time

\* A snapshot out of turn shows what the hub's next one would.
LEMMA DisplayRebroadcasts == ASSUME DisplayInv, Display!Rebroadcast PROVE DisplayInv'
<1>1. /\ st' = st /\ left' = left /\ tick' = tick /\ calm' = calm /\ settings' = settings
      /\ Display!Broadcast(Display!Snap, newest)
  BY DEF Display!Rebroadcast
<1>2. Display!Snap' = Display!Snap
  BY <1>1 DEF Display!Snap
<1>3. Display!Broadcast(Display!Snap', newest)
  BY <1>1, <1>2
<1>4. /\ st \in {"countdown", "racing", "finished"} /\ tick \in 0..RaceTicks /\ left \in Int
      /\ newest \in [st : {"countdown", "racing", "finished"}, toGo : Int, ahead : Int]
      /\ newest.ahead >= 0 - 1 /\ calm \in 0..Calm /\ (st = "racing" => tick < RaceTicks)
  BY DisplayFacts DEF DisplayInv, DisplayTyped
<1>5. /\ st' \in {"countdown", "racing", "finished"} /\ tick' \in 0..RaceTicks /\ left' \in Int
      /\ calm' \in 0..Calm /\ (st' = "racing" => tick' < RaceTicks) /\ calm' <= calm
  BY <1>1, <1>4
<1>6. \/ newest.ahead < 0
      \/ newest.ahead <= settings * Most - calm'
      \/ newest.ahead = 0 /\ newest.st = st' /\ (st' = "countdown" => newest.toGo = left')
  BY <1>1, Zenon DEF DisplayInv, Current
<1> QED BY <1>1, <1>3, <1>4, <1>5, <1>6, Sends

\* Every step of the display keeps its invariant.
LEMMA DisplayNext == DisplayInv /\ [Display!Next]_(Display!vars) => DisplayInv'
<1> SUFFICES ASSUME DisplayInv, [Display!Next]_(Display!vars) PROVE DisplayInv'
  OBVIOUS
<1>1. CASE UNCHANGED Display!vars
  BY <1>1 DEF Display!vars, DisplayInv, DisplayTyped, Current, Display!TypeOK
<1> QED BY <1>1, DisplayTicks, DisplayRebroadcasts, DisplaySets DEF Display!Next

\* The invariant of the display holds in every behaviour of it.
LEMMA DisplayInvariance == DisplaySafety => []DisplayInv
BY DisplayBegins, DisplayNext, PTL DEF DisplaySafety

\* The number shown is the time left, off by the error of the client's clock.
LEMMA ShownIs ==
  ASSUME NEW r \in Int, newest.toGo - err = r, newest.st = "countdown"
  PROVE  Display!Shown = IF r > 0
                           THEN Display!AtLeast(Display!AtMost(Display!CeilDiv(r, Second), 3), 1)
                           ELSE 0
<1> DEFINE c == Display!CeilDiv(r, Second)
<1>1. Display!Shown = IF r > 0 THEN Display!Number(r) ELSE 0
  BY DEF Display!Shown
<1>2. Display!Number(r) = Display!AtLeast(Display!AtMost(c, 3), 1)
  <2>1. {3, c} = {c, 3}
    OBVIOUS
  <2>2. \A m : {1, m} = {m, 1}
    OBVIOUS
  <2> HIDE DEF c
  <2>3. Display!Number(r) = Display!Max({1, Display!Min({3, c})})
    BY DEF Display!Number, c
  <2> QED BY <2>1, <2>2, <2>3, Zenon DEF Display!AtLeast, Display!AtMost
<1> QED BY <1>1, <1>2

\* However the clock was set, once it has been left alone long enough the client sees the hub's
\* state, its snapshots come in their cadence, and the number it shows is the time left, but
\* for an error of its clock that is not worth rejecting (hub.go's maybeSnapshot, DeriveHUD).
THEOREM DisplaySettles == DisplaySafety => []Display!Settles
<1>1. DisplayInv => Display!Settles
  <2> SUFFICES ASSUME DisplayInv, calm = Calm
               PROVE  /\ quiet <= SnapEvery
                      /\ newest.st = st
                      /\ st = "countdown" =>
                           \E e \in (0 - TicksReject)..TicksReject :
                             Display!Shown = IF left - e > 0
                               THEN Display!AtLeast(Display!AtMost(Display!CeilDiv(left - e, Second), 3), 1)
                               ELSE 0
    BY DEF Display!Settles
  <2> DEFINE moved == settings * Most
             spent == rejected * SnapEvery
             all == TicksBeforeResync * SnapEvery
  <2>1. /\ since \in Int /\ left \in Int /\ newest.toGo \in Int /\ err \in Int
        /\ rejected \in 0..TicksBeforeResync - 1 /\ settings \in 0..MaxSettings /\ quiet \in 0..SnapEvery + 1
    BY DisplayFacts
  <2>2. moved \in Nat /\ moved <= Reach /\ spent \in Nat /\ spent + SnapEvery <= all
    BY <2>1, Shares
  <2>3. Calm \in Nat \ {0} /\ SnapEvery \in Nat \ {0} /\ Reach \in Nat /\ all \in Nat /\ Calm >= Reach + all
        /\ TicksReject \in Nat
    BY DisplayConstants
  <2>4. /\ since < SnapEvery \/ calm = 0
        /\ quiet = since \/ since >= calm - moved
        /\ Current \/ calm <= Reach \/ since >= calm - Reach
        /\ err \in (0 - TicksReject)..TicksReject \/ calm - Reach <= spent + since
    BY DEF DisplayInv
  <2> HIDE DEF moved, spent, all
  <2>5. since < SnapEvery
    BY <2>3, <2>4
  <2>6. quiet <= SnapEvery
    BY <2>1, <2>2, <2>3, <2>4, <2>5
  <2>7. Current
    BY <2>1, <2>2, <2>3, <2>4, <2>5
  <2>8. err \in (0 - TicksReject)..TicksReject
    BY <2>1, <2>2, <2>3, <2>4, <2>5
  <2>9. ASSUME st = "countdown"
        PROVE  Display!Shown = IF left - err > 0
                 THEN Display!AtLeast(Display!AtMost(Display!CeilDiv(left - err, Second), 3), 1)
                 ELSE 0
    <3>1. newest.st = "countdown" /\ newest.toGo - err = left - err /\ left - err \in Int
      BY <2>1, <2>7, <2>9 DEF Current
    <3> QED BY <3>1, ShownIs
  <2> QED BY <2>6, <2>7, <2>8, <2>9 DEF Current
<1> QED BY <1>1, DisplayInvariance, PTL

-----------------------------------------------------------------------------
(* Player: the inductive invariant *)

PlayerName == {n \in Seq(Bases \cup Nat) : n # <<>>}
Named(n) == n \in PlayerName /\ n[1] = picked

\* What the model keeps of a connection.
ConnRec ==
  [alive : BOOLEAN, reads : BOOLEAN, inbox : Seq({"welcome", "snapshot", "error"}), snaps : 0..RingLen,
   err : {"none", "lost", "fatal"}, server : {"accepted", "asked", "session", "gone"},
   join : PlayerName, name : PlayerName \cup {None}]

PlayerTyped ==
  /\ conns \in Seq(ConnRec)
  /\ net \in 1..Len(conns) \cup {None} /\ dialed \in 1..Len(conns) \cup {None}
  /\ fatal \in BOOLEAN /\ up \in BOOLEAN
  /\ dial \in {"none", "dialing", "joining", "failed", "joined"}
  /\ attempts \in Nat /\ wait \in 0..MaxDelay
  /\ ring \in Seq(1..Len(conns)) /\ Len(ring) <= RingLen
  /\ picked \in Bases /\ (sess # None => Named(sess))
  /\ faults \in 0..MaxFaults /\ othersJoined \in 0..MaxOthers /\ IsFiniteSet(others)

\* An attempt is under way only while no connection is in use, and both are the last one made.
AttemptInv ==
  /\ dialed # None <=> dial \in {"joining", "joined"}
  /\ dial # "none" => net = None /\ ~fatal /\ Named(dialName)
  /\ net # None => net = Len(conns)
  /\ dialed # None => dialed = Len(conns)

\* Nobody lives but the connection in use and the one of the attempt; one that failed is
\* closed; an error frame comes from a server that has let go of the player.
ConnInv(i, c) ==
  /\ Named(c.join) /\ (c.name # None => Named(c.name))
  /\ c.alive => i \in {net, dialed}
  /\ c.err # "none" => ~c.alive /\ ~c.reads
  /\ c.err = "fatal" \/ (\E k \in 1..Len(c.inbox) : c.inbox[k] = "error")
       => c.server = "gone" /\ c.name = None
  /\ c.server \in {"accepted", "asked"} => c.name = None /\ c.inbox = <<>>
  /\ c.server = "session" => up
  /\ dial = "joining" /\ dialed = i => c.server \in {"accepted", "gone"} /\ c.inbox = <<>>
                                       /\ c.err = "none" /\ c.name = None /\ ~c.reads

ConnsInv == \A i \in 1..Len(conns) : ConnInv(i, conns[i])

\* The game is over: the last connection was refused.
EndInv == fatal =>
  /\ net = None /\ conns # <<>>
  /\ conns[Len(conns)].server = "gone" /\ conns[Len(conns)].name = None

RingInv == \A k \in 1..Len(ring) : ring[k] = ring[Len(ring)] /\ (net # None => ring[k] = net)

PlayerInv == PlayerTyped /\ AttemptInv /\ ConnsInv /\ EndInv /\ RingInv

\* What the constants of the connection are, one fact each.
LEMMA PlayerConstants ==
  /\ MaxNameLen \in Nat \ {0} /\ MaxPlayers \in Nat \ {0} /\ RingLen \in Nat \ {0}
  /\ BaseDelay \in Nat \ {0} /\ MaxDelay \in Nat \ {0} /\ MaxConns \in Nat \ {0}
  /\ BaseDelay <= MaxDelay /\ MaxFaults \in Nat /\ MaxOthers \in Nat /\ None \notin Nat
BY ClientAssumption DEF ClientAssumption, Player!ReconnectAssumption

\* The smaller, and the larger, of two numbers.
LEMMA PlayerMinIs ==
  ASSUME NEW x \in Int, NEW y \in Int
  PROVE  Player!Min({x, y}) = IF x <= y THEN x ELSE y
BY DEF Player!Min

LEMMA PlayerMaxIs ==
  ASSUME NEW x \in Int, NEW y \in Int
  PROVE  Player!Max({x, y}) = IF x >= y THEN x ELSE y
BY DEF Player!Max

\* The pauses up to the nth are a function that follows its rule.
Doubles(d, n) ==
  d = [k \in 1..n |-> IF k = 1 THEN BaseDelay ELSE Player!Min({2 * d[k - 1], MaxDelay})]

LEMMA PausesExist == ASSUME NEW n \in Nat PROVE \E d : Doubles(d, n)
<1> DEFINE T == {m \in Nat : ~\E d : Doubles(d, m)}
<1> SUFFICES ASSUME T # {} PROVE FALSE
  OBVIOUS
<1>1. PICK m \in T : \A y \in T : m <= y
  <2>1. T \subseteq Nat
    OBVIOUS
  <2> HIDE DEF T
  <2> QED BY <2>1, Least
<1>2. m # 0
  <2>1. Doubles([k \in 1..0 |-> BaseDelay], 0)
    <3>1. 1..0 = {}
      OBVIOUS
    <3> QED BY <3>1, Zenon DEF Doubles
  <2> QED BY <2>1
<1>3. PICK d : Doubles(d, m - 1)
  <2>1. m - 1 \in Nat /\ ~(m <= m - 1)
    BY <1>2
  <2>2. m - 1 \notin T
    BY <1>1, <2>1
  <2> QED BY <2>1, <2>2
<1> DEFINE e == [k \in 1..m |-> IF k = 1 THEN BaseDelay ELSE Player!Min({2 * d[k - 1], MaxDelay})]
<1>4. ASSUME NEW k \in 1..m, k # 1 PROVE e[k - 1] = d[k - 1]
  <2>1. k - 1 \in 1..m /\ k - 1 \in 1..m - 1
    BY <1>1, <1>4
  <2>2. e[k - 1] = IF k - 1 = 1 THEN BaseDelay ELSE Player!Min({2 * d[k - 1 - 1], MaxDelay})
    BY <2>1
  <2>3. d[k - 1] = IF k - 1 = 1 THEN BaseDelay ELSE Player!Min({2 * d[k - 1 - 1], MaxDelay})
    BY <1>3, <2>1 DEF Doubles
  <2> QED BY <2>2, <2>3
<1>5. Doubles(e, m)
  <2>1. e = [k \in 1..m |-> IF k = 1 THEN BaseDelay ELSE Player!Min({2 * e[k - 1], MaxDelay})]
    BY <1>4, Zenon
  <2> QED BY <2>1 DEF Doubles
<1> QED BY <1>1, <1>5

\* A pause is never longer than the longest.
LEMMA PauseBounded ==
  ASSUME NEW n \in Nat, NEW d, Doubles(d, n), NEW k \in 1..n
  PROVE  d[k] \in 1..MaxDelay
<1> DEFINE T == {j \in 1..n : d[j] \notin 1..MaxDelay}
<1> SUFFICES ASSUME T # {} PROVE FALSE
  OBVIOUS
<1>1. PICK j \in T : \A y \in T : j <= y
  <2>1. T \subseteq Nat
    OBVIOUS
  <2> HIDE DEF T
  <2> QED BY <2>1, Least
<1>2. d[j] = IF j = 1 THEN BaseDelay ELSE Player!Min({2 * d[j - 1], MaxDelay})
  BY <1>1 DEF Doubles
<1>3. BaseDelay \in 1..MaxDelay /\ MaxDelay \in Nat \ {0}
  BY PlayerConstants
<1>4. j # 1
  BY <1>1, <1>2, <1>3
<1>5. d[j - 1] \in 1..MaxDelay
  <2>1. j - 1 \in 1..n /\ ~(j <= j - 1)
    BY <1>1, <1>4
  <2> QED BY <1>1, <2>1
<1>6. 2 * d[j - 1] \in Int /\ 2 * d[j - 1] >= 1 /\ MaxDelay \in Int
  BY <1>3, <1>5
<1>7. d[j] = IF 2 * d[j - 1] <= MaxDelay THEN 2 * d[j - 1] ELSE MaxDelay
  BY <1>2, <1>4, <1>6, PlayerMinIs, Zenon
<1>8. d[j] \in 1..MaxDelay
  <2> DEFINE x == 2 * d[j - 1]
  <2>1. x \in Int /\ x >= 1 /\ d[j] = IF x <= MaxDelay THEN x ELSE MaxDelay
    BY <1>6, <1>7
  <2> HIDE DEF x
  <2> QED BY <1>3, <2>1
<1> QED BY <1>1, <1>8

LEMMA RetryDelayBounded == ASSUME NEW n \in Nat \ {0} PROVE Player!RetryDelay(n) \in 1..MaxDelay
<1> DEFINE d == CHOOSE f : Doubles(f, n)
<1>1. Doubles(d, n)
  BY PausesExist
<1>2. Player!RetryDelay(n) = d[n]
  BY Zenon DEF Player!RetryDelay, Doubles
<1>3. n \in 1..n
  OBVIOUS
<1> HIDE DEF d
<1> QED BY <1>1, <1>2, <1>3, PauseBounded

\* A number follows the name: the first part stays.
LEMMA AppendedName ==
  ASSUME NEW n \in PlayerName, NEW k \in Nat
  PROVE  Append(n, k) \in PlayerName /\ Append(n, k)[1] = n[1]
BY DEF PlayerName

LEMMA AppendedDiffer ==
  ASSUME NEW n \in PlayerName, NEW j \in Nat, NEW k \in Nat, Append(n, j) = Append(n, k)
  PROVE  j = k
<1>1. n \in Seq(Bases \cup Nat)
  BY DEF PlayerName
<1>2. Append(n, j)[Len(n) + 1] = j /\ Append(n, k)[Len(n) + 1] = k
  BY <1>1
<1> QED BY <1>2

\* There are no more names in use than players, so some number is free.
LEMMA UniqueNameNamed ==
  ASSUME PlayerTyped, NEW n \in PlayerName
  PROVE  LET u == Player!UniqueName(n) IN u \in PlayerName /\ u[1] = n[1]
<1> DEFINE SS == Player!Sessions
           NN == {conns[i].name : i \in SS}
           K == 2..Player!Players + 2
           free == {k \in K : Append(n, k) \notin Player!Names}
<1>1. SS \subseteq 1..Len(conns) /\ Len(conns) \in Nat
  BY DEF PlayerTyped, Player!Sessions, Player!ConnIds
<1>2. IsFiniteSet(SS)
  <2>1. IsFiniteSet(1..Len(conns))
    BY <1>1, FS_Interval
  <2> HIDE DEF SS
  <2> QED BY <1>1, <2>1, FS_Subset
<1>3. IsFiniteSet(NN) /\ Cardinality(NN) <= Cardinality(SS)
  <2> HIDE DEF SS
  <2> DEFINE f == [i \in SS |-> conns[i].name]
  <2>1. f \in Surjection(SS, NN)
    BY DEF Surjection
  <2> HIDE DEF NN, f
  <2> QED BY <1>2, <2>1, FS_Surjection
<1>4. IsFiniteSet(others)
  BY DEF PlayerTyped
<1>5. Player!Names = others \cup NN
  BY DEF Player!Names
<1>6. Player!Players = Cardinality(others) + Cardinality(SS)
  BY DEF Player!Players, Player!Cardinality, Cardinality, Player!IsFiniteSet, IsFiniteSet
<1> HIDE DEF SS, NN
<1>7. /\ IsFiniteSet(Player!Names) /\ Cardinality(Player!Names) \in Nat /\ Player!Players \in Nat
      /\ Cardinality(Player!Names) <= Player!Players
  <2>1. /\ Cardinality(others) \in Nat /\ Cardinality(SS) \in Nat /\ Cardinality(NN) \in Nat
    BY <1>2, <1>3, <1>4, FS_CardinalityType
  <2>2. IsFiniteSet(others \cap NN)
    <3>1. others \cap NN \in SUBSET others
      OBVIOUS
    <3> QED BY <1>4, <3>1, FS_Subset
  <2>3. Cardinality(others \cap NN) \in Nat
    BY <2>2, FS_CardinalityType
  <2>4. /\ IsFiniteSet(others \cup NN)
        /\ Cardinality(others \cup NN) = Cardinality(others) + Cardinality(NN) - Cardinality(others \cap NN)
    BY <1>3, <1>4, FS_Union
  <2>5. Cardinality(others \cup NN) \in Nat
    BY <2>4, FS_CardinalityType
  <2> QED BY <1>3, <1>5, <1>6, <2>1, <2>3, <2>4, <2>5
<1>8. free # {}
  <2> SUFFICES ASSUME free = {} PROVE FALSE
    OBVIOUS
  <2>1. IsFiniteSet(K) /\ Cardinality(K) = Player!Players + 1
    <3>1. 2 \in Int /\ Player!Players + 2 \in Int
      BY <1>7
    <3>2. /\ IsFiniteSet(K)
          /\ Cardinality(K) = IF 2 > Player!Players + 2 THEN 0 ELSE (Player!Players + 2) - 2 + 1
      BY <3>1, FS_Interval, Zenon
    <3> HIDE DEF K
    <3> QED BY <1>7, <3>2
  <2> DEFINE f == [k \in K |-> Append(n, k)]
  <2>2. f \in [K -> Player!Names]
    OBVIOUS
  <2>3. Cardinality(Player!Names) < Cardinality(K)
    BY <1>7, <2>1
  <2>4. K \subseteq Nat
    BY <1>7
  <2> HIDE DEF K
  <2>5. \A j, k \in K : f[j] = f[k] => j = k
    BY <2>4, AppendedDiffer
  <2> HIDE DEF f
  <2>6. \E j, k \in K : j # k /\ f[j] = f[k]
    BY <1>7, <2>1, <2>2, <2>3, FS_PigeonHole
  <2> QED BY <2>5, <2>6
<1>9. Player!Min(free) \in Nat
  <2>1. free \subseteq Nat
    BY <1>7
  <2> HIDE DEF free
  <2>2. PICK x \in free : \A y \in free : x <= y
    BY <1>8, <2>1, Least
  <2>3. Player!Min(free) \in free
    BY <2>2 DEF Player!Min
  <2> QED BY <2>1, <2>3
<1>10. Player!UniqueName(n) = n \/ Player!UniqueName(n) = Append(n, Player!Min(free))
  BY DEF Player!UniqueName
<1>11. Append(n, Player!Min(free)) \in PlayerName /\ Append(n, Player!Min(free))[1] = n[1]
  <2> HIDE DEF free
  <2> QED BY <1>9, AppendedName
<1> HIDE DEF free
<1> QED BY <1>10, <1>11, Zenon

\* The ring takes what was read, and keeps the newest.
LEMMA DrainedOne ==
  ASSUME PlayerInv, net # None, NEW c \in ConnRec
  PROVE  LET r == Player!Drained(c, net) IN
           /\ r \in Seq(1..Len(conns)) /\ Len(r) <= RingLen
           /\ \A k \in 1..Len(r) : r[k] = net
<1> DEFINE more == [k \in 1..c.snaps |-> net]
           all == ring \o more
           lo == Player!Max({1, Len(all) - RingLen + 1})
           r == SubSeq(all, lo, Len(all))
<1>1. /\ net \in 1..Len(conns) /\ ring \in Seq(1..Len(conns)) /\ Len(ring) <= RingLen
      /\ c.snaps \in 0..RingLen /\ RingLen \in Nat \ {0}
  BY PlayerConstants DEF PlayerInv, PlayerTyped, ConnRec
<1>2. \A k \in 1..Len(ring) : ring[k] = net
  BY DEF PlayerInv, RingInv
<1>3. more \in Seq(1..Len(conns)) /\ Len(more) = c.snaps /\ \A k \in 1..Len(more) : more[k] = net
  BY <1>1
<1> HIDE DEF more
<1>4. all \in Seq(1..Len(conns)) /\ Len(all) \in Nat /\ \A k \in 1..Len(all) : all[k] = net
  BY <1>1, <1>2, <1>3
<1> HIDE DEF all
<1>5. lo \in Int /\ lo >= 1 /\ Len(all) - lo + 1 <= RingLen
  <2>1. 1 \in Int /\ Len(all) - RingLen + 1 \in Int
    BY <1>1, <1>4
  <2>2. lo = IF 1 >= Len(all) - RingLen + 1 THEN 1 ELSE Len(all) - RingLen + 1
    BY <2>1, PlayerMaxIs, Zenon
  <2> HIDE DEF lo
  <2> QED BY <1>1, <1>4, <2>2
<1> HIDE DEF lo
<1>6. /\ r \in Seq(1..Len(conns)) /\ Len(r) = IF lo <= Len(all) THEN Len(all) - lo + 1 ELSE 0
      /\ \A k \in 1..Len(r) : r[k] = all[lo + k - 1]
  BY <1>4, <1>5
<1>7. Len(r) <= RingLen /\ \A k \in 1..Len(r) : lo + k - 1 \in 1..Len(all)
  BY <1>1, <1>4, <1>5, <1>6
<1>8. Player!Drained(c, net) = r
  BY DEF Player!Drained, all, more, lo
<1> HIDE DEF r
<1> QED BY <1>4, <1>6, <1>7, <1>8

\* The invariant gives what the checked run checks.
LEMMA PlayerImplies ==
  PlayerInv => Player!TypeOK /\ Player!OneConnection /\ Player!RingOneConnection /\ Player!LossNotTerminal
<1> SUFFICES ASSUME PlayerInv
             PROVE  Player!TypeOK /\ Player!OneConnection /\ Player!RingOneConnection /\ Player!LossNotTerminal
  OBVIOUS
<1>1. PlayerTyped /\ AttemptInv /\ ConnsInv /\ EndInv /\ RingInv
  BY DEF PlayerInv
<1>2. Player!ConnIds = 1..Len(conns)
  BY DEF Player!ConnIds
<1>3. ASSUME NEW i \in 1..Len(conns) PROVE conns[i] \in ConnRec /\ ConnInv(i, conns[i])
  BY <1>1, <1>3 DEF PlayerTyped, ConnsInv
<1>4. Player!OneConnection
  BY <1>2, <1>3, Zenon DEF Player!OneConnection, ConnInv
<1>5. Player!RingOneConnection
  <2>1. DOMAIN ring = 1..Len(ring)
    BY <1>1 DEF PlayerTyped
  <2> QED BY <1>1, <2>1 DEF RingInv, Player!RingOneConnection
<1>6. Player!LossNotTerminal
  BY <1>1, Zenon DEF EndInv, Player!LossNotTerminal
<1>7. ASSUME NEW i \in 1..Len(conns)
      PROVE  LET c == conns[i] IN
               /\ c.alive \in BOOLEAN /\ c.reads \in BOOLEAN /\ c.snaps \in 0..RingLen
               /\ c.inbox \in Seq(Player!Frames) /\ c.err \in {"none", "lost", "fatal"}
               /\ c.server \in {"accepted", "asked", "session", "gone"}
               /\ c.server = "session" => up
  <2>1. conns[i] \in ConnRec /\ (conns[i].server = "session" => up)
    BY <1>3, <1>7, Zenon DEF ConnInv
  <2> QED BY <2>1 DEF ConnRec, Player!Frames
<1>8. Player!TypeOK
  <2>1. sess # None => sess[1] = picked
    BY <1>1 DEF PlayerTyped, Named
  <2>2. /\ net \in Player!ConnIds \cup {None} /\ fatal \in BOOLEAN
        /\ dial \in {"none", "dialing", "joining", "failed", "joined"}
        /\ dialed \in Player!ConnIds \cup {None} /\ (dialed # None <=> dial \in {"joining", "joined"})
        /\ dial # "none" => net = None
        /\ attempts \in Nat /\ wait \in 0..MaxDelay
        /\ ring \in Seq(Player!ConnIds) /\ Len(ring) <= RingLen
        /\ picked \in Bases
        /\ up \in BOOLEAN /\ faults \in 0..MaxFaults /\ othersJoined \in 0..MaxOthers
    BY <1>1, <1>2, Zenon DEF PlayerTyped, AttemptInv
  <2> QED BY <1>2, <1>7, <2>1, <2>2, Zenon DEF Player!TypeOK
<1> QED BY <1>4, <1>5, <1>6, <1>8

\* At the beginning nothing was tried.
LEMMA PlayerBegins == Player!Init => PlayerInv
<1> SUFFICES ASSUME Player!Init PROVE PlayerInv
  OBVIOUS
<1>1. /\ net = None /\ fatal = FALSE /\ dial = "none" /\ dialed = None /\ dialName = None
      /\ attempts = 0 /\ wait = 0 /\ ring = <<>> /\ sess = None /\ picked \in Bases
      /\ conns = <<>> /\ up \in BOOLEAN /\ others = {} /\ othersJoined = 0 /\ faults = 0
  BY DEF Player!Init
<1>2. /\ 0 \in 0..MaxDelay /\ 0 <= RingLen /\ 0 \in 0..MaxFaults /\ 0 \in 0..MaxOthers /\ 0 \in Nat
  BY PlayerConstants
<1>3. /\ Len(<<>>) = 0 /\ 1..0 = {} /\ <<>> \in Seq(ConnRec) /\ <<>> \in Seq(1..0)
  OBVIOUS
<1>4. PlayerTyped
  <2>1. IsFiniteSet({})
    BY FS_EmptySet
  <2>2. conns \in Seq(ConnRec) /\ Len(conns) = 0 /\ ring \in Seq(1..Len(conns)) /\ Len(ring) = 0
    BY <1>1, <1>3, Zenon
  <2> QED BY <1>1, <1>2, <2>1, <2>2, Zenon DEF PlayerTyped
<1>5. AttemptInv
  BY <1>1 DEF AttemptInv
<1>6. ConnsInv
  BY <1>1, <1>3, Zenon DEF ConnsInv
<1>7. EndInv
  BY <1>1 DEF EndInv
<1>8. RingInv
  BY <1>1, <1>3, Zenon DEF RingInv
<1> QED BY <1>4, <1>5, <1>6, <1>7, <1>8 DEF PlayerInv

\* The connections are as right as they were while the player and the server are.
LEMMA ConnsKeep ==
  ASSUME PlayerInv, conns' = conns, picked' = picked, up => up',
         \A i \in 1..Len(conns) : conns[i].alive => i \in {net', dialed'},
         dial' = "joining" => dial = "joining" /\ dialed' = dialed
  PROVE  ConnsInv'
<1> SUFFICES ASSUME NEW i \in 1..Len(conns) PROVE ConnInv(i, conns[i])'
  BY DEF ConnsInv
<1>1. ConnInv(i, conns[i])
  BY DEF PlayerInv, ConnsInv
<1>2. conns'[i] = conns[i]
  OBVIOUS
<1> DEFINE c == conns[i]
<1>3. c.alive => i \in {net', dialed'}
  OBVIOUS
<1> QED BY <1>1, <1>2, <1>3, Zenon DEF ConnInv, Named

\* What one connection, its server or its goroutines do leaves the rest alone.
LEMMA OneChanges ==
  ASSUME PlayerInv, NEW i \in 1..Len(conns), NEW c \in ConnRec, Player!Set(i, c),
         net' = net, fatal' = fatal, ring' = ring, picked' = picked,
         dial' = dial, dialed' = dialed, dialName' = dialName, attempts' = attempts, wait' = wait,
         up' = up, others' = others, othersJoined' = othersJoined, faults' \in 0..MaxFaults,
         sess' # None => Named(sess)',
         ConnInv(i, c),
         conns[i].server = "gone" /\ conns[i].name = None => c.server = "gone" /\ c.name = None
  PROVE  PlayerInv'
<1>1. PlayerTyped /\ AttemptInv /\ ConnsInv /\ EndInv /\ RingInv
  BY DEF PlayerInv
<1>2. conns \in Seq(ConnRec)
  BY <1>1 DEF PlayerTyped
<1>3. conns' = [conns EXCEPT ![i] = c]
  BY DEF Player!Set
<1>4. /\ conns' \in Seq(ConnRec) /\ Len(conns') = Len(conns) /\ conns'[i] = c
      /\ \A j \in 1..Len(conns) : j # i => conns'[j] = conns[j]
  BY <1>2, <1>3
<1>5. PlayerTyped'
  BY <1>1, <1>4, Zenon DEF PlayerTyped
<1>6. AttemptInv'
  BY <1>1, <1>4, Zenon DEF AttemptInv, Named
<1>7. ConnsInv'
  <2> SUFFICES ASSUME NEW j \in 1..Len(conns) PROVE ConnInv(j, conns[j])'
    BY <1>4, Zenon DEF ConnsInv
  <2>1. CASE j = i
    BY <1>4, <2>1, Zenon DEF ConnInv, Named
  <2>2. CASE j # i
    <3>1. ConnInv(j, conns[j])
      BY <1>1 DEF ConnsInv
    <3>2. conns'[j] = conns[j]
      BY <1>4, <2>2
    <3> QED BY <3>1, <3>2, Zenon DEF ConnInv, Named
  <2> QED BY <2>1, <2>2
<1>8. EndInv'
  <2> SUFFICES ASSUME fatal
               PROVE  net' = None /\ conns' # <<>>
                      /\ conns'[Len(conns)].server = "gone" /\ conns'[Len(conns)].name = None
    BY <1>4, Zenon DEF EndInv
  <2>1. net = None /\ conns[Len(conns)].server = "gone" /\ conns[Len(conns)].name = None
    BY <1>1 DEF EndInv
  <2>2. Len(conns) \in 1..Len(conns) /\ conns' # <<>>
    BY <1>2, <1>4
  <2>3. CASE i = Len(conns)
    BY <1>4, <2>1, <2>2, <2>3
  <2>4. CASE i # Len(conns)
    BY <1>4, <2>1, <2>2, <2>4
  <2> QED BY <2>3, <2>4
<1>9. RingInv'
  BY <1>1, Zenon DEF RingInv
<1> QED BY <1>5, <1>6, <1>7, <1>8, <1>9 DEF PlayerInv

\* What is known of a connection, by itself.
LEMMA ConnFacts ==
  ASSUME PlayerInv, NEW i \in 1..Len(conns), NEW c, c = conns[i]
  PROVE  c \in ConnRec /\ ConnInv(i, c)
<1>1. conns[i] \in ConnRec
  BY DEF PlayerInv, PlayerTyped
<1>2. ConnInv(i, conns[i])
  BY DEF PlayerInv, ConnsInv
<1> QED BY <1>1, <1>2

\* A connection that fails is closed: whatever its error, the server's end of it stays.
LEMMA FailedConn ==
  ASSUME PlayerInv, NEW i \in 1..Len(conns), NEW why \in {"lost", "fatal"},
         why = "fatal" => conns[i].server = "gone" /\ conns[i].name = None,
         ~(dial = "joining" /\ dialed = i)
  PROVE  LET f == Player!Failed(conns[i], why) IN
           f \in ConnRec /\ ConnInv(i, f) /\ f.server = conns[i].server /\ f.name = conns[i].name
<1> DEFINE c == conns[i]
           e == IF c.err = "none" THEN why ELSE c.err
           f == Player!Failed(c, why)
<1>1. c \in ConnRec /\ ConnInv(i, c)
  BY ConnFacts
<1>2. f = [c EXCEPT !.err = e, !.reads = FALSE, !.alive = FALSE, !.inbox = <<>>]
  BY DEF Player!Failed
<1> HIDE DEF c, f
<1>3. e \in {"none", "lost", "fatal"}
  BY <1>1 DEF ConnRec
<1>4. e = "fatal" => c.server = "gone" /\ c.name = None
  BY <1>1 DEF ConnInv, c
<1> HIDE DEF e
<1>5. /\ f \in ConnRec /\ f.err = e /\ f.reads = FALSE /\ f.alive = FALSE /\ f.inbox = <<>>
      /\ f.server = c.server /\ f.name = c.name /\ f.join = c.join
  <2> DEFINE B == Seq({"welcome", "snapshot", "error"})
             N == PlayerName \cup {None}
  <2>1. <<>> \in B
    OBVIOUS
  <2>2. c \in [alive : BOOLEAN, reads : BOOLEAN, inbox : B, snaps : 0..RingLen,
               err : {"none", "lost", "fatal"}, server : {"accepted", "asked", "session", "gone"},
               join : PlayerName, name : N]
    BY <1>1 DEF ConnRec
  <2> HIDE DEF B, N
  <2>3. f \in [alive : BOOLEAN, reads : BOOLEAN, inbox : B, snaps : 0..RingLen,
               err : {"none", "lost", "fatal"}, server : {"accepted", "asked", "session", "gone"},
               join : PlayerName, name : N]
    BY <1>2, <1>3, <2>1, <2>2
  <2>4. /\ f.err = e /\ f.reads = FALSE /\ f.alive = FALSE /\ f.inbox = <<>>
        /\ f.server = c.server /\ f.name = c.name /\ f.join = c.join
    BY <1>2, <2>2
  <2> QED BY <2>3, <2>4 DEF ConnRec, B, N
<1>6. ~(\E k \in 1..Len(<<>>) : <<>>[k] = "error")
  OBVIOUS
<1>7. ConnInv(i, f)
  BY <1>1, <1>4, <1>5, <1>6, Zenon DEF ConnInv
<1> QED BY <1>5, <1>7 DEF c, f

\* The reader of a connection takes a frame: a welcome names the player, an error ends the
\* connection for good.
LEMMA PlayerReads ==
  ASSUME PlayerInv, NEW i \in 1..Len(conns), Player!ReadFrame(i)
  PROVE  PlayerInv'
<1> DEFINE c == conns[i]
<1>1. c \in ConnRec /\ ConnInv(i, c)
  BY ConnFacts
<1>2. /\ c.reads /\ c.inbox # <<>>
      /\ net' = net /\ fatal' = fatal /\ ring' = ring /\ picked' = picked
      /\ dial' = dial /\ dialed' = dialed /\ dialName' = dialName /\ attempts' = attempts /\ wait' = wait
      /\ up' = up /\ others' = others /\ othersJoined' = othersJoined /\ faults' = faults
  BY DEF Player!ReadFrame, Player!game, Player!attempt, Player!server
<1>3. c.inbox \in Seq({"welcome", "snapshot", "error"}) /\ c.snaps \in 0..RingLen
  BY <1>1 DEF ConnRec
<1>4. faults' \in 0..MaxFaults /\ (sess # None => Named(sess))
  BY <1>2 DEF PlayerInv, PlayerTyped
<1>5. ~(dial = "joining" /\ dialed = i)
  BY <1>1, <1>2, Zenon DEF ConnInv
<1>6. /\ Tail(c.inbox) \in Seq({"welcome", "snapshot", "error"})
      /\ \A k \in 1..Len(Tail(c.inbox)) : k + 1 \in 1..Len(c.inbox) /\ Tail(c.inbox)[k] = c.inbox[k + 1]
  BY <1>2, <1>3
<1>7. (\E k \in 1..Len(Tail(c.inbox)) : Tail(c.inbox)[k] = "error")
        => \E k \in 1..Len(c.inbox) : c.inbox[k] = "error"
  BY <1>6, Zenon
<1>8. c.inbox[1] = Head(c.inbox) /\ 1 \in 1..Len(c.inbox)
  BY <1>2, <1>3
<1>9. ASSUME NEW s \in 0..RingLen, NEW f, f = [c EXCEPT !.inbox = Tail(c.inbox), !.snaps = s]
      PROVE  f \in ConnRec /\ ConnInv(i, f) /\ f.server = c.server /\ f.name = c.name
  <2> HIDE DEF c
  <2>1. /\ f \in ConnRec /\ f.inbox = Tail(c.inbox) /\ f.alive = c.alive /\ f.reads = c.reads
        /\ f.err = c.err /\ f.server = c.server /\ f.name = c.name /\ f.join = c.join
    BY <1>1, <1>6, <1>9 DEF ConnRec
  <2>2. c.inbox = <<>> => FALSE
    BY <1>2
  <2>3. ConnInv(i, f)
    BY <1>1, <1>2, <1>5, <1>7, <2>1, <2>2, Zenon DEF ConnInv
  <2> QED BY <2>1, <2>3
<1>10. CASE /\ Head(c.inbox) = "welcome" /\ sess' = c.name
            /\ Player!Set(i, [c EXCEPT !.inbox = Tail(c.inbox)])
  <2> DEFINE f == [c EXCEPT !.inbox = Tail(c.inbox)]
  <2>1. f = [c EXCEPT !.inbox = Tail(c.inbox), !.snaps = c.snaps]
    <3> HIDE DEF c
    <3> QED BY <1>1 DEF ConnRec
  <2>2. f \in ConnRec /\ ConnInv(i, f) /\ f.server = c.server /\ f.name = c.name
    BY <1>3, <1>9, <2>1, Zenon
  <2>3. sess' # None => Named(sess)'
    BY <1>1, <1>2, <1>10, Zenon DEF ConnInv, Named
  <2>4. Player!Set(i, f)
    BY <1>10
  <2> HIDE DEF f
  <2> QED BY <1>2, <1>4, <2>2, <2>3, <2>4, OneChanges
<1>11. CASE /\ Head(c.inbox) = "snapshot" /\ sess' = sess
            /\ Player!Set(i, [c EXCEPT !.inbox = Tail(c.inbox), !.snaps = Player!Min({c.snaps + 1, RingLen})])
  <2> DEFINE s == Player!Min({c.snaps + 1, RingLen})
             f == [c EXCEPT !.inbox = Tail(c.inbox), !.snaps = s]
  <2>1. s \in 0..RingLen
    <3>1. c.snaps + 1 \in Int /\ RingLen \in Int /\ RingLen >= 0
      BY <1>3, PlayerConstants
    <3>2. s = IF c.snaps + 1 <= RingLen THEN c.snaps + 1 ELSE RingLen
      BY <3>1, PlayerMinIs, Zenon
    <3> HIDE DEF s, c
    <3> QED BY <1>3, <3>1, <3>2
  <2>2. Player!Set(i, f)
    BY <1>11
  <2> HIDE DEF s
  <2>3. f \in ConnRec /\ ConnInv(i, f) /\ f.server = c.server /\ f.name = c.name
    BY <1>9, <2>1
  <2>4. sess' # None => Named(sess)'
    BY <1>2, <1>4, <1>11, Zenon DEF Named
  <2> HIDE DEF f
  <2> QED BY <1>2, <1>4, <2>2, <2>3, <2>4, OneChanges
<1>12. CASE /\ Head(c.inbox) = "error" /\ sess' = sess
            /\ Player!Set(i, Player!Failed(c, "fatal"))
  <2> DEFINE f == Player!Failed(c, "fatal")
  <2>1. c.server = "gone" /\ c.name = None
    BY <1>1, <1>8, <1>12, Zenon DEF ConnInv
  <2>2. f \in ConnRec /\ ConnInv(i, f) /\ f.server = c.server /\ f.name = c.name
    BY <1>5, <2>1, FailedConn
  <2>3. sess' # None => Named(sess)'
    BY <1>2, <1>4, <1>12, Zenon DEF Named
  <2>4. Player!Set(i, f)
    BY <1>12
  <2> HIDE DEF f
  <2> QED BY <1>2, <1>4, <2>2, <2>3, <2>4, OneChanges
<1>13. Head(c.inbox) \in {"welcome", "snapshot", "error"}
  BY <1>2, <1>3
<1> QED BY <1>10, <1>11, <1>12, <1>13 DEF Player!ReadFrame

\* A loss that the reader or the writer notices closes the connection.
LEMMA PlayerLoses ==
  ASSUME PlayerInv, NEW i \in 1..Len(conns), Player!ReadFails(i) \/ Player!WriteFails(i)
  PROVE  PlayerInv'
<1> DEFINE c == conns[i]
           f == Player!Failed(c, "lost")
<1>1. c \in ConnRec /\ ConnInv(i, c)
  BY ConnFacts
<1>2. /\ c.reads /\ Player!Set(i, f) /\ sess' = sess
      /\ net' = net /\ fatal' = fatal /\ ring' = ring /\ picked' = picked
      /\ dial' = dial /\ dialed' = dialed /\ dialName' = dialName /\ attempts' = attempts /\ wait' = wait
      /\ up' = up /\ others' = others /\ othersJoined' = othersJoined
      /\ faults' = faults \/ (faults < MaxFaults /\ faults' = faults + 1)
  BY DEF Player!ReadFails, Player!WriteFails, Player!Fault, Player!game, Player!attempt, Player!server
<1>3. /\ faults \in 0..MaxFaults /\ (sess # None => Named(sess)) /\ MaxFaults \in Nat
      /\ (dial # "none" => net = None) /\ (dialed # None => dial # "none")
  BY PlayerConstants DEF PlayerInv, PlayerTyped, AttemptInv
<1>4. faults' \in 0..MaxFaults
  BY <1>2, <1>3
<1>5. sess' # None => Named(sess)'
  BY <1>2, <1>3, Zenon DEF Named
<1>6. ~(dial = "joining" /\ dialed = i)
  BY <1>1, <1>2, Zenon DEF ConnInv
<1>7. f \in ConnRec /\ ConnInv(i, f) /\ f.server = c.server /\ f.name = c.name
  BY <1>6, FailedConn
<1> HIDE DEF f
<1> QED BY <1>2, <1>4, <1>5, <1>7, OneChanges

\* The server answers a join: with an error frame, and lets go of the player, or with a
\* session under a name that is free.
LEMMA PlayerJoins ==
  ASSUME PlayerInv, NEW i \in 1..Len(conns), Player!HandleJoin(i)
  PROVE  PlayerInv'
<1> DEFINE c == conns[i]
           B == Seq({"welcome", "snapshot", "error"})
           N == PlayerName \cup {None}
<1>1. c \in ConnRec /\ ConnInv(i, c)
  BY ConnFacts
<1>2. /\ up /\ c.server = "asked" /\ sess' = sess
      /\ net' = net /\ fatal' = fatal /\ ring' = ring /\ picked' = picked
      /\ dial' = dial /\ dialed' = dialed /\ dialName' = dialName /\ attempts' = attempts /\ wait' = wait
      /\ up' = up /\ others' = others /\ othersJoined' = othersJoined /\ faults' = faults
  BY DEF Player!HandleJoin, Player!game, Player!attempt, Player!server
<1>3. faults' \in 0..MaxFaults /\ (sess # None => Named(sess))
  BY <1>2 DEF PlayerInv, PlayerTyped
<1>4. sess' # None => Named(sess)'
  BY <1>2, <1>3, Zenon DEF Named
<1>5. c.name = None /\ c.inbox = <<>> /\ c.err # "fatal" /\ ~(dial = "joining" /\ dialed = i) /\ Named(c.join)
  BY <1>1, <1>2, Zenon DEF ConnInv
<1>6. c \in [alive : BOOLEAN, reads : BOOLEAN, inbox : B, snaps : 0..RingLen,
             err : {"none", "lost", "fatal"}, server : {"accepted", "asked", "session", "gone"},
             join : PlayerName, name : N]
  BY <1>1 DEF ConnRec
<1>7. ASSUME Player!Set(i, Player!Refused(c)) PROVE PlayerInv'
  <2> DEFINE in == Append(c.inbox, "error")
             f == [c EXCEPT !.inbox = in, !.server = "gone"]
  <2>1. in \in B
    BY <1>6
  <2>2. Player!Set(i, f)
    BY <1>7 DEF Player!Refused
  <2> HIDE DEF in, B, N, c
  <2>3. f \in ConnRec
    BY <1>6, <2>1 DEF ConnRec, B, N
  <2>4. /\ f.inbox = in /\ f.server = "gone" /\ f.alive = c.alive /\ f.reads = c.reads
        /\ f.err = c.err /\ f.name = c.name /\ f.join = c.join
    BY <1>6
  <2>5. ConnInv(i, f)
    BY <1>1, <1>5, <2>4, Zenon DEF ConnInv
  <2> HIDE DEF f
  <2> QED BY <1>2, <1>3, <1>4, <1>5, <2>2, <2>3, <2>4, <2>5, OneChanges DEF c
<1>8. ASSUME Player!Set(i, [c EXCEPT !.server = "session", !.name = Player!UniqueName(c.join),
                                     !.inbox = <<"welcome", "snapshot">>])
      PROVE  PlayerInv'
  <2> DEFINE n == Player!UniqueName(c.join)
             in == <<"welcome", "snapshot">>
             f == [c EXCEPT !.server = "session", !.name = n, !.inbox = in]
  <2>1. n \in PlayerName /\ n[1] = c.join[1]
    BY <1>5, UniqueNameNamed DEF PlayerInv, Named
  <2>2. Named(n)
    BY <1>5, <2>1 DEF Named
  <2>3. in \in B /\ ~\E k \in 1..Len(in) : in[k] = "error"
    OBVIOUS
  <2>4. Player!Set(i, f)
    BY <1>8
  <2> HIDE DEF in, B, n, c
  <2>5. f \in ConnRec
    BY <1>6, <2>1, <2>3 DEF ConnRec, B, N
  <2> HIDE DEF N
  <2>6. /\ f.inbox = in /\ f.server = "session" /\ f.name = n /\ f.alive = c.alive /\ f.reads = c.reads
        /\ f.err = c.err /\ f.join = c.join
    BY <1>6
  <2>7. ConnInv(i, f)
    BY <1>1, <1>2, <1>5, <2>2, <2>3, <2>6, Zenon DEF ConnInv
  <2>8. ~(c.server = "gone")
    BY <1>2
  <2> HIDE DEF f
  <2> QED BY <1>2, <1>3, <1>4, <2>4, <2>5, <2>7, <2>8, OneChanges DEF c
<1> QED BY <1>7, <1>8 DEF Player!HandleJoin

\* A broadcast is one more frame for a session whose last ones were read.
LEMMA PlayerHears ==
  ASSUME PlayerInv, NEW i \in 1..Len(conns), Player!Broadcast(i)
  PROVE  PlayerInv'
<1> DEFINE c == conns[i]
           B == Seq({"welcome", "snapshot", "error"})
           in == <<"snapshot">>
           f == [c EXCEPT !.inbox = in]
<1>1. c \in ConnRec /\ ConnInv(i, c)
  BY ConnFacts
<1>2. /\ c.server = "session" /\ Player!Set(i, f) /\ sess' = sess
      /\ net' = net /\ fatal' = fatal /\ ring' = ring /\ picked' = picked
      /\ dial' = dial /\ dialed' = dialed /\ dialName' = dialName /\ attempts' = attempts /\ wait' = wait
      /\ up' = up /\ others' = others /\ othersJoined' = othersJoined /\ faults' = faults
  BY DEF Player!Broadcast, Player!game, Player!attempt, Player!server
<1>3. faults' \in 0..MaxFaults /\ (sess # None => Named(sess))
  BY <1>2 DEF PlayerInv, PlayerTyped
<1>4. sess' # None => Named(sess)'
  BY <1>2, <1>3, Zenon DEF Named
<1>5. in \in B /\ ~\E k \in 1..Len(in) : in[k] = "error"
  OBVIOUS
<1> HIDE DEF in, B, c
<1>6. f \in ConnRec /\ f.inbox = in /\ f.alive = c.alive /\ f.reads = c.reads /\ f.err = c.err
      /\ f.server = c.server /\ f.name = c.name /\ f.join = c.join
  BY <1>1, <1>5 DEF ConnRec, B
<1>7. ConnInv(i, f)
  BY <1>1, <1>2, <1>5, <1>6, Zenon DEF ConnInv
<1>8. ~(c.server = "gone")
  BY <1>2
<1> HIDE DEF f
<1> QED BY <1>2, <1>3, <1>4, <1>6, <1>7, <1>8, OneChanges DEF c

\* A connection is cut, and the server lets go of it, now or later.
LEMMA PlayerCut ==
  ASSUME PlayerInv, NEW i \in 1..Len(conns), Player!HandleLeave(i) \/ Player!Break(i)
  PROVE  PlayerInv'
<1> DEFINE c == conns[i]
           f == [c EXCEPT !.server = "gone", !.alive = FALSE]
           g == [c EXCEPT !.alive = FALSE]
<1>1. c \in ConnRec /\ ConnInv(i, c)
  BY ConnFacts
<1>2. /\ sess' = sess
      /\ net' = net /\ fatal' = fatal /\ ring' = ring /\ picked' = picked
      /\ dial' = dial /\ dialed' = dialed /\ dialName' = dialName /\ attempts' = attempts /\ wait' = wait
      /\ up' = up /\ others' = others /\ othersJoined' = othersJoined
      /\ faults' = faults \/ (faults < MaxFaults /\ faults' = faults + 1)
  BY DEF Player!HandleLeave, Player!Break, Player!Fault, Player!game, Player!attempt, Player!server
<1>3. faults \in 0..MaxFaults /\ (sess # None => Named(sess)) /\ MaxFaults \in Nat
  BY PlayerConstants DEF PlayerInv, PlayerTyped
<1>4. faults' \in 0..MaxFaults
  BY <1>2, <1>3
<1>5. sess' # None => Named(sess)'
  BY <1>2, <1>3, Zenon DEF Named
<1>6. Player!Set(i, f) \/ Player!Set(i, g)
  BY DEF Player!HandleLeave, Player!Break
<1> HIDE DEF c
<1>7. /\ f \in ConnRec /\ f.inbox = c.inbox /\ f.alive = FALSE /\ f.reads = c.reads /\ f.err = c.err
      /\ f.server = "gone" /\ f.name = c.name /\ f.join = c.join
      /\ g \in ConnRec /\ g.inbox = c.inbox /\ g.alive = FALSE /\ g.reads = c.reads /\ g.err = c.err
      /\ g.server = c.server /\ g.name = c.name /\ g.join = c.join
  BY <1>1 DEF ConnRec
<1>8. ConnInv(i, f) /\ ConnInv(i, g)
  BY <1>1, <1>7, Zenon DEF ConnInv
<1> HIDE DEF f, g
<1> QED BY <1>2, <1>4, <1>5, <1>6, <1>7, <1>8, OneChanges DEF c

\* A retry is scheduled after a pause, and no later than the longest one.
LEMMA Schedules ==
  ASSUME PlayerInv, Player!ScheduleRetry
  PROVE  attempts' \in Nat /\ wait' \in 0..MaxDelay
<1>1. attempts \in Nat /\ MaxDelay \in Nat
  BY PlayerConstants DEF PlayerInv, PlayerTyped
<1>2. /\ attempts' = attempts \/ attempts' = attempts + 1
      /\ wait' = Player!RetryDelay(attempts + 1)
  BY DEF Player!ScheduleRetry
<1>3. Player!RetryDelay(attempts + 1) \in 1..MaxDelay
  <2>1. attempts + 1 \in Nat \ {0}
    BY <1>1
  <2> QED BY <2>1, RetryDelayBounded
<1> QED BY <1>1, <1>2, <1>3

\* The render loop takes what came, and lets go of a connection that failed.
LEMMA PlayerPumps == ASSUME PlayerInv, Player!PumpNet PROVE PlayerInv'
<1> DEFINE c == conns[net]
           f == [c EXCEPT !.snaps = 0, !.err = "none"]
<1>1. PlayerTyped /\ AttemptInv /\ ConnsInv /\ EndInv /\ RingInv
  BY DEF PlayerInv
<1>2. /\ net # None /\ fatal = FALSE /\ ring' = Player!Drained(c, net) /\ Player!Set(net, f)
      /\ dial' = dial /\ dialed' = dialed /\ dialName' = dialName /\ sess' = sess /\ picked' = picked
      /\ up' = up /\ others' = others /\ othersJoined' = othersJoined /\ faults' = faults
  BY <1>1 DEF Player!PumpNet, Player!server, PlayerTyped
<1>3. net \in 1..Len(conns) /\ net = Len(conns) /\ dial = "none" /\ dialed = None /\ conns \in Seq(ConnRec)
  BY <1>1, <1>2 DEF PlayerTyped, AttemptInv
<1>4. c \in ConnRec /\ ConnInv(net, c)
  BY <1>3, ConnFacts
<1>5. \/ c.err = "none" /\ net' = net /\ fatal' = fatal /\ attempts' = attempts /\ wait' = wait
      \/ c.err = "fatal" /\ net' = None /\ fatal' = TRUE /\ attempts' = attempts /\ wait' = wait
      \/ c.err = "lost" /\ net' = None /\ fatal' = fatal /\ Player!ScheduleRetry
  <2>1. c.err \in {"none", "lost", "fatal"}
    BY <1>4 DEF ConnRec
  <2> QED BY <2>1 DEF Player!PumpNet
<1>6. \A j \in 1..Len(conns) : j # net => ~conns[j].alive
  <2> SUFFICES ASSUME NEW j \in 1..Len(conns), j # net PROVE ~conns[j].alive
    OBVIOUS
  <2>1. ConnInv(j, conns[j]) /\ j # None
    BY <1>1, PlayerConstants DEF ConnsInv
  <2> QED BY <1>3, <2>1 DEF ConnInv
<1>7. /\ ring' \in Seq(1..Len(conns)) /\ Len(ring') <= RingLen
      /\ \A k \in 1..Len(ring') : ring'[k] = net
  BY <1>2, <1>4, DrainedOne, Zenon
<1>8. conns' = [conns EXCEPT ![net] = f]
  BY <1>2 DEF Player!Set
<1> HIDE DEF c
<1>9. /\ f \in ConnRec /\ f.err = "none" /\ f.inbox = c.inbox /\ f.alive = c.alive /\ f.reads = c.reads
      /\ f.server = c.server /\ f.name = c.name /\ f.join = c.join
  <2>1. 0 \in 0..RingLen
    BY PlayerConstants
  <2> QED BY <1>4, <2>1 DEF ConnRec
<1> HIDE DEF f
<1>10. /\ conns' \in Seq(ConnRec) /\ Len(conns') = Len(conns) /\ conns'[net] = f
       /\ \A j \in 1..Len(conns) : j # net => conns'[j] = conns[j]
  BY <1>3, <1>8, <1>9
<1>11. attempts' \in Nat /\ wait' \in 0..MaxDelay
  BY <1>1, <1>5, Schedules DEF PlayerTyped
<1>12. PlayerTyped'
  <2>1. net' \in 1..Len(conns) \cup {None} /\ fatal' \in BOOLEAN
    BY <1>5, <1>3, <1>1 DEF PlayerTyped
  <2> QED BY <1>1, <1>2, <1>7, <1>10, <1>11, <2>1, Zenon DEF PlayerTyped, Named
<1>13. AttemptInv'
  <2>1. net' = None \/ net' = net
    BY <1>5
  <2> QED BY <1>1, <1>2, <1>3, <1>10, <2>1, Zenon DEF AttemptInv
<1>14. ConnsInv'
  <2> SUFFICES ASSUME NEW j \in 1..Len(conns) PROVE ConnInv(j, conns[j])'
    BY <1>10, Zenon DEF ConnsInv
  <2>1. CASE j = net
    <3>1. c.alive => net' = net
      BY <1>5, <1>4, Zenon DEF ConnInv
    <3>2. conns'[j] = f
      BY <1>10, <2>1
    <3> QED BY <1>2, <1>3, <1>4, <1>9, <2>1, <3>1, <3>2, Zenon DEF ConnInv, Named
  <2>2. CASE j # net
    <3>1. ConnInv(j, conns[j]) /\ ~conns[j].alive
      BY <1>1, <1>6, <2>2 DEF ConnsInv
    <3>2. conns'[j] = conns[j]
      BY <1>10, <2>2
    <3> QED BY <1>2, <1>3, <3>1, <3>2, Zenon DEF ConnInv, Named
  <2> QED BY <2>1, <2>2
<1>15. EndInv'
  <2> SUFFICES ASSUME fatal'
               PROVE  net' = None /\ conns' # <<>>
                      /\ conns'[Len(conns)].server = "gone" /\ conns'[Len(conns)].name = None
    BY <1>10, Zenon DEF EndInv
  <2>1. c.err = "fatal" /\ net' = None
    BY <1>2, <1>5
  <2>2. c.server = "gone" /\ c.name = None
    BY <1>4, <2>1, Zenon DEF ConnInv
  <2>3. conns' # <<>>
    BY <1>3, <1>10
  <2>4. conns'[Len(conns)] = f
    BY <1>3, <1>10, Zenon
  <2> QED BY <1>9, <2>1, <2>2, <2>3, <2>4, Zenon
<1>16. RingInv'
  <2> SUFFICES ASSUME NEW k \in 1..Len(ring')
               PROVE  ring'[k] = ring'[Len(ring')] /\ (net' # None => ring'[k] = net')
    BY DEF RingInv
  <2>1. Len(ring') \in 1..Len(ring')
    BY <1>7
  <2>2. net' = None \/ net' = net
    BY <1>5
  <2> QED BY <1>7, <2>1, <2>2, Zenon
<1> QED BY <1>12, <1>13, <1>14, <1>15, <1>16 DEF PlayerInv

\* What leaves the connections alone, but for who uses them, and the ring at most empty.
LEMMA AttemptChanges ==
  ASSUME PlayerInv, conns' = conns, fatal' = fatal, picked' = picked, sess' = sess,
         ring' = ring \/ ring' = <<>>, net' = net \/ ring' = <<>>,
         net' \in 1..Len(conns) \cup {None}, dialed' \in 1..Len(conns) \cup {None},
         dial' \in {"none", "dialing", "joining", "failed", "joined"},
         attempts' \in Nat, wait' \in 0..MaxDelay, up' \in BOOLEAN, up => up',
         faults' \in 0..MaxFaults, othersJoined' \in 0..MaxOthers, IsFiniteSet(others'),
         AttemptInv',
         \A i \in 1..Len(conns) : conns[i].alive => i \in {net', dialed'},
         dial' = "joining" => dial = "joining" /\ dialed' = dialed,
         fatal => net' = None
  PROVE  PlayerInv'
<1>1. PlayerTyped /\ AttemptInv /\ ConnsInv /\ EndInv /\ RingInv
  BY DEF PlayerInv
<1>2. ring' \in Seq(1..Len(conns)) /\ Len(ring') <= RingLen
  <2>1. CASE ring' = ring
    BY <1>1, <2>1 DEF PlayerTyped
  <2>2. CASE ring' = <<>>
    BY <2>2, PlayerConstants
  <2> QED BY <2>1, <2>2
<1>3. PlayerTyped'
  <2>1. (sess # None => Named(sess))'
    BY <1>1, Zenon DEF PlayerTyped, Named
  <2>2. /\ conns \in Seq(ConnRec) /\ fatal \in BOOLEAN /\ picked \in Bases
    BY <1>1 DEF PlayerTyped
  <2>3. /\ conns' \in Seq(ConnRec) /\ fatal' \in BOOLEAN /\ picked' \in Bases
        /\ net' \in 1..Len(conns') \cup {None} /\ dialed' \in 1..Len(conns') \cup {None}
        /\ ring' \in Seq(1..Len(conns'))
    BY <1>2, <2>2, Zenon
  <2> QED BY <1>2, <2>1, <2>3, Zenon DEF PlayerTyped
<1>4. ConnsInv'
  BY ConnsKeep
<1>5. EndInv'
  BY <1>1, Zenon DEF EndInv
<1>6. RingInv'
  <2>1. CASE ring' = <<>>
    BY <2>1 DEF RingInv
  <2>2. CASE ring' = ring /\ net' = net
    BY <1>1, <2>2, Zenon DEF RingInv
  <2> QED BY <2>1, <2>2
<1> QED BY <1>3, <1>4, <1>5, <1>6 DEF PlayerInv

\* What the invariant says of each variable.
LEMMA PlayerFacts ==
  ASSUME PlayerInv
  PROVE  /\ conns \in Seq(ConnRec) /\ Len(conns) \in Nat /\ None \notin Nat
         /\ net \in 1..Len(conns) \cup {None} /\ dialed \in 1..Len(conns) \cup {None}
         /\ fatal \in BOOLEAN /\ up \in BOOLEAN
         /\ dial \in {"none", "dialing", "joining", "failed", "joined"}
         /\ attempts \in Nat /\ wait \in 0..MaxDelay
         /\ faults \in 0..MaxFaults /\ othersJoined \in 0..MaxOthers /\ IsFiniteSet(others)
         /\ picked \in Bases /\ (sess # None => Named(sess))
         /\ dialed # None <=> dial \in {"joining", "joined"}
         /\ dial # "none" => net = None /\ fatal = FALSE /\ Named(dialName)
         /\ net # None => net = Len(conns)
         /\ dialed # None => dialed = Len(conns)
         /\ fatal => net = None
         /\ \A i \in 1..Len(conns) : conns[i].alive => i \in {net, dialed}
<1>1. /\ PlayerTyped /\ AttemptInv /\ (fatal => net = None)
  BY DEF PlayerInv, EndInv
<1>2. \A i \in 1..Len(conns) : conns[i].alive => i \in {net, dialed}
  BY Zenon DEF PlayerInv, ConnsInv, ConnInv
<1>3. conns \in Seq(ConnRec) /\ Len(conns) \in Nat /\ fatal \in BOOLEAN
  BY <1>1 DEF PlayerTyped
<1>4. ~fatal => fatal = FALSE
  BY <1>3
<1> QED BY <1>1, <1>2, <1>3, <1>4, PlayerConstants, Zenon DEF PlayerTyped, AttemptInv

\* What it takes to begin an attempt, and what becomes of one that finds no server.
LEMMA PlayerTries ==
  ASSUME PlayerInv, Player!StartDial \/ Player!DialFails \/ (Player!Dial /\ ~up)
  PROVE  PlayerInv'
<1>1. /\ net' = net /\ fatal' = fatal /\ ring' = ring /\ picked' = picked /\ sess' = sess /\ conns' = conns
      /\ dialed' = dialed /\ attempts' = attempts /\ wait' = wait
      /\ up' = up /\ others' = others /\ othersJoined' = othersJoined
      /\ faults' = faults \/ (faults < MaxFaults /\ faults' = faults + 1)
      /\ \/ /\ net = None /\ fatal = FALSE /\ dial = "none" /\ dial' = "dialing"
            /\ dialName' = IF sess # None THEN sess ELSE <<picked>>
         \/ dial = "dialing" /\ dial' = "failed" /\ dialName' = dialName
  BY PlayerFacts DEF Player!StartDial, Player!DialFails, Player!Dial, Player!Fault, Player!game, Player!server
<1>2. faults' \in 0..MaxFaults
  <2>1. faults \in 0..MaxFaults /\ MaxFaults \in Nat
    BY PlayerFacts, PlayerConstants
  <2> QED BY <1>1, <2>1
<1>3. Named(<<picked>>)
  <2>1. picked \in Bases
    BY PlayerFacts
  <2>2. <<picked>> \in Seq(Bases \cup Nat) /\ <<picked>> # <<>> /\ <<picked>>[1] = picked
    BY <2>1
  <2> QED BY <2>2 DEF Named, PlayerName
<1>4. Named(dialName')
  BY <1>1, <1>3, PlayerFacts
<1>5. Named(dialName)'
  BY <1>1, <1>4, Zenon DEF Named
<1>6. dial' \in {"dialing", "failed"} /\ dialed = None /\ net = None /\ fatal = FALSE
  BY <1>1, PlayerFacts
<1>7. AttemptInv'
  BY <1>1, <1>5, <1>6, PlayerFacts DEF AttemptInv
<1>8. /\ net' \in 1..Len(conns) \cup {None} /\ dialed' \in 1..Len(conns) \cup {None}
      /\ dial' \in {"none", "dialing", "joining", "failed", "joined"}
      /\ attempts' \in Nat /\ wait' \in 0..MaxDelay /\ up' \in BOOLEAN /\ (up => up')
      /\ othersJoined' \in 0..MaxOthers /\ IsFiniteSet(others')
      /\ (dial' = "joining" => dial = "joining" /\ dialed' = dialed) /\ (fatal => net' = None)
  BY <1>1, <1>6, PlayerFacts
<1>9. \A i \in 1..Len(conns) : conns[i].alive => i \in {net', dialed'}
  BY <1>1, PlayerFacts, Zenon
<1> QED BY <1>1, <1>2, <1>7, <1>8, <1>9, AttemptChanges

\* A server that runs accepts the attempt, and it is the last connection made.
LEMMA PlayerDials == ASSUME PlayerInv, Player!Dial, up PROVE PlayerInv'
<1> DEFINE new == [alive |-> TRUE, reads |-> FALSE, inbox |-> <<>>, snaps |-> 0,
                   err |-> "none", server |-> "accepted", join |-> dialName, name |-> None]
<1>1. /\ dial = "dialing" /\ conns' = Append(conns, new) /\ dial' = "joining" /\ dialed' = Len(conns')
      /\ net' = net /\ fatal' = fatal /\ ring' = ring /\ picked' = picked /\ sess' = sess
      /\ dialName' = dialName /\ attempts' = attempts /\ wait' = wait
      /\ up' = up /\ others' = others /\ othersJoined' = othersJoined /\ faults' = faults
  BY DEF Player!Dial, Player!game, Player!server
<1>2. /\ conns \in Seq(ConnRec) /\ Len(conns) \in Nat /\ None \notin Nat /\ net = None /\ dialed = None
      /\ fatal = FALSE /\ Named(dialName)
  BY <1>1, PlayerFacts
<1>3. /\ new \in ConnRec /\ new.alive = TRUE /\ new.reads = FALSE /\ new.inbox = <<>> /\ new.err = "none"
      /\ new.server = "accepted" /\ new.join = dialName /\ new.name = None
  <2> DEFINE B == Seq({"welcome", "snapshot", "error"})
             N == PlayerName \cup {None}
  <2>1. <<>> \in B /\ 0 \in 0..RingLen /\ dialName \in PlayerName /\ None \in N
    BY <1>2, PlayerConstants DEF Named
  <2> HIDE DEF B, N
  <2>2. new \in [alive : BOOLEAN, reads : BOOLEAN, inbox : B, snaps : 0..RingLen,
                 err : {"none", "lost", "fatal"}, server : {"accepted", "asked", "session", "gone"},
                 join : PlayerName, name : N]
    BY <2>1
  <2> QED BY <2>2 DEF ConnRec, B, N
<1> HIDE DEF new
<1>4. /\ conns' \in Seq(ConnRec) /\ Len(conns') = Len(conns) + 1 /\ conns'[Len(conns) + 1] = new
      /\ \A i \in 1..Len(conns) : conns'[i] = conns[i]
  BY <1>1, <1>2, <1>3
<1>5. /\ 1..Len(conns) \subseteq 1..Len(conns') /\ dialed' = Len(conns) + 1 /\ dialed' \in 1..Len(conns')
      /\ dialed' # None
  BY <1>1, <1>2, <1>4
<1>6. ring' \in Seq(1..Len(conns')) /\ Len(ring') <= RingLen
  <2>1. ring \in Seq(1..Len(conns)) /\ Len(ring) <= RingLen
    BY DEF PlayerInv, PlayerTyped
  <2> DEFINE S == 1..Len(conns)
             T == 1..Len(conns')
  <2>2. ring \in Seq(S) /\ S \subseteq T
    BY <1>5, <2>1
  <2> HIDE DEF S, T
  <2>3. ring \in Seq(T)
    BY <2>2
  <2> QED BY <1>1, <2>1, <2>3 DEF T
<1>7. PlayerTyped'
  <2>1. (sess # None => Named(sess))'
    BY <1>1, PlayerFacts, Zenon DEF Named
  <2> QED BY <1>1, <1>2, <1>4, <1>5, <1>6, <2>1, PlayerFacts, Zenon DEF PlayerTyped
<1>8. AttemptInv'
  BY <1>1, <1>2, <1>5, Zenon DEF AttemptInv, Named
<1>9. ConnsInv'
  <2> SUFFICES ASSUME NEW i \in 1..Len(conns') PROVE ConnInv(i, conns[i])'
    BY DEF ConnsInv
  <2>1. CASE i = Len(conns) + 1
    <3>1. conns'[i] = new /\ i = dialed'
      BY <1>4, <1>5, <2>1
    <3>2. ~\E k \in 1..Len(<<>>) : <<>>[k] = "error"
      OBVIOUS
    <3> QED BY <1>1, <1>2, <1>3, <3>1, <3>2, Zenon DEF ConnInv, Named
  <2>2. CASE i # Len(conns) + 1
    <3>1. i \in 1..Len(conns)
      BY <1>2, <1>4, <2>2
    <3>2. ConnInv(i, conns[i]) /\ conns'[i] = conns[i] /\ i # None
      BY <1>2, <1>4, <3>1 DEF PlayerInv, ConnsInv
    <3>3. ~conns[i].alive
      BY <1>2, <3>1, <3>2, Zenon DEF ConnInv
    <3>4. dialed' # i
      BY <1>5, <2>2
    <3> QED BY <1>1, <3>2, <3>3, <3>4, Zenon DEF ConnInv, Named
  <2> QED BY <2>1, <2>2
<1>10. EndInv'
  BY <1>1, <1>2 DEF EndInv
<1>11. RingInv'
  BY <1>1, Zenon DEF PlayerInv, RingInv
<1> QED BY <1>7, <1>8, <1>9, <1>10, <1>11 DEF PlayerInv

\* A dialed connection that still lives is asked to join; one that does not has failed.
LEMMA PlayerAsks == ASSUME PlayerInv, Player!Join PROVE PlayerInv'
<1> DEFINE c == conns[dialed]
           f == [c EXCEPT !.reads = TRUE, !.server = "asked"]
<1>1. /\ dial = "joining"
      /\ \/ c.alive /\ Player!Set(dialed, f) /\ dial' = "joined" /\ dialed' = dialed
         \/ ~c.alive /\ dial' = "failed" /\ dialed' = None /\ conns' = conns
      /\ net' = net /\ fatal' = fatal /\ ring' = ring /\ picked' = picked /\ sess' = sess
      /\ dialName' = dialName /\ attempts' = attempts /\ wait' = wait
      /\ up' = up /\ others' = others /\ othersJoined' = othersJoined /\ faults' = faults
  BY DEF Player!Join, Player!game, Player!server
<1>2. /\ conns \in Seq(ConnRec) /\ Len(conns) \in Nat /\ None \notin Nat /\ net = None /\ dialed # None
      /\ fatal = FALSE /\ Named(dialName) /\ dialed \in 1..Len(conns) /\ dialed = Len(conns)
  BY <1>1, PlayerFacts
<1>3. c \in ConnRec /\ ConnInv(dialed, c)
  BY <1>2, ConnFacts
<1>4. c.inbox = <<>> /\ c.err = "none" /\ c.name = None
  BY <1>1, <1>3, Zenon DEF ConnInv
<1>5. Named(dialName)'
  BY <1>1, <1>2, Zenon DEF Named
<1>6. AttemptInv'
  <2>1. CASE dial' = "joined" /\ dialed' = dialed /\ Player!Set(dialed, f)
    <3>1. Len(conns') = Len(conns)
      BY <1>2, <2>1 DEF Player!Set
    <3> QED BY <1>1, <1>2, <1>5, <2>1, <3>1 DEF AttemptInv
  <2>2. CASE dial' = "failed" /\ dialed' = None /\ conns' = conns
    BY <1>1, <1>2, <1>5, <2>2 DEF AttemptInv
  <2> QED BY <1>1, <2>1, <2>2
<1>7. CASE ~c.alive /\ dial' = "failed" /\ dialed' = None /\ conns' = conns
  <2>1. \A i \in 1..Len(conns) : ~conns[i].alive
    <3>1. \A i \in 1..Len(conns) : conns[i].alive => i \in {net, dialed}
      BY PlayerFacts, Zenon
    <3>2. \A i \in 1..Len(conns) : i # net
      BY <1>2
    <3> QED BY <1>7, <3>1, <3>2, Zenon
  <2>2. /\ net' \in 1..Len(conns) \cup {None} /\ dialed' \in 1..Len(conns) \cup {None}
        /\ dial' \in {"none", "dialing", "joining", "failed", "joined"} /\ dial' # "joining"
        /\ attempts' \in Nat /\ wait' \in 0..MaxDelay /\ up' \in BOOLEAN /\ (up => up')
        /\ faults' \in 0..MaxFaults /\ othersJoined' \in 0..MaxOthers /\ IsFiniteSet(others')
        /\ (fatal => net' = None)
    BY <1>1, <1>7, PlayerFacts
  <2> HIDE DEF c
  <2> QED BY <1>1, <1>6, <1>7, <2>1, <2>2, AttemptChanges
<1>8. CASE c.alive /\ Player!Set(dialed, f) /\ dial' = "joined" /\ dialed' = dialed
  <2> HIDE DEF c
  <2>1. /\ f \in ConnRec /\ f.alive = c.alive /\ f.reads = TRUE /\ f.inbox = c.inbox /\ f.err = c.err
        /\ f.server = "asked" /\ f.join = c.join /\ f.name = c.name
    BY <1>3 DEF ConnRec
  <2>2. conns' = [conns EXCEPT ![dialed] = f]
    BY <1>8 DEF Player!Set
  <2> HIDE DEF f
  <2>3. /\ conns' \in Seq(ConnRec) /\ Len(conns') = Len(conns) /\ conns'[dialed] = f
        /\ \A j \in 1..Len(conns) : j # dialed => conns'[j] = conns[j]
    BY <1>2, <2>1, <2>2
  <2>4. PlayerTyped'
    <3>1. (sess # None => Named(sess))'
      BY <1>1, PlayerFacts, Zenon DEF Named
    <3>2. ring' \in Seq(1..Len(conns')) /\ Len(ring') <= RingLen
      BY <1>1, <2>3, Zenon DEF PlayerInv, PlayerTyped
    <3>3. dial' \in {"none", "dialing", "joining", "failed", "joined"}
      BY <1>8
    <3> QED BY <1>1, <1>8, <2>3, <3>1, <3>2, <3>3, PlayerFacts, Zenon DEF PlayerTyped
  <2>5. ConnsInv'
    <3> SUFFICES ASSUME NEW j \in 1..Len(conns) PROVE ConnInv(j, conns[j])'
      BY <2>3, Zenon DEF ConnsInv
    <3>1. dial' # "joining"
      BY <1>8
    <3>2. CASE j = dialed
      <4>1. ~\E k \in 1..Len(<<>>) : <<>>[k] = "error"
        OBVIOUS
      <4>2. conns'[j] = f
        BY <2>3, <3>2
      <4> QED BY <1>1, <1>3, <1>4, <1>8, <2>1, <3>1, <3>2, <4>1, <4>2, Zenon DEF ConnInv, Named
    <3>3. CASE j # dialed
      <4>1. conns'[j] = conns[j]
        BY <2>3, <3>3
      <4>2. ConnInv(j, conns[j])
        BY DEF PlayerInv, ConnsInv
      <4> QED BY <1>1, <1>8, <3>1, <4>1, <4>2, Zenon DEF ConnInv, Named
    <3> QED BY <3>2, <3>3
  <2>6. EndInv'
    BY <1>1, <1>2 DEF EndInv
  <2>7. RingInv'
    BY <1>1, Zenon DEF PlayerInv, RingInv
  <2> QED BY <1>6, <2>4, <2>5, <2>6, <2>7 DEF PlayerInv
<1> QED BY <1>1, <1>7, <1>8

\* The attempt is over: another one is scheduled, or its connection is used from now on, with
\* an empty ring.
LEMMA PlayerTakes == ASSUME PlayerInv, Player!Reconnect PROVE PlayerInv'
<1>1. /\ net = None /\ dialName' = dialName /\ sess' = sess /\ conns' = conns /\ picked' = picked
      /\ fatal' = fatal /\ up' = up /\ others' = others /\ othersJoined' = othersJoined /\ faults' = faults
      /\ dial' = "none"
      /\ \/ /\ dial = "failed" /\ Player!ScheduleRetry
            /\ net' = net /\ ring' = ring /\ dialed' = dialed
         \/ /\ dial = "joined" /\ net' = dialed /\ dialed' = None
            /\ attempts' = 0 /\ wait' = wait /\ ring' = <<>>
  BY DEF Player!Reconnect, Player!TakeDial, Player!game, Player!server
<1>2. attempts' \in Nat /\ wait' \in 0..MaxDelay
  BY <1>1, Schedules, PlayerFacts
<1>3. AttemptInv'
  <2>1. CASE dial = "failed" /\ net' = net /\ dialed' = dialed
    BY <1>1, <2>1, PlayerFacts DEF AttemptInv
  <2>2. CASE dial = "joined" /\ net' = dialed /\ dialed' = None
    BY <1>1, <2>2, PlayerFacts DEF AttemptInv
  <2> QED BY <1>1, <2>1, <2>2
<1>4. \A i \in 1..Len(conns) : conns[i].alive => i \in {net', dialed'}
  <2>1. \A i \in 1..Len(conns) : i # None
    BY PlayerFacts
  <2>2. \A i \in 1..Len(conns) : conns[i].alive => i \in {net, dialed}
    BY PlayerFacts, Zenon
  <2> QED BY <1>1, <2>1, <2>2, Zenon
<1>5. /\ net' \in 1..Len(conns) \cup {None} /\ dialed' \in 1..Len(conns) \cup {None}
      /\ dial' \in {"none", "dialing", "joining", "failed", "joined"} /\ dial' # "joining"
      /\ up' \in BOOLEAN /\ (up => up')
      /\ faults' \in 0..MaxFaults /\ othersJoined' \in 0..MaxOthers /\ IsFiniteSet(others')
      /\ (ring' = ring \/ ring' = <<>>) /\ (net' = net \/ ring' = <<>>)
  BY <1>1, PlayerFacts
<1>6. fatal => net' = None
  BY <1>1, PlayerFacts
<1> QED BY <1>1, <1>2, <1>3, <1>4, <1>5, <1>6, AttemptChanges

\* Time passes, the server comes back, or other players come and go.
LEMMA PlayerWaits ==
  ASSUME PlayerInv,
         \/ Player!Tick \/ Player!Restart
         \/ \E b \in Bases : Player!OtherJoins(b)
         \/ \E n \in others : Player!OtherLeaves(n)
  PROVE  PlayerInv'
<1>1. /\ net' = net /\ fatal' = fatal /\ ring' = ring /\ picked' = picked /\ sess' = sess /\ conns' = conns
      /\ dial' = dial /\ dialed' = dialed /\ dialName' = dialName /\ attempts' = attempts /\ faults' = faults
      /\ wait' = wait \/ (wait > 0 /\ wait' = wait - 1)
      /\ up' = up \/ up' = TRUE
      /\ othersJoined' = othersJoined \/ (othersJoined < MaxOthers /\ othersJoined' = othersJoined + 1)
      /\ others' = others \/ (\E x : others' = others \cup {x}) \/ (\E x : others' = others \ {x})
  BY DEF Player!Tick, Player!Restart, Player!OtherJoins, Player!OtherLeaves,
         Player!game, Player!attempt, Player!server
<1>2. wait' \in 0..MaxDelay /\ othersJoined' \in 0..MaxOthers
  <2>1. wait \in 0..MaxDelay /\ othersJoined \in 0..MaxOthers /\ MaxDelay \in Nat /\ MaxOthers \in Nat
    BY PlayerFacts, PlayerConstants
  <2> QED BY <1>1, <2>1
<1>3. IsFiniteSet(others')
  <2>1. IsFiniteSet(others)
    BY PlayerFacts
  <2> QED BY <1>1, <2>1, FS_AddElement, FS_RemoveElement
<1>4. AttemptInv'
  BY <1>1, Zenon DEF PlayerInv, AttemptInv, Named
<1>5. /\ net' \in 1..Len(conns) \cup {None} /\ dialed' \in 1..Len(conns) \cup {None}
      /\ dial' \in {"none", "dialing", "joining", "failed", "joined"}
      /\ attempts' \in Nat /\ up' \in BOOLEAN /\ (up => up') /\ faults' \in 0..MaxFaults
      /\ (fatal => net' = None)
  <2>1. up' \in BOOLEAN /\ (up => up')
    <3>1. up \in BOOLEAN
      BY PlayerFacts
    <3>2. CASE up' = up
      BY <3>1, <3>2
    <3>3. CASE up' = TRUE
      BY <3>3
    <3> QED BY <1>1, <3>2, <3>3
  <2> QED BY <1>1, <2>1, PlayerFacts, Zenon
<1>6. \A i \in 1..Len(conns) : conns[i].alive => i \in {net', dialed'}
  BY <1>1, PlayerFacts, Zenon
<1> QED BY <1>1, <1>2, <1>3, <1>4, <1>5, <1>6, AttemptChanges

\* The server stops, and every connection with it.
LEMMA PlayerStops == ASSUME PlayerInv, Player!Stop PROVE PlayerInv'
<1> DEFINE f(i) == [conns[i] EXCEPT !.server = "gone", !.alive = FALSE]
<1>1. PlayerTyped /\ AttemptInv /\ ConnsInv /\ EndInv /\ RingInv
  BY DEF PlayerInv
<1>2. /\ net' = net /\ fatal' = fatal /\ ring' = ring /\ picked' = picked /\ sess' = sess
      /\ dial' = dial /\ dialed' = dialed /\ dialName' = dialName /\ attempts' = attempts /\ wait' = wait
      /\ up' = FALSE /\ others' = {} /\ othersJoined' = othersJoined
      /\ faults < MaxFaults /\ faults' = faults + 1
      /\ conns' = [i \in 1..Len(conns) |-> f(i)]
  BY DEF Player!Stop, Player!Fault, Player!game, Player!attempt, Player!ConnIds
<1>3. conns \in Seq(ConnRec) /\ Len(conns) \in Nat
  BY PlayerFacts
<1>4. ASSUME NEW i \in 1..Len(conns), NEW c, c = conns[i]
      PROVE  /\ f(i) \in ConnRec /\ f(i).server = "gone" /\ f(i).alive = FALSE /\ f(i).reads = c.reads
             /\ f(i).inbox = c.inbox /\ f(i).err = c.err /\ f(i).name = c.name /\ f(i).join = c.join
             /\ ConnInv(i, c)
  <2>1. c \in ConnRec /\ ConnInv(i, c)
    BY <1>4, ConnFacts
  <2>2. f(i) = [c EXCEPT !.server = "gone", !.alive = FALSE]
    BY <1>4
  <2> HIDE DEF f
  <2> QED BY <2>1, <2>2 DEF ConnRec
<1> HIDE DEF f
<1>5. /\ conns' \in Seq(ConnRec) /\ Len(conns') = Len(conns)
      /\ \A i \in 1..Len(conns) : conns'[i] = f(i)
  <2>1. \A i \in 1..Len(conns) : f(i) \in ConnRec
    BY <1>4
  <2> QED BY <1>2, <1>3, <2>1
<1>6. PlayerTyped'
  <2>1. (sess # None => Named(sess))'
    BY <1>1, <1>2, Zenon DEF PlayerTyped, Named
  <2>2. faults' \in 0..MaxFaults
    <3>1. faults \in 0..MaxFaults /\ MaxFaults \in Nat
      BY PlayerFacts, PlayerConstants
    <3> QED BY <1>2, <3>1
  <2>3. IsFiniteSet(others')
    BY <1>2, FS_EmptySet
  <2> QED BY <1>1, <1>2, <1>5, <2>1, <2>2, <2>3, Zenon DEF PlayerTyped
<1>7. AttemptInv'
  BY <1>1, <1>2, <1>5, Zenon DEF AttemptInv, Named
<1>8. ConnsInv'
  <2> SUFFICES ASSUME NEW i \in 1..Len(conns) PROVE ConnInv(i, conns[i])'
    BY <1>5, Zenon DEF ConnsInv
  <2>1. conns'[i] = f(i)
    BY <1>5
  <2> DEFINE c == conns[i]
  <2>2. /\ f(i).server = "gone" /\ f(i).alive = FALSE /\ f(i).reads = c.reads
        /\ f(i).inbox = c.inbox /\ f(i).err = c.err /\ f(i).name = c.name /\ f(i).join = c.join
        /\ ConnInv(i, c)
    BY <1>4
  <2> HIDE DEF c
  <2> QED BY <1>2, <2>1, <2>2, Zenon DEF ConnInv, Named
<1>9. EndInv'
  <2> SUFFICES ASSUME fatal
               PROVE  net' = None /\ conns' # <<>>
                      /\ conns'[Len(conns)].server = "gone" /\ conns'[Len(conns)].name = None
    BY <1>2, <1>5, Zenon DEF EndInv
  <2>1. net = None /\ conns # <<>> /\ conns[Len(conns)].name = None
    BY <1>1 DEF EndInv
  <2>2. Len(conns) \in 1..Len(conns) /\ conns' # <<>>
    BY <1>3, <1>5, <2>1
  <2> QED BY <1>2, <1>4, <1>5, <2>1, <2>2
<1>10. RingInv'
  BY <1>1, <1>2, Zenon DEF RingInv
<1> QED BY <1>6, <1>7, <1>8, <1>9, <1>10 DEF PlayerInv

\* Every step of the connection keeps its invariant.
LEMMA PlayerNext == PlayerInv /\ [Player!Next]_(Player!vars) => PlayerInv'
<1> SUFFICES ASSUME PlayerInv, [Player!Next]_(Player!vars) PROVE PlayerInv'
  OBVIOUS
<1>1. CASE Player!Client
  <2>1. CASE \E i \in Player!ConnIds : Player!ReadFrame(i) \/ Player!ReadFails(i)
    BY <2>1, PlayerReads, PlayerLoses DEF Player!ConnIds
  <2> QED BY <1>1, <2>1, PlayerPumps, PlayerTries, PlayerDials, PlayerAsks, PlayerTakes, PlayerWaits
        DEF Player!Client
<1>2. CASE Player!Server
  BY <1>2, PlayerWaits, PlayerJoins, PlayerHears, PlayerCut DEF Player!Server, Player!ConnIds
<1>3. CASE Player!World
  BY <1>3, PlayerTries, PlayerStops, PlayerLoses, PlayerCut, PlayerWaits DEF Player!World, Player!ConnIds
<1>4. CASE UNCHANGED Player!vars
  <2>1. /\ net' = net /\ fatal' = fatal /\ ring' = ring /\ picked' = picked /\ sess' = sess /\ conns' = conns
        /\ dial' = dial /\ dialed' = dialed /\ dialName' = dialName /\ attempts' = attempts /\ wait' = wait
        /\ up' = up /\ others' = others /\ othersJoined' = othersJoined /\ faults' = faults
    BY <1>4 DEF Player!vars
  <2> QED BY <2>1, Zenon DEF PlayerInv, PlayerTyped, AttemptInv, ConnsInv, ConnInv, EndInv, RingInv, Named
<1> QED BY <1>1, <1>2, <1>3, <1>4 DEF Player!Next

\* The invariant of the connection holds in every behaviour of it.
LEMMA PlayerInvariance == PlayerSafety => []PlayerInv
BY PlayerBegins, PlayerNext, PTL DEF PlayerSafety

\* However connections are lost, refused and made again, the client has one at a time, draws
\* from one only, and takes no loss for a refusal (game.go's reconnect, Net.fail, Ring.Reset).
THEOREM PlayerHasOneConnection ==
  PlayerSafety => [](Player!OneConnection /\ Player!RingOneConnection /\ Player!LossNotTerminal)
BY PlayerInvariance, PlayerImplies, PTL

-----------------------------------------------------------------------------
(* The client *)

\* The types of whichever part runs.
THEOREM ClientTyped == Spec => []TypeOK
<1>1. ClockInv => Estimate!TypeOK
  BY DEF ClockInv
<1>2. DisplayInv => Display!TypeOK
  BY DEF DisplayInv, DisplayTyped
<1>3. PlayerInv /\ ClockInv /\ DisplayInv => TypeOK
  BY <1>1, <1>2, PlayerImplies DEF TypeOK
<1> QED BY <1>3, EachByItself, PlayerInvariance, ClockInvariance, DisplayInvariance, PTL

\* The client never has two connections that live, draws from one only, and takes no loss
\* for a refusal (game.go's reconnect, Net.fail, Ring.Reset).
THEOREM ClientHasOneConnection == Spec => []OneConnection
<1>1. PlayerInv => OneConnection
  BY PlayerImplies DEF OneConnection
<1> QED BY <1>1, EachByItself, PlayerInvariance, PTL

\* Whatever a clock was set to, the estimate of the server's clock is right again after
\* jumpsBeforeResync ordinary samples, and so are the phase and the number shown after a
\* calm that long (Clock.Sample, DeriveHUD).
THEOREM ClientSettles == Spec => []Settles
<1>1. Estimate!EstimateHolds /\ Display!Settles => Settles
  BY DEF Settles
<1> QED BY <1>1, EachByItself, EstimateRecovers, DisplaySettles, PTL

=============================================================================
