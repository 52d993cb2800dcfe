-------------------------------- MODULE World --------------------------------
(***************************************************************************)
(* One flappy-race race as the server simulates it (internal/game:         *)
(* world.go, rank.go), tick by tick, with the order a client's overlay     *)
(* shows the birds in (internal/client/hud.go).                            *)
(*                                                                         *)
(* Lengths are whole numbers. The generator's draws are any of Draws; what *)
(* is only drawn (colours, names, the flap animation, the distance) is     *)
(* left out.                                                               *)
(***************************************************************************)
EXTENDS Integers, SequencesExt, FiniteSetsExt, Sorting

CONSTANTS
  Ids,                                   \* bound: the ids of racers
  Gravity, FlapImpulse, TerminalVel, BirdX, BirdRadius, PipeWidth, PipeGap, PipeSpacing,
  ScrollSpeed, FirstPipeX, GapYMin, GapYMax, MaxGapDelta, GroundY, CeilingY, SpawnY,
  ViewMaxW, RampEveryTicks, RampNum, RampDen, RampSpeedCap, RampGapShrink, RampGapFloor,
  MaxRaceTicks,                          \* protocol/const.go
  Draws                                  \* bound: what the generator returns

WorldAssumption ==
  /\ Ids \subseteq Nat /\ Draws \subseteq GapYMin..GapYMax
  /\ {Gravity, TerminalVel, BirdX, BirdRadius, PipeWidth, PipeGap, PipeSpacing, ScrollSpeed,
      FirstPipeX, MaxGapDelta, GroundY, CeilingY, ViewMaxW, RampEveryTicks, RampNum, RampDen,
      RampSpeedCap, RampGapShrink, RampGapFloor, MaxRaceTicks} \subseteq Nat \ {0}
  /\ {FlapImpulse, GapYMin, GapYMax, SpawnY} \subseteq Int /\ FlapImpulse + Gravity < 0
  /\ SpawnY \in GapYMin..GapYMax /\ SpawnY \in CeilingY..GroundY - BirdRadius
  /\ ScrollSpeed <= RampSpeedCap /\ RampGapFloor <= PipeGap /\ RampNum >= RampDen
  /\ RampSpeedCap < PipeWidth /\ RampSpeedCap < BirdX - BirdRadius
  /\ FirstPipeX > BirdX + BirdRadius /\ FirstPipeX < ViewMaxW + PipeSpacing

VARIABLES
  phase,         \* of the hub: "countdown" | "racing"
  tick, scroll, gap, pipes, order, birds, nextPipeID, lastGapY

course == <<scroll, gap, pipes, nextPipeID, lastGapY>>
vars == <<phase, tick, scroll, gap, pipes, order, birds, nextPipeID, lastGapY>>

Racers == ToSet(order)
Living == {id \in Racers : ~birds[id].dead}

TypeOK ==
  /\ phase \in {"countdown", "racing"} /\ tick \in 0..MaxRaceTicks
  /\ scroll \in ScrollSpeed..RampSpeedCap /\ gap \in RampGapFloor..PipeGap
  /\ \A i \in DOMAIN pipes : pipes[i].x > 0 - PipeWidth /\ pipes[i].x < ViewMaxW + PipeSpacing
  /\ IsInjective(order) /\ Racers \subseteq Ids /\ DOMAIN birds = Racers
  /\ \A id \in Racers : LET b == birds[id] IN
       /\ b.y \in CeilingY..GroundY + TerminalVel /\ b.vy \in FlapImpulse..TerminalVel
       /\ b.score \in Nat /\ b.next \in Nat \ {0} /\ b.death \in 0..tick
       /\ b.dead \in BOOLEAN /\ b.left \in BOOLEAN /\ (b.left => b.dead)
  /\ nextPipeID \in Nat /\ lastGapY \in GapYMin..GapYMax

-----------------------------------------------------------------------------
(* Birds *)

Clamp(v, lo, hi) == IF v < lo THEN lo ELSE IF v > hi THEN hi ELSE v

\* Mutant of Flown: the ceiling is open.
FlownAway(b, flapped) ==
  LET vy == Min({(IF flapped THEN FlapImpulse ELSE b.vy) + Gravity, TerminalVel})
  IN  [b EXCEPT !.vy = vy, !.y = @ + vy]

Flown(b, flapped) ==
  LET vy == Min({(IF flapped THEN FlapImpulse ELSE b.vy) + Gravity, TerminalVel})
  IN  IF b.y + vy < CeilingY
        THEN [b EXCEPT !.vy = Max({vy, 0}), !.y = CeilingY]
        ELSE [b EXCEPT !.vy = vy, !.y = @ + vy]

CircleRect(cx, cy, r, x0, y0, x1, y1) ==
  LET dx == cx - Clamp(cx, x0, x1)
      dy == cy - Clamp(cy, y0, y1)
  IN  dx * dx + dy * dy < r * r

Top(p) == p.gapY - p.gapH \div 2
Bot(p) == p.gapY + p.gapH \div 2

\* Mutant of Hits: the window ends with the pipe's left edge.
HitsEdge(y, p) ==
  /\ p.x <= BirdX + BirdRadius /\ p.x >= BirdX - BirdRadius
  /\ \/ CircleRect(BirdX, y, BirdRadius, p.x, 0, p.x + PipeWidth, Top(p))
     \/ CircleRect(BirdX, y, BirdRadius, p.x, Bot(p), p.x + PipeWidth, GroundY)

Hits(y, p) ==
  /\ p.x <= BirdX + BirdRadius /\ p.x + PipeWidth >= BirdX - BirdRadius
  /\ \/ CircleRect(BirdX, y, BirdRadius, p.x, 0, p.x + PipeWidth, Top(p))
     \/ CircleRect(BirdX, y, BirdRadius, p.x, Bot(p), p.x + PipeWidth, GroundY)

Passed(p) == p.x + PipeWidth < BirdX - BirdRadius

\* The pipes that score for a bird in this tick: its next one and those right
\* after it, as far as they are behind it.
Scoring(b, ps) ==
  {p \in ToSet(ps) : p.id >= b.next
     /\ \A k \in b.next..p.id : \E q \in ToSet(ps) : q.id = k /\ Passed(q)}

Judged(b, ps, t) ==
  IF b.y + BirdRadius >= GroundY \/ \E p \in ToSet(ps) : Hits(b.y, p)
    THEN [b EXCEPT !.dead = TRUE, !.death = t]
    ELSE LET n == Cardinality(Scoring(b, ps)) IN [b EXCEPT !.score = @ + n, !.next = @ + n]

-----------------------------------------------------------------------------
(* The course *)

RampedScroll(t) ==
  IF t % RampEveryTicks = 0 THEN Min({(scroll * RampNum) \div RampDen, RampSpeedCap}) ELSE scroll

RampedGap(t) ==
  IF t % RampEveryTicks = 0 THEN Max({gap - RampGapShrink, RampGapFloor}) ELSE gap

\* The pipes stand in the order of their x (CourseRegular), so the filter drops the first.
Kept(by) ==
  LET moved == [i \in DOMAIN pipes |-> [pipes[i] EXCEPT !.x = @ - by]]
      gone  == Cardinality({i \in DOMAIN moved : moved[i].x <= 0 - PipeWidth})
  IN  SubSeq(moved, gone + 1, Len(moved))

NextX(ps) == IF ps = <<>> THEN FirstPipeX ELSE Last(ps).x + PipeSpacing

\* How many pipes are missing up to one spacing beyond the widest view.
MissingPipes(ps) ==
  Cardinality({k \in 0..ViewMaxW + PipeSpacing : NextX(ps) + k * PipeSpacing < ViewMaxW + PipeSpacing})

GapAfter(last, draw) ==
  Clamp(Clamp(draw, last - MaxGapDelta, last + MaxGapDelta), GapYMin, GapYMax)

\* The gaps of new pipes, each near the one before it.
Drawn(gaps) ==
  \A i \in DOMAIN gaps :
    \E draw \in Draws : gaps[i] = GapAfter(IF i = 1 THEN lastGapY ELSE gaps[i - 1], draw)

Spawned(ps, gaps, h) ==
  [i \in DOMAIN gaps |-> [id |-> nextPipeID + i, x |-> NextX(ps) + (i - 1) * PipeSpacing,
                          gapY |-> gaps[i], gapH |-> h]]

-----------------------------------------------------------------------------
(* Operations *)

AddBird(id) ==
  /\ phase = "countdown" /\ \A o \in Racers : o < id
  /\ order' = Append(order, id)
  /\ birds' = [o \in Racers \cup {id} |->
                 IF o \in Racers THEN birds[o]
                 ELSE [y |-> SpawnY, vy |-> 0, score |-> 0, dead |-> FALSE, death |-> 0,
                       left |-> FALSE, next |-> 1]]
  /\ UNCHANGED <<phase, tick, course>>

RemoveBird(id) ==
  /\ phase = "countdown" /\ id \in Racers
  /\ \E i \in DOMAIN order : order[i] = id /\ order' = RemoveAt(order, i)
  /\ birds' = [o \in Racers \ {id} |-> birds[o]]
  /\ UNCHANGED <<phase, tick, course>>

\* The hub's change from countdown to race.
Go ==
  /\ phase = "countdown" /\ order # <<>>
  /\ phase' = "racing"
  /\ UNCHANGED <<tick, order, birds, course>>

\* When the hub ends the race: it takes the results, and makes a new world later.
Over == phase = "racing" /\ (Living = {} \/ tick >= MaxRaceTicks)

\* Mutant of KillLeft: the tick of the death is left out.
KillLeftUndated(id) ==
  /\ phase = "racing" /\ ~Over /\ id \in Living
  /\ birds' = [birds EXCEPT ![id].dead = TRUE, ![id].left = TRUE]
  /\ UNCHANGED <<phase, tick, order, course>>

KillLeft(id) ==
  /\ phase = "racing" /\ ~Over /\ id \in Living
  /\ birds' = [birds EXCEPT ![id].dead = TRUE, ![id].left = TRUE, ![id].death = tick]
  /\ UNCHANGED <<phase, tick, order, course>>

Step(flaps) ==
  /\ phase = "racing" /\ ~Over
  /\ tick' = tick + 1
  /\ scroll' = RampedScroll(tick') /\ gap' = RampedGap(tick')
  /\ LET kept == Kept(scroll') IN
       \E gaps \in [1..MissingPipes(kept) -> GapYMin..GapYMax] :
         LET new == Spawned(kept, gaps, gap') IN
           /\ Drawn(gaps)
           /\ pipes' = kept \o new
           /\ nextPipeID' = nextPipeID + Len(new)
           /\ lastGapY' = IF new = <<>> THEN lastGapY ELSE Last(new).gapY
  /\ birds' = [id \in Racers |-> IF birds[id].dead THEN birds[id]
                                 ELSE Judged(Flown(birds[id], id \in flaps), pipes', tick')]
  /\ UNCHANGED <<phase, order>>

NewWorld ==
  /\ Over
  /\ phase' = "countdown" /\ tick' = 0 /\ scroll' = ScrollSpeed /\ gap' = PipeGap
  /\ pipes' = <<>> /\ order' = <<>> /\ birds' = [id \in {} |-> 0]
  /\ nextPipeID' = 0 /\ lastGapY' = SpawnY

Init ==
  /\ phase = "countdown" /\ tick = 0 /\ scroll = ScrollSpeed /\ gap = PipeGap
  /\ pipes = <<>> /\ order = <<>> /\ birds = [id \in {} |-> 0]
  /\ nextPipeID = 0 /\ lastGapY = SpawnY

Next ==
  \/ \E id \in Ids : AddBird(id) \/ RemoveBird(id)
  \/ Go
  \/ \E id \in Living : KillLeft(id)
  \/ \E flaps \in SUBSET Living : Step(flaps)
  \/ NewWorld

Spec == Init /\ [][Next]_vars

-----------------------------------------------------------------------------
(* The two orders *)

Death(id) == IF birds[id].dead THEN birds[id].death ELSE MaxRaceTicks

Above(a, b) ==
  \/ birds[a].score > birds[b].score
  \/ /\ birds[a].score = birds[b].score
     /\ Death(a) > Death(b) \/ (Death(a) = Death(b) /\ a < b)

Results == Sorted(Racers, {ab \in Racers \X Racers : Above(ab[1], ab[2])})

HudAbove(a, b) ==
  \/ a \in Living /\ b \notin Living
  \/ /\ a \in Living <=> b \in Living
     /\ birds[a].score > birds[b].score \/ (birds[a].score = birds[b].score /\ a < b)

HudRows == Sorted(Racers, {ab \in Racers \X Racers : HudAbove(ab[1], ab[2])})

Before(a, b, s) == \E i, j \in DOMAIN s : i < j /\ s[i] = a /\ s[j] = b

-----------------------------------------------------------------------------
(* Properties *)

\* A living bird's score is the number of the last pipe behind it: none is
\* counted twice, and none goes before it was counted (Step's drop and scoring).
ScoreIsPassed ==
  tick > 0 => \A id \in Living : LET b == birds[id] IN
    /\ b.next = b.score + 1
    /\ \A p \in ToSet(pipes) : Passed(p) <=> p.id < b.next
    /\ Head(pipes).id <= b.next

\* However fast the race has become, no pipe gets past a bird between two
\* ticks: it is at the birds' column in at least one of them, and whoever lives
\* then is within its gap (the ramp against the collision test).
ThroughEveryGap ==
  [][\A q \in ToSet(pipes)' :
       q.x <= BirdX =>
         IF q.x + PipeWidth >= BirdX
           THEN \A id \in Living' : birds'[id].y > Top(q) /\ birds'[id].y < Bot(q)
           ELSE \E p \in ToSet(pipes) : p.id = q.id /\ p.x <= BirdX]_vars

\* The pipes are evenly spaced and consecutive, reach beyond the widest view
\* all the time, and each gap can be flown to from the one before it
\* (Step's spawning, spawnPipe).
CourseRegular ==
  /\ tick > 0 => NextX(pipes) >= ViewMaxW + PipeSpacing
  /\ pipes # <<>> => Last(pipes).id = nextPipeID /\ Last(pipes).gapY = lastGapY
  /\ \A i \in 1..Len(pipes) - 1 : LET p == pipes[i]  q == pipes[i + 1] IN
       /\ q.id = p.id + 1 /\ q.x = p.x + PipeSpacing
       /\ q.gapY - p.gapY \in (0 - MaxGapDelta)..MaxGapDelta
       /\ q.gapH <= p.gapH

\* "surviving longer is better" (rank.go:10): who died earlier never ranks
\* above who died later, whatever killed them and whatever the scores, so the
\* score can never contradict the deaths it comes before in Results.
RankedBySurvival ==
  \A a, b \in Racers : Death(a) > Death(b) => Before(a, b, Results)

\* What the overlay shows of a race under way comes true: the living are above
\* the dead there and in the results, and two birds with different scores are
\* in one order in both (DeriveHUD against Results).
HudComesTrue ==
  tick < MaxRaceTicks =>
    \A a, b \in Racers :
      (a \in Living /\ b \notin Living) \/ birds[a].score > birds[b].score =>
        Before(a, b, HudRows) /\ Before(a, b, Results)

\* The overlay and the results agree about who is ahead, as "surviving longer is better"
\* says.
FairRanking == RankedBySurvival /\ HudComesTrue

\* The course is the same for everybody and can be flown, and a score is what was flown
\* of it.
FairCourse == [](ScoreIsPassed /\ CourseRegular) /\ ThroughEveryGap

=============================================================================
