-------------------------- MODULE LocalRace_proofs --------------------------
(***************************************************************************)
(* Proofs about the race of Local, for any sizes of the screen and of its  *)
(* things, and for any players.                                            *)
(***************************************************************************)
EXTENDS Local, OrderLemmas

-----------------------------------------------------------------------------
(* World: arithmetic *)

\* What the constants of the world are, one fact each.
LEMMA WorldConstants ==
  /\ Ids \subseteq Nat /\ Draws \subseteq GapYMin..GapYMax
  /\ Gravity \in Nat /\ Gravity >= 1 /\ TerminalVel \in Nat /\ TerminalVel >= 1
  /\ BirdX \in Nat /\ BirdX >= 1 /\ BirdRadius \in Nat /\ BirdRadius >= 1
  /\ PipeWidth \in Nat /\ PipeWidth >= 1 /\ PipeGap \in Nat /\ PipeSpacing \in Nat /\ PipeSpacing >= 1
  /\ ScrollSpeed \in Nat /\ ScrollSpeed >= 1 /\ FirstPipeX \in Nat /\ FirstPipeX >= 1
  /\ MaxGapDelta \in Nat /\ GroundY \in Nat /\ CeilingY \in Nat /\ CeilingY >= 1
  /\ ViewMaxW \in Nat /\ ViewMaxW >= 1 /\ RampEveryTicks \in Nat /\ RampEveryTicks >= 1
  /\ RampNum \in Nat /\ RampDen \in Nat /\ RampDen >= 1 /\ RampSpeedCap \in Nat
  /\ RampGapShrink \in Nat /\ RampGapFloor \in Nat /\ MaxRaceTicks \in Nat /\ MaxRaceTicks >= 1
  /\ FlapImpulse \in Int /\ GapYMin \in Int /\ GapYMax \in Int /\ SpawnY \in Int
  /\ FlapImpulse + Gravity < 0
  /\ GapYMin <= SpawnY /\ SpawnY <= GapYMax /\ CeilingY <= SpawnY /\ SpawnY <= GroundY - BirdRadius
  /\ ScrollSpeed <= RampSpeedCap /\ RampGapFloor <= PipeGap /\ RampNum >= RampDen
  /\ RampSpeedCap < PipeWidth /\ RampSpeedCap < BirdX - BirdRadius
  /\ FirstPipeX > BirdX + BirdRadius /\ FirstPipeX < ViewMaxW + PipeSpacing
<1>1. Race!WorldAssumption
  BY LocalAssumption DEF LocalAssumption
<1>2. {Gravity, TerminalVel, BirdX, BirdRadius, PipeWidth, PipeGap, PipeSpacing, ScrollSpeed,
      FirstPipeX, MaxGapDelta, GroundY, CeilingY, ViewMaxW, RampEveryTicks, RampNum, RampDen,
      RampSpeedCap, RampGapShrink, RampGapFloor, MaxRaceTicks} \subseteq Nat \ {0}
  BY <1>1 DEF Race!WorldAssumption
<1>3. \A x \in Nat \ {0} : x \in Nat /\ x >= 1
  OBVIOUS
<1>4. /\ Gravity \in Nat \ {0} /\ TerminalVel \in Nat \ {0} /\ BirdX \in Nat \ {0}
      /\ BirdRadius \in Nat \ {0} /\ PipeWidth \in Nat \ {0} /\ PipeGap \in Nat \ {0}
      /\ PipeSpacing \in Nat \ {0} /\ ScrollSpeed \in Nat \ {0} /\ FirstPipeX \in Nat \ {0}
      /\ MaxGapDelta \in Nat \ {0} /\ GroundY \in Nat \ {0} /\ CeilingY \in Nat \ {0}
      /\ ViewMaxW \in Nat \ {0} /\ RampEveryTicks \in Nat \ {0} /\ RampNum \in Nat \ {0}
      /\ RampDen \in Nat \ {0} /\ RampSpeedCap \in Nat \ {0} /\ RampGapShrink \in Nat \ {0}
      /\ RampGapFloor \in Nat \ {0} /\ MaxRaceTicks \in Nat \ {0}
  BY <1>2
<1>5. /\ Ids \subseteq Nat /\ Draws \subseteq GapYMin..GapYMax
      /\ FlapImpulse \in Int /\ GapYMin \in Int /\ GapYMax \in Int /\ SpawnY \in Int
      /\ SpawnY \in GapYMin..GapYMax /\ SpawnY \in CeilingY..GroundY - BirdRadius
  BY <1>1 DEF Race!WorldAssumption
<1>6. /\ FlapImpulse + Gravity < 0
      /\ ScrollSpeed <= RampSpeedCap /\ RampGapFloor <= PipeGap /\ RampNum >= RampDen
      /\ RampSpeedCap < PipeWidth /\ RampSpeedCap < BirdX - BirdRadius
      /\ FirstPipeX > BirdX + BirdRadius /\ FirstPipeX < ViewMaxW + PipeSpacing
  BY <1>1 DEF Race!WorldAssumption
<1> QED BY <1>3, <1>4, <1>5, <1>6

\* What is at least as much as one number is at least as much as a lesser one.
LEMMA NotLessThan == \A a, b, c \in Int : a >= b /\ c <= b => a >= c
  OBVIOUS

\* What is moved back stays behind.
LEMMA LessFurtherBack == \A a, b \in Int : \A s \in Nat : a < b => a - s < b
  OBVIOUS

\* What is moved back together stays in order, and so does what is a step further on.
LEMMA MovedTogether ==
  /\ \A a, b \in Int : \A s \in Nat : a < b => a - s < b - s
  /\ \A x, a, b \in Int : \A s \in Nat : s >= 1 /\ a + s <= b => x + a < x + b
  OBVIOUS

\* The lesser and the greater of two numbers.
LEMMA OfTwo ==
  ASSUME NEW a \in Int, NEW b \in Int
  PROVE  /\ Race!Min({a, b}) \in Int /\ Race!Min({a, b}) <= a /\ Race!Min({a, b}) <= b
         /\ Race!Min({a, b}) \in {a, b}
         /\ Race!Max({a, b}) \in Int /\ Race!Max({a, b}) >= a /\ Race!Max({a, b}) >= b
         /\ Race!Max({a, b}) \in {a, b}
<1>1. \E x \in {a, b} : \A y \in {a, b} : x <= y
  <2>1. CASE a <= b
    BY <2>1
  <2>2. CASE b <= a
    BY <2>2
  <2> QED BY <2>1, <2>2
<1>2. \E x \in {a, b} : \A y \in {a, b} : x >= y
  <2>1. CASE a <= b
    BY <2>1
  <2>2. CASE b <= a
    BY <2>2
  <2> QED BY <2>1, <2>2
<1>3. Race!Min({a, b}) \in {a, b} /\ \A y \in {a, b} : Race!Min({a, b}) <= y
  BY <1>1 DEF Race!Min
<1>4. Race!Max({a, b}) \in {a, b} /\ \A y \in {a, b} : Race!Max({a, b}) >= y
  BY <1>2 DEF Race!Max
<1> QED BY <1>3, <1>4

\* A clamped number is within the bounds, and the same if it was within them.
LEMMA ClampBetween ==
  ASSUME NEW v \in Int, NEW lo \in Int, NEW hi \in Int
  PROVE  /\ Race!Clamp(v, lo, hi) \in Int
         /\ lo <= hi => lo <= Race!Clamp(v, lo, hi) /\ Race!Clamp(v, lo, hi) <= hi
         /\ lo <= v /\ v <= hi => Race!Clamp(v, lo, hi) = v
  BY DEF Race!Clamp

\* A greater number of steps goes as much further.
LEMMA StepsApart ==
  ASSUME NEW a \in Int, NEW b \in Int, NEW s \in Nat, s >= 1, a < b
  PROVE  a * s \in Int /\ b * s \in Int /\ a * s + s <= b * s /\ (a + 1) * s = a * s + s
<1>1. a * s \in Int /\ b * s \in Int /\ (a + 1) * s = a * s + s
  OBVIOUS
<1>2. b * s = a * s + s + (b - a - 1) * s
  OBVIOUS
<1>3. (b - a - 1) * s >= 0
  <2>1. b - a - 1 \in Nat
    OBVIOUS
  <2> QED BY <2>1
<1>4. (b - a - 1) * s \in Int
  OBVIOUS
<1> QED BY <1>1, <1>2, <1>3, <1>4

\* A set of numbers with all those below each of them ends with its size.
LEMMA BelowIsCounted ==
  ASSUME NEW n \in Nat, NEW S \in SUBSET (1..n), \A i \in S : \A j \in 1..i : j \in S
  PROVE  Cardinality(S) \in 0..n /\ S = 1..Cardinality(S)
<1>1. CASE S = {}
  <2>1. Cardinality(S) = 0
    BY <1>1, FS_EmptySet
  <2> QED BY <1>1, <2>1
<1>2. CASE S # {}
  <2>1. PICK g \in S : \A i \in S : i <= g
    <3>1. S \subseteq Int /\ S \subseteq 0..n
      OBVIOUS
    <3> QED BY <1>2, <3>1, Greatest
  <2>4. g \in 1..n /\ g \in Nat /\ g <= n /\ g >= 1
    OBVIOUS
  <2>5. \A i \in S : i \in 1..g
    BY <2>1, <2>4
  <2>6. \A i \in 1..g : i \in S
    OBVIOUS
  <2>2. S = 1..g /\ g \in Nat /\ g <= n /\ g >= 1
    BY <2>4, <2>5, <2>6
  <2>3. Cardinality(1..g) = g
    BY <2>2, FS_Interval
  <2> QED BY <2>2, <2>3
<1> QED BY <1>1, <1>2

\* The same from zero on.
LEMMA BelowIsCountedFromZero ==
  ASSUME NEW n \in Nat, NEW S \in SUBSET (0..n), \A i \in S : \A j \in 0..i : j \in S
  PROVE  Cardinality(S) \in 0..n + 1 /\ S = 0..Cardinality(S) - 1
<1>1. CASE S = {}
  <2>1. Cardinality(S) = 0
    BY <1>1, FS_EmptySet
  <2> QED BY <1>1, <2>1
<1>2. CASE S # {}
  <2>1. PICK g \in S : \A i \in S : i <= g
    <3>1. S \subseteq Int /\ S \subseteq 0..n
      OBVIOUS
    <3> QED BY <1>2, <3>1, Greatest
  <2>4. g \in 0..n /\ g \in Nat /\ g <= n
    OBVIOUS
  <2>5. \A i \in S : i \in 0..g
    BY <2>1, <2>4
  <2>6. \A i \in 0..g : i \in S
    OBVIOUS
  <2>2. S = 0..g /\ g \in Nat /\ g <= n
    BY <2>4, <2>5, <2>6
  <2>3. Cardinality(0..g) = g + 1
    BY <2>2, FS_Interval
  <2> QED BY <2>2, <2>3
<1> QED BY <1>1, <1>2

\* The world's cardinality is the library's.
LEMMA RaceCardinality == \A S : Race!Cardinality(S) = Cardinality(S)
  BY DEF Race!Cardinality, Cardinality

\* The ramp only ever goes faster and narrower, within its limits.
LEMMA RampHolds ==
  ASSUME scroll \in ScrollSpeed..RampSpeedCap, gap \in RampGapFloor..PipeGap, NEW t \in Nat
  PROVE  /\ Race!RampedScroll(t) \in ScrollSpeed..RampSpeedCap
         /\ Race!RampedGap(t) \in RampGapFloor..PipeGap /\ Race!RampedGap(t) <= gap
<1>1. scroll \in Nat /\ gap \in Nat /\ ScrollSpeed <= scroll
  BY WorldConstants
<1> DEFINE q == (scroll * RampNum) \div RampDen
<1>2. q \in Int /\ q >= scroll
  <2>1. scroll * RampNum \in Nat /\ RampDen \in Nat /\ RampDen >= 1
    BY <1>1, WorldConstants
  <2>2. scroll * RampNum >= scroll * RampDen
    BY <1>1, WorldConstants
  <2>3. (scroll * RampDen) \div RampDen = scroll
    BY <1>1, <2>1
  <2>4. \A x, y \in Nat : x >= y => x \div RampDen >= y \div RampDen
    BY <2>1
  <2> QED BY <1>1, <2>1, <2>2, <2>3, <2>4
<1> HIDE DEF q
<1>3. Race!Min({q, RampSpeedCap}) \in ScrollSpeed..RampSpeedCap
  <2>1. Race!Min({q, RampSpeedCap}) \in {q, RampSpeedCap} /\ Race!Min({q, RampSpeedCap}) <= RampSpeedCap
        /\ Race!Min({q, RampSpeedCap}) \in Int
    <3>1. q \in Int /\ RampSpeedCap \in Int
      BY <1>2, WorldConstants
    <3> QED BY <3>1, OfTwo
  <2> QED BY <1>1, <1>2, <2>1, WorldConstants
<1>4. Race!RampedScroll(t) \in ScrollSpeed..RampSpeedCap
  BY <1>3 DEF Race!RampedScroll, q
<1>5. /\ Race!Max({gap - RampGapShrink, RampGapFloor}) \in {gap - RampGapShrink, RampGapFloor}
      /\ Race!Max({gap - RampGapShrink, RampGapFloor}) >= RampGapFloor
  <2>1. gap - RampGapShrink \in Int /\ RampGapFloor \in Int
    BY <1>1, WorldConstants
  <2> QED BY <2>1, OfTwo
<1>6. Race!Max({gap - RampGapShrink, RampGapFloor}) \in RampGapFloor..gap
  BY <1>1, <1>5, WorldConstants
<1> QED BY <1>1, <1>4, <1>6, WorldConstants DEF Race!RampedGap

-----------------------------------------------------------------------------
(* World: the course *)

PipeRec == [id: Nat, x: Int, gapY: GapYMin..GapYMax, gapH: Int]

\* As far as pipes are kept ready.
Far == ViewMaxW + PipeSpacing

\* Pipes in a row, each a gap that can be flown to from the one before it.
Spaced(ps) ==
  /\ ps \in Seq(PipeRec)
  /\ \A i, j \in 1..Len(ps) : i < j => ps[i].x < ps[j].x
  /\ \A i \in 1..Len(ps) - 1 : /\ ps[i + 1].x = ps[i].x + PipeSpacing
                               /\ ps[i + 1].gapY - ps[i].gapY \in (0 - MaxGapDelta)..MaxGapDelta
                               /\ ps[i + 1].gapH <= ps[i].gapH

CourseInv ==
  /\ phase \in {"countdown", "racing"} /\ tick \in 0..MaxRaceTicks
  /\ phase = "countdown" => tick = 0
  /\ scroll \in ScrollSpeed..RampSpeedCap /\ gap \in RampGapFloor..PipeGap
  /\ nextPipeID \in Nat /\ lastGapY \in GapYMin..GapYMax
  /\ Spaced(pipes)
  /\ \A i \in 1..Len(pipes) : /\ pipes[i].x > 0 - PipeWidth /\ pipes[i].x < Far
                              /\ pipes[i].gapH >= gap
                              /\ pipes[i].id = nextPipeID - Len(pipes) + i
  /\ pipes # <<>> => pipes[Len(pipes)].gapY = lastGapY
  /\ tick = 0 => pipes = <<>> /\ nextPipeID = 0
  /\ tick > 0 => pipes # <<>> /\ pipes[Len(pipes)].x + PipeSpacing >= Far

\* What a tick leaves of the pipes: all but the first few, further to the left.
Moved(ps, by, g) ==
  /\ ps \in Seq(PipeRec) /\ Len(ps) = Len(pipes) - g
  /\ \A i \in 1..Len(ps) :
       /\ i + g \in 1..Len(pipes)
       /\ ps[i].id = pipes[i + g].id /\ ps[i].x = pipes[i + g].x - by
       /\ ps[i].gapY = pipes[i + g].gapY /\ ps[i].gapH = pipes[i + g].gapH
       /\ ps[i].x > 0 - PipeWidth
  /\ \A i \in 1..g : pipes[i].x - by <= 0 - PipeWidth

\* The fields of a pipe in a list of pipes.
LEMMA PipeFields ==
  ASSUME NEW ps \in Seq(PipeRec), NEW i \in 1..Len(ps)
  PROVE  /\ ps[i] \in PipeRec /\ ps[i].id \in Nat /\ ps[i].x \in Int /\ ps[i].gapY \in Int
         /\ ps[i].gapY \in GapYMin..GapYMax /\ ps[i].gapH \in Int
<1>1. ps[i] \in PipeRec
  OBVIOUS
<1> QED BY <1>1 DEF PipeRec

\* The pipes a tick keeps are the last ones, moved by the scroll speed.
LEMMA KeptPipes ==
  ASSUME CourseInv, NEW by \in 1..RampSpeedCap, NEW ps, ps = Race!Kept(by)
  PROVE  \E g \in 0..Len(pipes) : Moved(ps, by, g) /\ (tick > 0 => g < Len(pipes))
<1> DEFINE n == Len(pipes)
           moved == [i \in DOMAIN pipes |-> [pipes[i] EXCEPT !.x = @ - by]]
           S == {i \in DOMAIN moved : moved[i].x <= 0 - PipeWidth}
           g == Cardinality(S)
<1>1. pipes \in Seq(PipeRec) /\ n \in Nat /\ DOMAIN pipes = 1..n /\ PipeWidth \in Nat /\ by \in Nat
  BY WorldConstants DEF CourseInv, Spaced
<1>2. \A i \in 1..n : pipes[i] \in PipeRec /\ pipes[i].x \in Int
  BY <1>1, PipeFields
<1>3. moved \in [1..n -> PipeRec]
  <2>1. ASSUME NEW i \in 1..n PROVE [pipes[i] EXCEPT !.x = @ - by] \in PipeRec
    <3>1. pipes[i] \in [id: Nat, x: Int, gapY: GapYMin..GapYMax, gapH: Int] /\ pipes[i].x - by \in Int
      BY <1>1, <1>2 DEF PipeRec
    <3> QED BY <3>1 DEF PipeRec
  <2> QED BY <1>1, <2>1
<1>4. \A i \in 1..n : /\ moved[i].id = pipes[i].id /\ moved[i].x = pipes[i].x - by
                      /\ moved[i].gapY = pipes[i].gapY /\ moved[i].gapH = pipes[i].gapH
  BY <1>1, <1>2 DEF PipeRec
<1>5. ps = SubSeq(moved, g + 1, Len(moved))
  BY RaceCardinality DEF Race!Kept
<1>6. moved \in Seq(PipeRec) /\ Len(moved) = n /\ DOMAIN moved = 1..n
  BY <1>1, <1>3
<1> HIDE DEF moved
<1>7. S = {i \in 1..n : pipes[i].x - by <= 0 - PipeWidth}
  BY <1>4, <1>6
<1> HIDE DEF S
<1>8. \A i \in S : \A j \in 1..i : j \in S
  <2> SUFFICES ASSUME NEW i \in S, NEW j \in 1..i, j # i PROVE j \in S
    OBVIOUS
  <2>1. i \in 1..n /\ j \in 1..n /\ j < i /\ pipes[i].x - by <= 0 - PipeWidth
    BY <1>1, <1>7
  <2>2. pipes[j].x < pipes[i].x
    BY <2>1 DEF CourseInv, Spaced
  <2>3. pipes[j].x \in Int /\ pipes[i].x \in Int
    BY <1>2, <2>1
  <2> QED BY <1>1, <1>7, <2>1, <2>2, <2>3
<1>9. S \in SUBSET (1..n)
  BY <1>7
<1>10. g \in 0..n /\ S = 1..g
  BY <1>1, <1>8, <1>9, BelowIsCounted
<1> HIDE DEF g
<1>16. n \in Nat /\ g \in Nat /\ g <= n
  <2>1. n \in Nat
    BY <1>1
  <2> HIDE DEF n
  <2> QED BY <1>10, <2>1
<1>17. g < n \/ g = n
  <2> HIDE DEF n
  <2> QED BY <1>16
<1>11. /\ ps \in Seq(PipeRec) /\ Len(ps) = n - g
       /\ \A i \in 1..Len(ps) : ps[i] = moved[i + g] /\ i + g \in 1..n /\ i + g \notin 1..g
  <2>1. g \in Nat /\ g <= n
    BY <1>1, <1>10
  <2>5. g + 1 \in 1..n + 1 /\ n \in 0..n /\ n \in g..n
    BY <1>1, <2>1
  <2>2. ps \in Seq(PipeRec) /\ Len(ps) = n - g
    <3>1. ps = SubSeq(moved, g + 1, n)
      BY <1>5, <1>6
    <3>2. \A i \in g + 1..n : moved[i] \in PipeRec
      BY <1>1, <1>3, <2>1
    <3>3. ps \in Seq(PipeRec)
      BY <1>6, <2>1, <2>5, <3>1, <3>2
    <3>4. Len(ps) = n - g
      <4>1. CASE g = n
        BY <1>1, <1>6, <3>1, <4>1
      <4>2. CASE g < n
        <5>1. g + 1 <= n /\ g + 1 \in Int /\ n \in Int
          BY <1>16, <4>2
        <5>2. n - (g + 1) + 1 = n - g
          BY <1>16
        <5> QED BY <1>6, <3>1, <5>1, <5>2
      <4> QED BY <1>17, <4>1, <4>2
    <3> QED BY <3>3, <3>4
  <2>3. ASSUME NEW i \in 1..Len(ps) PROVE ps[i] = moved[i + g]
    <3>2. i \in 1..(n + 1 - (g + 1)) /\ (g + 1) + i - 1 = i + g
      BY <1>1, <2>1, <2>2
    <3> QED BY <1>1, <1>5, <1>6, <2>1, <3>2
  <2>4. ASSUME NEW i \in 1..Len(ps) PROVE i + g \in 1..n /\ i + g \notin 1..g
    BY <1>1, <2>1, <2>2
  <2> QED BY <2>2, <2>3, <2>4
<1>12. \A i \in 1..Len(ps) : ps[i].x > 0 - PipeWidth
  <2> TAKE i \in 1..Len(ps)
  <2>1. i + g \in 1..n /\ i + g \notin S
    BY <1>10, <1>11
  <2>2. pipes[i + g].x \in Int /\ ~(pipes[i + g].x - by <= 0 - PipeWidth)
    BY <1>2, <1>7, <2>1
  <2>3. ps[i].x = pipes[i + g].x - by
    BY <1>4, <1>11, <2>1
  <2> QED BY <1>1, <2>2, <2>3
<1>13. \A i \in 1..g : pipes[i].x - by <= 0 - PipeWidth
  BY <1>7, <1>10
<1>14. Moved(ps, by, g)
  BY <1>4, <1>11, <1>12, <1>13 DEF Moved
<1>15. tick > 0 => g < n
  <2> SUFFICES ASSUME tick > 0, g = n PROVE FALSE
    BY <1>17
  <2>0. g = n
    OBVIOUS
  <2>1. n \in 1..g /\ n \in 1..n
    <3>1. pipes # <<>>
      BY DEF CourseInv
    <3> QED BY <1>1, <2>0, <3>1
  <2>2. pipes[n].x - by <= 0 - PipeWidth /\ pipes[n].x \in Int
    BY <1>2, <1>13, <2>1
  <2>3. pipes[n].x + PipeSpacing >= ViewMaxW + PipeSpacing
    BY DEF CourseInv, Far
  <2>4. by <= RampSpeedCap
    BY <1>1, WorldConstants
  <2> QED BY <1>1, <2>2, <2>3, <2>4, WorldConstants
<1> QED BY <1>10, <1>14, <1>15

\* Where the next pipe stands: out of sight of the birds, and after the last.
LEMMA NextIsAhead ==
  ASSUME CourseInv, NEW by \in 1..RampSpeedCap, NEW g \in 0..Len(pipes), NEW ps, Moved(ps, by, g),
         tick > 0 => g < Len(pipes)
  PROVE  /\ Race!NextX(ps) \in Int /\ Race!NextX(ps) > BirdX + BirdRadius - RampSpeedCap
         /\ Race!NextX(ps) > 0
         /\ ps # <<>> => /\ Len(ps) \in 1..Len(ps)
                         /\ Race!NextX(ps) = ps[Len(ps)].x + PipeSpacing
                         /\ ps[Len(ps)].gapY = lastGapY
                         /\ \A i \in 1..Len(ps) : ps[i].x < Race!NextX(ps)
<1>1. ps \in Seq(PipeRec) /\ Len(ps) = Len(pipes) - g /\ Len(pipes) \in Nat /\ pipes \in Seq(PipeRec)
  BY DEF Moved, CourseInv, Spaced
<1>2. CASE ps = <<>>
  BY <1>2, WorldConstants DEF Race!NextX
<1>3. CASE ps # <<>>
  <2> DEFINE n == Len(ps)
  <2>1. n \in 1..n /\ n + g = Len(pipes)
    BY <1>1, <1>3
  <2>2. Race!NextX(ps) = ps[n].x + PipeSpacing
    BY <1>3 DEF Race!NextX, Race!Last
  <2>3. /\ ps[n].x = pipes[Len(pipes)].x - by /\ ps[n].gapY = pipes[Len(pipes)].gapY
    BY <2>1 DEF Moved
  <2>4. pipes # <<>> /\ Len(pipes) \in 1..Len(pipes)
    <3>1. pipes # <<>>
      BY <1>1, <2>1
    <3> QED BY <1>1, <3>1
  <2>5. tick > 0 /\ pipes[Len(pipes)].x + PipeSpacing >= ViewMaxW + PipeSpacing
        /\ pipes[Len(pipes)].gapY = lastGapY
    <3>1. tick \in Nat /\ tick # 0
      BY <2>4, WorldConstants DEF CourseInv
    <3>2. tick > 0
      BY <3>1
    <3> QED BY <2>4, <3>2 DEF CourseInv, Far
  <2>6. pipes[Len(pipes)].x \in Int /\ by \in Nat /\ by <= RampSpeedCap
    BY <1>1, <2>4, PipeFields, WorldConstants
  <2>7. ps[n].x \in Int
    BY <2>3, <2>6
  <2>8. \A i \in 1..n : ps[i].x < ps[n].x + PipeSpacing
    <3> TAKE i \in 1..n
    <3>1. i + g \in 1..Len(pipes) /\ ps[i].x = pipes[i + g].x - by
      BY DEF Moved
    <3>2. pipes[i + g].x \in Int
      BY <1>1, <3>1, PipeFields
    <3>3. i + g < Len(pipes) \/ i + g = Len(pipes)
      BY <1>1, <3>1
    <3>5. \A j, k \in 1..Len(pipes) : j < k => pipes[j].x < pipes[k].x
      BY DEF CourseInv, Spaced
    <3>4. pipes[i + g].x <= pipes[Len(pipes)].x
      <4>1. CASE i + g < Len(pipes)
        BY <2>4, <2>6, <3>1, <3>2, <3>5, <4>1
      <4>2. CASE i + g = Len(pipes)
        BY <2>6, <4>2
      <4> QED BY <3>3, <4>1, <4>2
    <3> QED BY <2>3, <2>6, <2>7, <3>1, <3>2, <3>4, WorldConstants
  <2> QED BY <1>3, <2>1, <2>2, <2>3, <2>5, <2>6, <2>7, <2>8, WorldConstants
<1> QED BY <1>2, <1>3

\* As many pipes are made as are missing up to Far, and no more.
LEMMA MissingCounted ==
  ASSUME NEW ps, Race!NextX(ps) \in Int, Race!NextX(ps) > 0
  PROVE  /\ Race!MissingPipes(ps) \in Nat
         /\ \A k \in 0..Race!MissingPipes(ps) - 1 : Race!NextX(ps) + k * PipeSpacing < Far
         /\ Race!NextX(ps) + Race!MissingPipes(ps) * PipeSpacing >= Far
<1> DEFINE x == Race!NextX(ps)
           S == {k \in 0..Far : x + k * PipeSpacing < Far}
           m == Cardinality(S)
<1>1. Far \in Nat /\ PipeSpacing \in Nat /\ PipeSpacing >= 1
  BY WorldConstants DEF Far
<1>2. Race!MissingPipes(ps) = m
  BY RaceCardinality DEF Race!MissingPipes, Far
<1>3. ASSUME NEW k \in S, NEW j \in 0..k PROVE j \in S
  <2>1. CASE j = k
    BY <2>1
  <2>2. CASE j < k
    <3>1. j * PipeSpacing + PipeSpacing <= k * PipeSpacing /\ j * PipeSpacing \in Int /\ k * PipeSpacing \in Int
      BY <1>1, <2>2, StepsApart
    <3>2. x + k * PipeSpacing < Far /\ j \in 0..Far
      BY <1>1
    <3>3. x \in Int
      OBVIOUS
    <3> QED BY <1>1, <3>1, <3>2, <3>3
  <2> QED BY <2>1, <2>2
<1>4. S \in SUBSET (0..Far)
  OBVIOUS
<1> HIDE DEF S
<1>5. m \in 0..Far + 1 /\ S = 0..m - 1
  BY <1>1, <1>3, <1>4, BelowIsCountedFromZero
<1> HIDE DEF m, x
<1>6. m \notin S /\ m \in Nat
  BY <1>1, <1>5
<1>7. x + m * PipeSpacing >= Far
  <2>0. x \in Int /\ x > 0 /\ m * PipeSpacing \in Int
    BY <1>1, <1>6 DEF x
  <2>1. CASE m \in 0..Far
    BY <1>1, <1>6, <2>0, <2>1 DEF S
  <2>2. CASE m = Far + 1
    <3>1. m * PipeSpacing >= m
      BY <1>1, <1>6
    <3> QED BY <1>1, <2>0, <2>2, <3>1
  <2> QED BY <1>1, <1>5, <2>1, <2>2
<1>8. \A k \in 0..m - 1 : x + k * PipeSpacing < Far
  BY <1>5 DEF S
<1> QED BY <1>2, <1>6, <1>7, <1>8 DEF x

\* Two lists joined.
LEMMA Joined ==
  ASSUME NEW S, NEW a \in Seq(S), NEW b \in Seq(S)
  PROVE  /\ a \o b \in Seq(S) /\ Len(a \o b) = Len(a) + Len(b)
         /\ \A i \in 1..Len(a) + Len(b) :
              /\ i \in Nat /\ (i <= Len(a) \/ i > Len(a))
              /\ i <= Len(a) => i \in 1..Len(a) /\ (a \o b)[i] = a[i]
              /\ i > Len(a) => /\ i - Len(a) \in 1..Len(b) /\ (a \o b)[i] = b[i - Len(a)]
                               /\ (i - Len(a)) + Len(a) = i
<1>1. a \o b \in Seq(S) /\ Len(a \o b) = Len(a) + Len(b) /\ Len(a) \in Nat /\ Len(b) \in Nat
  OBVIOUS
<1>2. ASSUME NEW i \in 1..Len(a) + Len(b) PROVE (a \o b)[i] = IF i <= Len(a) THEN a[i] ELSE b[i - Len(a)]
  OBVIOUS
<1>3. ASSUME NEW i \in 1..Len(a) + Len(b)
      PROVE  /\ i \in Nat /\ (i <= Len(a) \/ i > Len(a)) /\ (i <= Len(a) => i \in 1..Len(a))
             /\ i > Len(a) => i - Len(a) \in 1..Len(b) /\ (i - Len(a)) + Len(a) = i /\ ~(i <= Len(a))
  BY <1>1
<1> QED BY <1>1, <1>2, <1>3

\* A new gap is within reach of the one before it.
LEMMA GapIsNear ==
  ASSUME NEW y \in GapYMin..GapYMax, NEW draw \in Draws
  PROVE  Race!GapAfter(y, draw) - y \in (0 - MaxGapDelta)..MaxGapDelta
<1> DEFINE c == Race!Clamp(draw, y - MaxGapDelta, y + MaxGapDelta)
<1>1. y \in Int /\ draw \in Int /\ GapYMin <= y /\ y <= GapYMax /\ MaxGapDelta \in Nat
      /\ GapYMin \in Int /\ GapYMax \in Int
  BY WorldConstants
<1>2. c \in Int /\ y - MaxGapDelta <= c /\ c <= y + MaxGapDelta
  <2>1. y - MaxGapDelta \in Int /\ y + MaxGapDelta \in Int /\ y - MaxGapDelta <= y + MaxGapDelta
    BY <1>1
  <2> QED BY <1>1, <2>1, ClampBetween
<1> HIDE DEF c
<1>3. Race!GapAfter(y, draw) = Race!Clamp(c, GapYMin, GapYMax)
  BY DEF Race!GapAfter, c
<1>4. Race!Clamp(c, GapYMin, GapYMax) - y \in (0 - MaxGapDelta)..MaxGapDelta
  BY <1>1, <1>2 DEF Race!Clamp
<1> QED BY <1>3, <1>4

\* The pipes after a tick and before it.
Sliding(g) ==
  /\ g \in 0..Len(pipes)
  /\ nextPipeID' - Len(pipes)' = nextPipeID - Len(pipes) + g /\ nextPipeID' >= nextPipeID
  /\ \A i \in 1..g : pipes[i].x - scroll' <= 0 - PipeWidth
  /\ \A i \in 1..Len(pipes)' :
       IF i <= Len(pipes) - g
         THEN /\ i + g \in 1..Len(pipes)
              /\ pipes'[i].id = pipes[i + g].id /\ pipes'[i].x = pipes[i + g].x - scroll'
         ELSE pipes'[i].x > BirdX + BirdRadius - RampSpeedCap

\* The number of a pipe that has moved up by g places while m new ones came.
LEMMA Relabelled ==
  ASSUME NEW u, NEW v, NEW n, NEW g, NEW k, NEW m, NEW i, {u, v, n, g, k, m, i} \subseteq Int,
         k = n - g, v = u + m
  PROVE  u - n + (i + g) = v - (k + m) + i /\ u + (i - k) = v - (k + m) + i
<1>1. u \in Int /\ n \in Int /\ g \in Int /\ m \in Int /\ i \in Int
  OBVIOUS
<1> QED BY <1>1

\* A tick keeps the course regular: the kept pipes stay as they are spaced, and the new ones
\* continue them up to beyond the widest view.
LEMMA CourseSteps ==
  ASSUME CourseInv, phase = "racing", phase' = phase, tick' = tick + 1, tick < MaxRaceTicks,
         scroll' = Race!RampedScroll(tick'), gap' = Race!RampedGap(tick'),
         NEW kept, kept = Race!Kept(scroll'),
         NEW gaps \in [1..Race!MissingPipes(kept) -> GapYMin..GapYMax], Race!Drawn(gaps),
         NEW new, new = Race!Spawned(kept, gaps, gap'),
         pipes' = kept \o new, nextPipeID' = nextPipeID + Len(new),
         lastGapY' = IF new = <<>> THEN lastGapY ELSE Race!Last(new).gapY
  PROVE  CourseInv' /\ \E g \in 0..Len(pipes) : Sliding(g)
<1> DEFINE k == Len(kept)
           m == Race!MissingPipes(kept)
           X == Race!NextX(kept)
<1>1. /\ tick \in Nat /\ tick' \in Nat /\ tick' \in 0..MaxRaceTicks /\ tick' > 0
      /\ scroll \in ScrollSpeed..RampSpeedCap /\ gap \in RampGapFloor..PipeGap /\ nextPipeID \in Nat
      /\ pipes \in Seq(PipeRec) /\ Len(pipes) \in Nat /\ gap \in Nat
      /\ lastGapY \in GapYMin..GapYMax
  BY WorldConstants DEF CourseInv, Spaced
<1>2. scroll' \in ScrollSpeed..RampSpeedCap /\ gap' \in RampGapFloor..PipeGap /\ gap' <= gap
  BY <1>1, RampHolds
<1>3. scroll' \in 1..RampSpeedCap /\ scroll' \in Nat /\ gap' \in Nat
  BY <1>2, WorldConstants
<1>4. PICK g \in 0..Len(pipes) : Moved(kept, scroll', g) /\ (tick > 0 => g < Len(pipes))
  BY <1>3, KeptPipes
<1>5. /\ X \in Int /\ X > BirdX + BirdRadius - RampSpeedCap /\ X > 0
      /\ kept # <<>> => /\ k \in 1..k /\ X = kept[k].x + PipeSpacing
                        /\ kept[k].gapY = lastGapY
                        /\ \A i \in 1..k : kept[i].x < X
  BY <1>3, <1>4, NextIsAhead
<1>6. /\ m \in Nat /\ \A j \in 0..m - 1 : X + j * PipeSpacing < Far
      /\ X + m * PipeSpacing >= Far
  BY <1>5, MissingCounted
<1>7. /\ kept \in Seq(PipeRec) /\ k = Len(pipes) - g /\ k \in Nat /\ g \in Nat
      /\ \A i \in 1..k :
           /\ i + g \in 1..Len(pipes)
           /\ kept[i].id = pipes[i + g].id /\ kept[i].x = pipes[i + g].x - scroll'
           /\ kept[i].gapY = pipes[i + g].gapY /\ kept[i].gapH = pipes[i + g].gapH
           /\ kept[i].x > 0 - PipeWidth
      /\ \A i \in 1..g : pipes[i].x - scroll' <= 0 - PipeWidth
  BY <1>1, <1>4 DEF Moved
<1>8. kept = <<>> => X < Far
  BY WorldConstants DEF Race!NextX, Far
<1> HIDE DEF X, m, k
<1>9. PipeSpacing \in Nat /\ PipeSpacing >= 1 /\ PipeWidth \in Nat /\ Far \in Nat
  BY WorldConstants DEF Far
<1>10. DOMAIN gaps = 1..m /\ \A j \in 1..m : gaps[j] \in GapYMin..GapYMax /\ gaps[j] \in Int
  BY WorldConstants DEF m
<1>11. new = [j \in 1..m |-> [id |-> nextPipeID + j, x |-> X + (j - 1) * PipeSpacing,
                              gapY |-> gaps[j], gapH |-> gap']]
  BY <1>10 DEF Race!Spawned, X
<1>12. ASSUME NEW j \in 1..m
       PROVE  /\ X + (j - 1) * PipeSpacing \in Int /\ X + (j - 1) * PipeSpacing >= X
              /\ X + (j - 1) * PipeSpacing < Far
  <2>1. j - 1 \in 0..m - 1 /\ j - 1 \in Nat
    BY <1>6
  <2>2. (j - 1) * PipeSpacing \in Nat
    BY <1>9, <2>1
  <2> QED BY <1>5, <1>6, <2>1, <2>2
<1>13. /\ new \in Seq(PipeRec) /\ Len(new) = m
       /\ \A j \in 1..m : /\ new[j].id = nextPipeID + j /\ new[j].x = X + (j - 1) * PipeSpacing
                          /\ new[j].gapY = gaps[j] /\ new[j].gapH = gap'
  <2>1. ASSUME NEW j \in 1..m
        PROVE  [id |-> nextPipeID + j, x |-> X + (j - 1) * PipeSpacing, gapY |-> gaps[j], gapH |-> gap']
                 \in PipeRec
    BY <1>1, <1>3, <1>10, <1>12 DEF PipeRec
  <2>2. new \in [1..m -> PipeRec]
    BY <1>11, <2>1
  <2> QED BY <1>6, <1>11, <2>2
<1>14. /\ pipes' \in Seq(PipeRec) /\ Len(pipes') = k + m
       /\ \A i \in 1..k + m :
            /\ i \in Nat /\ (i <= k \/ i > k)
            /\ i <= k => i \in 1..k /\ pipes'[i] = kept[i]
            /\ i > k => i - k \in 1..m /\ pipes'[i] = new[i - k] /\ (i - k) + k = i
  <2>1. Len(kept) = k /\ Len(new) = m /\ pipes' = kept \o new
    BY <1>13 DEF k
  <2>2. /\ kept \o new \in Seq(PipeRec) /\ Len(kept \o new) = Len(kept) + Len(new)
        /\ \A i \in 1..Len(kept) + Len(new) :
             /\ i \in Nat /\ (i <= Len(kept) \/ i > Len(kept))
             /\ i <= Len(kept) => i \in 1..Len(kept) /\ (kept \o new)[i] = kept[i]
             /\ i > Len(kept) => /\ i - Len(kept) \in 1..Len(new)
                                 /\ (kept \o new)[i] = new[i - Len(kept)]
                                 /\ (i - Len(kept)) + Len(kept) = i
    <3>1. kept \in Seq(PipeRec) /\ new \in Seq(PipeRec)
      BY <1>7, <1>13
    <3> QED BY <3>1, Joined
  <2>3. pipes' \in Seq(PipeRec) /\ Len(pipes') = k + m
    BY <2>1, <2>2
  <2>4. ASSUME NEW i \in 1..k + m
        PROVE  /\ i \in Nat /\ (i <= k \/ i > k)
               /\ i <= k => i \in 1..k /\ pipes'[i] = kept[i]
               /\ i > k => i - k \in 1..m /\ pipes'[i] = new[i - k] /\ (i - k) + k = i
    <3>1. i \in 1..Len(kept) + Len(new)
      BY <2>1
    <3>2. /\ i \in Nat /\ (i <= Len(kept) \/ i > Len(kept))
          /\ i <= Len(kept) => i \in 1..Len(kept) /\ (kept \o new)[i] = kept[i]
          /\ i > Len(kept) => /\ i - Len(kept) \in 1..Len(new)
                              /\ (kept \o new)[i] = new[i - Len(kept)]
                              /\ (i - Len(kept)) + Len(kept) = i
      BY <2>2, <3>1
    <3>3. Len(kept) = k /\ Len(new) = m /\ pipes' = kept \o new
      BY <2>1
    <3> HIDE DEF k, m
    <3> QED BY <3>2, <3>3, Zenon
  <2> QED BY <2>3, <2>4
<1>15. ASSUME NEW i \in 1..k + m
       PROVE  /\ i <= k => i \in 1..k /\ pipes'[i] = kept[i]
              /\ i > k => i - k \in 1..m /\ pipes'[i] = new[i - k] /\ (i - k) + k = i
              /\ i \in Nat /\ (i <= k \/ i > k)
  BY <1>14
<1>20. ASSUME NEW j \in 1..m PROVE new[j].x \in Int /\ new[j].x >= X /\ new[j].x < Far
  BY <1>12, <1>13
<1>21. ASSUME NEW i \in 1..m, NEW j \in 1..m, i < j PROVE new[i].x < new[j].x
  <2>1. i - 1 \in Int /\ j - 1 \in Int /\ i - 1 < j - 1
    BY <1>21
  <2>2. (i - 1) * PipeSpacing + PipeSpacing <= (j - 1) * PipeSpacing
          /\ (i - 1) * PipeSpacing \in Int /\ (j - 1) * PipeSpacing \in Int
    BY <1>9, <2>1, StepsApart
  <2>3. new[i].x = X + (i - 1) * PipeSpacing /\ new[j].x = X + (j - 1) * PipeSpacing
    BY <1>13
  <2>4. X + (i - 1) * PipeSpacing < X + (j - 1) * PipeSpacing
    BY <1>5, <1>9, <2>2, MovedTogether, Zenon
  <2> QED BY <2>3, <2>4, Zenon
<1>16. /\ Spaced(pipes) /\ \A i \in 1..Len(pipes) : /\ pipes[i].gapH >= gap /\ pipes[i].x < Far
                                                   /\ pipes[i].id = nextPipeID - Len(pipes) + i
  BY DEF CourseInv
<1>17. ASSUME NEW i \in 1..k, NEW j \in 1..k, i < j PROVE kept[i].x < kept[j].x
  <2>1. i + g < j + g /\ i + g \in 1..Len(pipes) /\ j + g \in 1..Len(pipes)
    BY <1>7, <1>17
  <2>2. pipes[i + g].x < pipes[j + g].x
    BY <1>16, <2>1 DEF Spaced
  <2>3. pipes[i + g].x \in Int /\ pipes[j + g].x \in Int
    BY <1>1, <2>1, PipeFields
  <2>4. pipes[i + g].x - scroll' < pipes[j + g].x - scroll'
    BY <1>3, <2>2, <2>3, MovedTogether, Zenon
  <2>5. kept[i].x = pipes[i + g].x - scroll' /\ kept[j].x = pipes[j + g].x - scroll'
    BY <1>7
  <2> QED BY <2>4, <2>5, Zenon
<1>18. \A i \in 1..k + m : pipes'[i].x \in Int /\ pipes'[i].gapH \in Int
  BY <1>14, PipeFields
<1>19. \A i, j \in 1..k + m : i < j => pipes'[i].x < pipes'[j].x
  <2> SUFFICES ASSUME NEW i \in 1..k + m, NEW j \in 1..k + m, i < j PROVE pipes'[i].x < pipes'[j].x
    OBVIOUS
  <2>0. i \in Nat /\ j \in Nat
    BY <1>15
  <2>1. CASE j <= k
    <3>1. i <= k
      BY <1>7, <2>0, <2>1
    <3> QED BY <1>15, <1>17, <2>1, <3>1
  <2>2. CASE i <= k /\ j > k
    <3>1. pipes'[i].x < X
      <4>1. kept # <<>>
        BY <1>7, <1>15, <2>2 DEF k
      <4> QED BY <1>5, <1>15, <2>2, <4>1
    <3>2. pipes'[j].x >= X
      <4>1. j - k \in 1..m /\ pipes'[j] = new[j - k]
        BY <1>15, <2>2
      <4> QED BY <1>20, <4>1
    <3>3. X \in Int /\ pipes'[i].x \in Int /\ pipes'[j].x \in Int
      BY <1>5, <1>18
    <3>4. \A a, b, c \in Int : a < b /\ c >= b => a < c
      OBVIOUS
    <3> QED BY <3>1, <3>2, <3>3, <3>4, Zenon
  <2>3. CASE i > k /\ j > k
    <3>1. i - k \in 1..m /\ j - k \in 1..m /\ pipes'[i] = new[i - k] /\ pipes'[j] = new[j - k]
      BY <1>15, <2>3
    <3>2. i - k < j - k
      BY <1>7, <2>0
    <3> QED BY <1>21, <3>1, <3>2
  <2>4. i <= k \/ i > k
    BY <1>15
  <2>5. j <= k \/ j > k
    BY <1>15
  <2>6. j > k \/ i <= k
    BY <1>7, <2>0, <2>5
  <2> QED BY <2>1, <2>2, <2>3, <2>4, <2>5, <2>6
<1> HIDE DEF k, m, X
<1>30. k \in Nat /\ m \in Nat /\ Len(pipes) \in Nat /\ g \in Nat /\ k = Len(pipes) - g
  BY <1>1, <1>6, <1>7
<1>31. Len(new) = m /\ \A j \in 1..m : new[j].gapH = gap' /\ new[j].id = nextPipeID + j
  BY <1>13
<1>32. nextPipeID' = nextPipeID + m
  BY <1>31
<1>33. nextPipeID \in Nat /\ nextPipeID' \in Nat
  <2>1. nextPipeID \in Nat
    BY <1>1
  <2> QED BY <1>30, <1>32, <2>1
<1>22. ASSUME NEW i \in 1..k + m - 1
       PROVE  /\ pipes'[i + 1].x = pipes'[i].x + PipeSpacing
              /\ pipes'[i + 1].gapY - pipes'[i].gapY \in (0 - MaxGapDelta)..MaxGapDelta
              /\ pipes'[i + 1].gapH <= pipes'[i].gapH
  <2>0. i \in 1..k + m /\ i + 1 \in 1..k + m /\ i \in Nat /\ k \in Nat /\ m \in Nat
    BY <1>6, <1>7
  <2>1. CASE i + 1 <= k
    <3>1. i \in 1..k /\ i + 1 \in 1..k /\ i <= k
      BY <2>0, <2>1
    <3>2. pipes'[i] = kept[i] /\ pipes'[i + 1] = kept[i + 1]
      BY <1>15, <2>0, <2>1, <3>1
    <3>3. i + g \in 1..Len(pipes) - 1 /\ (i + 1) + g = (i + g) + 1 /\ i + g \in 1..Len(pipes)
      BY <1>30, <2>0, <2>1, <3>1
    <3>4. /\ kept[i].x = pipes[i + g].x - scroll' /\ kept[i + 1].x = pipes[(i + g) + 1].x - scroll'
          /\ kept[i].gapY = pipes[i + g].gapY /\ kept[i + 1].gapY = pipes[(i + g) + 1].gapY
          /\ kept[i].gapH = pipes[i + g].gapH /\ kept[i + 1].gapH = pipes[(i + g) + 1].gapH
      BY <1>7, <3>1, <3>3
    <3>5. /\ pipes[(i + g) + 1].x = pipes[i + g].x + PipeSpacing
          /\ pipes[(i + g) + 1].gapY - pipes[i + g].gapY \in (0 - MaxGapDelta)..MaxGapDelta
          /\ pipes[(i + g) + 1].gapH <= pipes[i + g].gapH
      BY <1>16, <3>3 DEF Spaced
    <3>6. pipes[i + g].x \in Int
      BY <1>1, <3>3, PipeFields
    <3>7. (pipes[i + g].x + PipeSpacing) - scroll' = pipes[i + g].x - scroll' + PipeSpacing
      BY <1>3, <1>9, <3>6
    <3>8. pipes'[i + 1].x = pipes'[i].x + PipeSpacing
      <4>1. pipes'[i + 1].x = pipes[(i + g) + 1].x - scroll' /\ pipes'[i].x = pipes[i + g].x - scroll'
        BY <3>2, <3>4, Zenon
      <4>3. pipes[(i + g) + 1].x = pipes[i + g].x + PipeSpacing
        BY <3>5
      <4>4. pipes'[i + 1].x = pipes[(i + g) + 1].x - scroll'
        BY <4>1
      <4>2. pipes'[i + 1].x = (pipes[i + g].x + PipeSpacing) - scroll'
        BY <4>3, <4>4, Zenon
      <4> QED BY <3>7, <4>1, <4>2, Zenon
    <3>9. /\ pipes'[i + 1].gapY - pipes'[i].gapY \in (0 - MaxGapDelta)..MaxGapDelta
          /\ pipes'[i + 1].gapH <= pipes'[i].gapH
      BY <3>2, <3>4, <3>5, Zenon
    <3> QED BY <3>8, <3>9
  <2>2. CASE i = k
    <3>1. i \in 1..k /\ k # 0 /\ i + 1 > k /\ i <= k /\ (i + 1) - k = 1 /\ 1 \in 1..m
      BY <2>0, <2>2
    <3>2. pipes'[i] = kept[k] /\ pipes'[i + 1] = new[1] /\ kept # <<>>
      <4>1. pipes'[i] = kept[i] /\ pipes'[i + 1] = new[(i + 1) - k]
        BY <1>15, <2>0, <3>1
      <4>2. kept # <<>>
        BY <3>1 DEF k
      <4> QED BY <2>2, <3>1, <4>1, <4>2
    <3>3. X = kept[k].x + PipeSpacing /\ kept[k].gapY = lastGapY /\ X \in Int
      BY <1>5, <3>2
    <3>4. new[1].x = X
      <4>1. new[1].x = X + (1 - 1) * PipeSpacing
        BY <1>13, <3>1
      <4>2. (1 - 1) * PipeSpacing = 0
        BY <1>9
      <4> QED BY <3>3, <4>1, <4>2
    <3>5. new[1].gapY - kept[k].gapY \in (0 - MaxGapDelta)..MaxGapDelta
      <4>1. PICK draw \in Draws : gaps[1] = Race!GapAfter(lastGapY, draw)
        BY <1>10, <3>1 DEF Race!Drawn
      <4>2. new[1].gapY = gaps[1]
        BY <1>13, <3>1
      <4> QED BY <1>1, <3>3, <4>1, <4>2, GapIsNear
    <3>6. new[1].gapH <= kept[k].gapH
      <4>1. new[1].gapH = gap'
        BY <1>13, <3>1
      <4>2. k + g \in 1..Len(pipes) /\ kept[k].gapH = pipes[k + g].gapH
        BY <1>7, <2>2, <3>1
      <4>3. pipes[k + g].gapH >= gap /\ pipes[k + g].gapH \in Int
        BY <1>1, <1>16, <4>2, PipeFields
      <4> QED BY <1>1, <1>2, <1>3, <4>1, <4>2, <4>3
    <3> QED BY <3>2, <3>3, <3>4, <3>5, <3>6
  <2>3. CASE i > k
    <3>0. i - k \in 1..m /\ (i - k) + 1 \in 1..m /\ (i + 1) - k = (i - k) + 1 /\ i + 1 > k
      BY <2>0, <2>3
    <3> DEFINE j == i - k
    <3>1. j \in 1..m /\ j + 1 \in 1..m /\ j \in Int
      BY <2>0, <3>0
    <3>2. pipes'[i] = new[j] /\ pipes'[i + 1] = new[j + 1]
      BY <1>15, <2>0, <2>3, <3>0
    <3> HIDE DEF j
    <3>3. new[j + 1].x = new[j].x + PipeSpacing
      <4>1. new[j + 1].x = X + ((j + 1) - 1) * PipeSpacing /\ new[j].x = X + (j - 1) * PipeSpacing
        BY <1>13, <3>1
      <4>2. ((j + 1) - 1) * PipeSpacing = (j - 1) * PipeSpacing + PipeSpacing
        BY <1>9, <3>1
      <4>3. X + ((j - 1) * PipeSpacing + PipeSpacing) = (X + (j - 1) * PipeSpacing) + PipeSpacing
        BY <1>5, <1>9, <3>1
      <4> QED BY <4>1, <4>2, <4>3
    <3>4. new[j + 1].gapY - new[j].gapY \in (0 - MaxGapDelta)..MaxGapDelta
      <4>1. j + 1 # 1 /\ (j + 1) - 1 = j
        BY <3>1
      <4>2. PICK draw \in Draws : gaps[j + 1] = Race!GapAfter(gaps[j], draw)
        BY <1>10, <3>1, <4>1 DEF Race!Drawn
      <4>3. new[j].gapY = gaps[j] /\ new[j + 1].gapY = gaps[j + 1] /\ gaps[j] \in GapYMin..GapYMax
        BY <1>10, <1>13, <3>1
      <4> QED BY <4>2, <4>3, GapIsNear
    <3>5. new[j + 1].gapH <= new[j].gapH
      <4>1. new[j + 1].gapH = gap' /\ new[j].gapH = gap'
        BY <1>31, <3>1
      <4>2. gap' <= gap'
        BY <1>3
      <4> QED BY <4>1, <4>2
    <3> QED BY <3>2, <3>3, <3>4, <3>5
  <2>4. i + 1 <= k \/ i = k \/ i > k
    BY <2>0
  <2> QED BY <2>1, <2>2, <2>3, <2>4
<1>23. Spaced(pipes)'
  <2>1. pipes' \in Seq(PipeRec) /\ Len(pipes') = k + m
    BY <1>14
  <2>2. \A i, j \in 1..Len(pipes') : i < j => pipes'[i].x < pipes'[j].x
    <3> SUFFICES ASSUME NEW i \in 1..Len(pipes'), NEW j \in 1..Len(pipes'), i < j
                 PROVE  pipes'[i].x < pipes'[j].x
      OBVIOUS
    <3>1. i \in 1..k + m /\ j \in 1..k + m
      BY <2>1
    <3> QED BY <1>19, <3>1
  <2>3. \A i \in 1..Len(pipes') - 1 :
          /\ pipes'[i + 1].x = pipes'[i].x + PipeSpacing
          /\ pipes'[i + 1].gapY - pipes'[i].gapY \in (0 - MaxGapDelta)..MaxGapDelta
          /\ pipes'[i + 1].gapH <= pipes'[i].gapH
    <3> SUFFICES ASSUME NEW i \in 1..Len(pipes') - 1
                 PROVE  /\ pipes'[i + 1].x = pipes'[i].x + PipeSpacing
                        /\ pipes'[i + 1].gapY - pipes'[i].gapY \in (0 - MaxGapDelta)..MaxGapDelta
                        /\ pipes'[i + 1].gapH <= pipes'[i].gapH
      OBVIOUS
    <3>1. i \in 1..k + m - 1
      BY <1>30, <2>1
    <3> QED BY <1>22, <3>1
  <2> QED BY <2>1, <2>2, <2>3 DEF Spaced, PipeRec
<1>24. nextPipeID' = nextPipeID + m /\ nextPipeID' \in Nat
  BY <1>32, <1>33
<1>25. ASSUME NEW i \in 1..k + m
       PROVE  /\ pipes'[i].x > 0 - PipeWidth /\ pipes'[i].x < Far
              /\ pipes'[i].gapH >= gap'
              /\ pipes'[i].id = nextPipeID' - (k + m) + i
  <2>0. i \in Nat /\ k \in Nat /\ m \in Nat /\ Len(pipes) \in Nat /\ g \in Nat /\ k = Len(pipes) - g
        /\ nextPipeID \in Nat
    BY <1>1, <1>6, <1>7
  <2>1. CASE i <= k
    <3>1. i \in 1..k /\ pipes'[i] = kept[i] /\ i + g \in 1..Len(pipes)
      BY <1>7, <1>15, <2>1
    <3>2. /\ kept[i].id = pipes[i + g].id /\ kept[i].x = pipes[i + g].x - scroll'
          /\ kept[i].gapH = pipes[i + g].gapH /\ kept[i].x > 0 - PipeWidth
      BY <1>7, <3>1
    <3>3. /\ pipes[i + g].gapH >= gap /\ pipes[i + g].x < Far
          /\ pipes[i + g].id = nextPipeID - Len(pipes) + (i + g)
      BY <1>16, <3>1
    <3>4. pipes[i + g].gapH \in Int /\ pipes[i + g].x \in Int
      BY <1>1, <3>1, PipeFields
    <3>5. pipes[i + g].gapH >= gap' /\ pipes[i + g].x - scroll' < Far
      <4>1. gap \in Int /\ gap' \in Int /\ scroll' \in Nat /\ Far \in Int /\ gap' <= gap
        BY <1>1, <1>2, <1>3, <1>9
      <4>2. pipes[i + g].gapH >= gap'
        BY <3>3, <3>4, <4>1, NotLessThan
      <4>3. pipes[i + g].x - scroll' < Far
        BY <3>3, <3>4, <4>1, LessFurtherBack
      <4> QED BY <4>2, <4>3
    <3>7. {nextPipeID, nextPipeID', Len(pipes), g, k, m, i} \subseteq Int
      BY <1>30, <1>33, <2>0
    <3>6. nextPipeID - Len(pipes) + (i + g) = nextPipeID' - (k + m) + i
      <4>1. k = Len(pipes) - g /\ nextPipeID' = nextPipeID + m
        BY <1>30, <1>32
      <4>2. nextPipeID - Len(pipes) + (i + g) = (nextPipeID + m) - ((Len(pipes) - g) + m) + i
        BY <3>7
      <4> QED BY <4>1, <4>2, Zenon
    <3> QED BY <3>1, <3>2, <3>3, <3>5, <3>6
  <2>2. CASE i > k
    <3>1. i - k \in 1..m /\ pipes'[i] = new[i - k]
      BY <1>15, <2>2
    <3>2. new[i - k].x \in Int /\ new[i - k].x >= X /\ new[i - k].x < Far
      BY <1>20, <3>1
    <3>3. new[i - k].gapH = gap' /\ new[i - k].id = nextPipeID + (i - k)
      BY <1>13, <3>1
    <3>8. {nextPipeID, nextPipeID', Len(pipes), g, k, m, i} \subseteq Int
      BY <1>30, <1>33, <2>0
    <3>4. nextPipeID + (i - k) = nextPipeID' - (k + m) + i
      <4>1. nextPipeID' = nextPipeID + m
        BY <1>30, <1>32
      <4>2. nextPipeID + (i - k) = (nextPipeID + m) - (k + m) + i
        BY <3>8
      <4> QED BY <4>1, <4>2, Zenon
    <3>5. X \in Int /\ X > 0
      BY <1>5
    <3>6. new[i - k].x > 0 - PipeWidth
      BY <1>9, <3>2, <3>5
    <3>7. gap' >= gap'
      BY <1>3
    <3> QED BY <3>1, <3>2, <3>3, <3>4, <3>6, <3>7
  <2> QED BY <1>15, <2>1, <2>2
<1>26. /\ pipes' # <<>> /\ pipes'[k + m].x + PipeSpacing >= Far
       /\ pipes'[k + m].gapY = lastGapY'
  <2>0. k \in Nat /\ m \in Nat /\ Len(new) = m /\ Len(kept) = k
    BY <1>6, <1>7, <1>13 DEF k
  <2>1. CASE m = 0
    <3>1. 0 * PipeSpacing = 0
      BY <1>9
    <3>2. X >= Far
      BY <1>5, <1>6, <2>1, <3>1
    <3>3. kept # <<>>
      BY <1>5, <1>8, <1>9, <3>2 DEF X
    <3>4. k \in 1..k /\ X = kept[k].x + PipeSpacing /\ kept[k].gapY = lastGapY
      BY <1>5, <3>3
    <3>5. k \in 1..k + m /\ k <= k /\ k + m = k
      BY <2>0, <2>1, <3>4
    <3>6. pipes'[k] = kept[k]
      BY <1>15, <3>5
    <3>7. lastGapY' = lastGapY
      <4>1. new = <<>>
        BY <1>13, <2>1
      <4> QED BY <4>1
    <3>8. pipes' # <<>>
      BY <1>14, <2>0, <3>4, <3>5
    <3> QED BY <3>2, <3>4, <3>5, <3>6, <3>7, <3>8
  <2>2. CASE m # 0
    <3>1. m \in 1..m /\ k + m \in 1..k + m /\ k + m > k /\ (k + m) - k = m /\ m - 1 \in Int
      BY <2>0, <2>2
    <3>2. pipes'[k + m] = new[m]
      BY <1>15, <3>1
    <3>3. new[m].x = X + (m - 1) * PipeSpacing /\ new[m].gapY = gaps[m]
      BY <1>13, <3>1
    <3>4. (m - 1) * PipeSpacing + PipeSpacing = m * PipeSpacing /\ (m - 1) * PipeSpacing \in Int
      BY <1>9, <2>0
    <3>5. new[m].x + PipeSpacing = X + m * PipeSpacing
      BY <1>5, <1>9, <3>3, <3>4
    <3>6. lastGapY' = new[m].gapY
      <4>1. new # <<>>
        BY <2>0, <2>2
      <4>2. Race!Last(new) = new[m]
        BY <2>0 DEF Race!Last
      <4> QED BY <4>1, <4>2
    <3>7. pipes' # <<>>
      BY <1>14, <2>0, <3>1
    <3> QED BY <1>6, <3>2, <3>5, <3>6, <3>7
  <2> QED BY <2>1, <2>2
<1>27. lastGapY' \in GapYMin..GapYMax
  <2>1. k + m \in 1..k + m
    <3>1. k + m \in Nat /\ k + m # 0
      BY <1>6, <1>7, <1>14, <1>26
    <3> QED BY <3>1
  <2> QED BY <1>14, <1>26, <2>1, PipeFields
<1>28. CourseInv'
  <2>1. phase' \in {"countdown", "racing"} /\ phase' # "countdown" /\ tick' # 0
    BY <1>1
  <2>2. \A i \in 1..Len(pipes') : /\ pipes'[i].x > 0 - PipeWidth /\ pipes'[i].x < Far
                                  /\ pipes'[i].gapH >= gap'
                                  /\ pipes'[i].id = nextPipeID' - Len(pipes') + i
    <3>1. Len(pipes') = k + m
      BY <1>14
    <3> QED BY <1>25, <3>1
  <2>3. pipes'[Len(pipes')].gapY = lastGapY' /\ pipes'[Len(pipes')].x + PipeSpacing >= Far
    BY <1>14, <1>26
  <2> QED BY <1>1, <1>2, <1>23, <1>24, <1>26, <1>27, <2>1, <2>2, <2>3 DEF CourseInv, Far
<1>29. Sliding(g)
  <2>1. ASSUME NEW i \in 1..Len(pipes')
        PROVE  IF i <= Len(pipes) - g
                 THEN /\ i + g \in 1..Len(pipes)
                      /\ pipes'[i].id = pipes[i + g].id /\ pipes'[i].x = pipes[i + g].x - scroll'
                 ELSE pipes'[i].x > BirdX + BirdRadius - RampSpeedCap
    <3>1. i \in 1..k + m
      BY <1>14
    <3>2. CASE i <= k
      <4>1. i \in 1..k /\ pipes'[i] = kept[i] /\ i <= Len(pipes) - g
        BY <1>15, <1>30, <3>1, <3>2
      <4> QED BY <1>7, <4>1
    <3>3. CASE i > k
      <4>1. i - k \in 1..m /\ pipes'[i] = new[i - k]
        BY <1>15, <3>1, <3>3
      <4>2. new[i - k].x \in Int /\ new[i - k].x >= X /\ X \in Int /\ X > BirdX + BirdRadius - RampSpeedCap
        BY <1>5, <1>20, <4>1
      <4>3. new[i - k].x > BirdX + BirdRadius - RampSpeedCap
        BY <4>2, WorldConstants
      <4>4. ~(i <= Len(pipes) - g)
        BY <1>7, <1>15, <3>1, <3>3
      <4> QED BY <4>1, <4>3, <4>4
    <3> QED BY <1>15, <3>1, <3>2, <3>3
  <2>2. nextPipeID' - Len(pipes') = nextPipeID - Len(pipes) + g
    <3>1. nextPipeID' = nextPipeID + m /\ Len(pipes') = (Len(pipes) - g) + m
      BY <1>14, <1>30, <1>32
    <3>2. (nextPipeID + m) - ((Len(pipes) - g) + m) = nextPipeID - Len(pipes) + g
      <4>1. nextPipeID \in Int /\ Len(pipes) \in Int /\ g \in Int /\ m \in Int
        BY <1>30, <1>33
      <4> QED BY <4>1
    <3> QED BY <3>1, <3>2, Zenon
  <2>3. nextPipeID' >= nextPipeID
    BY <1>30, <1>32, <1>33
  <2>4. g \in 0..Len(pipes) /\ \A i \in 1..g : pipes[i].x - scroll' <= 0 - PipeWidth
    BY <1>7
  <2> QED BY <2>1, <2>2, <2>3, <2>4 DEF Sliding
<1> QED BY <1>28, <1>29

-----------------------------------------------------------------------------
(* World: one bird *)

BirdRec ==
  [y: CeilingY..GroundY + TerminalVel, vy: FlapImpulse..TerminalVel, score: Nat, dead: BOOLEAN,
   death: Nat, left: BOOLEAN, next: Nat \ {0}]

\* A flap or the fall moves a living bird within the speeds there are, and changes nothing else.
LEMMA FlownKeeps ==
  ASSUME NEW b \in BirdRec, b.y + BirdRadius <= GroundY, NEW flapped \in BOOLEAN,
         NEW f, f = Race!Flown(b, flapped)
  PROVE  /\ f \in BirdRec /\ f.score = b.score /\ f.dead = b.dead /\ f.death = b.death
         /\ f.left = b.left /\ f.next = b.next
<1> DEFINE v == (IF flapped THEN FlapImpulse ELSE b.vy) + Gravity
           vy == Race!Min({v, TerminalVel})
<1>1. /\ b.y \in CeilingY..GroundY + TerminalVel /\ b.vy \in FlapImpulse..TerminalVel
      /\ b.y \in Int /\ b.vy \in Int /\ FlapImpulse <= b.vy
  BY WorldConstants DEF BirdRec
<1>2. v \in Int /\ v >= FlapImpulse
  BY <1>1, WorldConstants
<1> HIDE DEF v
<1>3. vy \in Int /\ vy \in FlapImpulse..TerminalVel
  <2>1. vy \in Int /\ vy <= TerminalVel /\ vy \in {v, TerminalVel}
    <3>1. TerminalVel \in Int
      BY WorldConstants
    <3> QED BY <1>2, <3>1, OfTwo
  <2>2. TerminalVel >= FlapImpulse
    BY WorldConstants
  <2> HIDE DEF vy
  <2> QED BY <1>2, <2>1, <2>2, WorldConstants
<1>4. Race!Max({vy, 0}) \in FlapImpulse..TerminalVel
  <2>1. Race!Max({vy, 0}) \in {vy, 0}
    <3>1. 0 \in Int
      OBVIOUS
    <3> QED BY <1>3, <3>1, OfTwo
  <2> HIDE DEF vy
  <2> QED BY <1>3, <2>1, WorldConstants
<1>5. f = IF b.y + vy < CeilingY
            THEN [b EXCEPT !.vy = Race!Max({vy, 0}), !.y = CeilingY]
            ELSE [b EXCEPT !.vy = vy, !.y = @ + vy]
  BY DEF Race!Flown, v
<1> HIDE DEF vy
<1>6. CASE b.y + vy < CeilingY
  <2>1. CeilingY \in CeilingY..GroundY + TerminalVel
    BY <1>1, WorldConstants
  <2>2. f = [b EXCEPT !.vy = Race!Max({vy, 0}), !.y = CeilingY]
    BY <1>5, <1>6
  <2> QED BY <1>4, <2>1, <2>2 DEF BirdRec
<1>7. CASE ~(b.y + vy < CeilingY)
  <2>1. b.y + vy \in CeilingY..GroundY + TerminalVel
    BY <1>1, <1>3, <1>7, WorldConstants
  <2>2. f = [b EXCEPT !.vy = vy, !.y = @ + vy]
    BY <1>5, <1>7
  <2> QED BY <1>3, <2>1, <2>2 DEF BirdRec
<1> QED BY <1>6, <1>7

\* What the judgement of a bird b comes to: the n pipes it scores, or its death.
Judgement(b, ps, t, n, j) ==
  /\ j \in BirdRec /\ j.y = b.y /\ j.left = b.left
  /\ \/ /\ j.dead = TRUE /\ j.death = t /\ j.score = b.score /\ j.next = b.next
     \/ /\ ~(b.y + BirdRadius >= GroundY) /\ \A p \in Race!ToSet(ps) : ~Race!Hits(b.y, p)
        /\ j.dead = b.dead /\ j.death = b.death /\ j.score = b.score + n /\ j.next = b.next + n

\* The judgement of a bird that has moved.
LEMMA JudgedOutcome ==
  ASSUME NEW b \in BirdRec, NEW ps, NEW t \in Nat, NEW n \in Nat,
         n = Cardinality(Race!Scoring(b, ps)), NEW j, j = Race!Judged(b, ps, t)
  PROVE  Judgement(b, ps, t, n, j)
<1> DEFINE Struck == b.y + BirdRadius >= GroundY \/ \E p \in Race!ToSet(ps) : Race!Hits(b.y, p)
<1>1. j = IF Struck THEN [b EXCEPT !.dead = TRUE, !.death = t]
          ELSE [b EXCEPT !.score = @ + n, !.next = @ + n]
  BY RaceCardinality DEF Race!Judged
<1>2. CASE Struck
  <2>1. j = [b EXCEPT !.dead = TRUE, !.death = t]
    BY <1>1, <1>2
  <2> QED BY <2>1 DEF BirdRec, Judgement
<1>3. CASE ~Struck
  <2>1. j = [b EXCEPT !.score = @ + n, !.next = @ + n]
    BY <1>1, <1>3
  <2>2. b.score \in Nat /\ b.next \in Nat /\ b.next # 0
    BY DEF BirdRec
  <2>3. b.score + n \in Nat /\ b.next + n \in Nat \ {0}
    BY <2>2
  <2>4. j \in BirdRec /\ j.y = b.y /\ j.left = b.left /\ j.dead = b.dead /\ j.death = b.death
        /\ j.score = b.score + n /\ j.next = b.next + n
    BY <2>1, <2>3 DEF BirdRec
  <2> QED BY <1>3, <2>4 DEF Judgement
<1> QED BY <1>2, <1>3

\* Only a bird's next pipe decides which pipes it scores.
LEMMA ScoringByNext ==
  ASSUME NEW b, NEW c, b.next = c.next, NEW ps
  PROVE  Race!Scoring(b, ps) = Race!Scoring(c, ps)
  BY DEF Race!Scoring

\* Whoever does not collide at the column of a pipe is within its gap.
LEMMA WithinTheGap ==
  ASSUME NEW y \in Int, CeilingY <= y, ~(y + BirdRadius >= GroundY), NEW p \in PipeRec,
         ~Race!Hits(y, p), p.x <= BirdX, p.x + PipeWidth >= BirdX
  PROVE  Race!Top(p) < y /\ y < Race!Bot(p)
<1>1. p.x \in Int /\ Race!Top(p) \in Int /\ Race!Bot(p) \in Int
  BY WorldConstants DEF PipeRec, Race!Top, Race!Bot
<1>2. /\ ~Race!CircleRect(BirdX, y, BirdRadius, p.x, 0, p.x + PipeWidth, Race!Top(p))
      /\ ~Race!CircleRect(BirdX, y, BirdRadius, p.x, Race!Bot(p), p.x + PipeWidth, GroundY)
  <2>1. p.x <= BirdX + BirdRadius /\ p.x + PipeWidth >= BirdX - BirdRadius
    BY <1>1, WorldConstants
  <2> QED BY <2>1 DEF Race!Hits
<1>3. Race!Clamp(BirdX, p.x, p.x + PipeWidth) = BirdX
  <2>1. BirdX \in Int /\ p.x \in Int /\ p.x + PipeWidth \in Int
    BY <1>1, WorldConstants
  <2>2. p.x <= BirdX /\ BirdX <= p.x + PipeWidth
    BY <2>1
  <2>3. \A v, lo, hi \in Int : lo <= v /\ v <= hi => Race!Clamp(v, lo, hi) = v
    BY ClampBetween
  <2> QED BY <2>1, <2>2, <2>3, Zenon
<1>4. 0 * 0 + 0 * 0 < BirdRadius * BirdRadius
  <2>1. BirdRadius * BirdRadius >= 1
    BY WorldConstants
  <2> QED BY <2>1, WorldConstants
<1>5. BirdX - BirdX = 0 /\ y - y = 0
  BY WorldConstants
<1>6. ASSUME NEW lo \in Int, NEW hi \in Int, lo <= y, y <= hi
      PROVE  Race!CircleRect(BirdX, y, BirdRadius, p.x, lo, p.x + PipeWidth, hi)
  <2>1. Race!Clamp(y, lo, hi) = y
    BY <1>6, ClampBetween
  <2> QED BY <1>3, <1>4, <1>5, <2>1 DEF Race!CircleRect
<1>7. ~(y <= Race!Top(p))
  <2>1. 0 \in Int /\ 0 <= y
    BY WorldConstants
  <2> QED BY <1>1, <1>2, <1>6, <2>1
<1>8. ~(Race!Bot(p) <= y)
  <2>1. GroundY \in Int /\ y <= GroundY
    BY WorldConstants
  <2> QED BY <1>1, <1>2, <1>6, <2>1
<1> QED BY <1>1, <1>7, <1>8

\* The elements of a stretch of different elements.
LEMMA StretchCounted ==
  ASSUME NEW f, NEW a \in Int, NEW b \in Int, \A i, j \in a..b : f[i] = f[j] => i = j
  PROVE  Cardinality({f[i] : i \in a..b}) = IF a > b THEN 0 ELSE b - a + 1
<1> DEFINE A == {f[i] : i \in a..b}
           h == [i \in a..b |-> f[i]]
<1>1. h \in Bijection(a..b, A)
  BY DEF Bijection, Injection, Surjection, IsInjective
<1>2. ExistsBijection(a..b, A)
  BY <1>1 DEF ExistsBijection
<1> QED BY <1>2, FS_Bijection, FS_Interval

\* What a tick scores for the living: their next pipe and those after it as far as they are
\* behind them now, so that after it as before their count is of exactly the pipes behind them.
LEMMA PipesAreScored ==
  ASSUME CourseInv, CourseInv', tick' > 0, NEW g, Sliding(g), NEW N \in Nat \ {0},
         N <= nextPipeID + 1, tick = 0 => N = 1, tick > 0 => pipes[1].id <= N,
         \A i \in 1..Len(pipes) : Race!Passed(pipes[i]) <=> pipes[i].id < N,
         NEW b, b.next = N
  PROVE  \E n \in Nat :
           /\ n = Cardinality(Race!Scoring(b, pipes'))
           /\ N + n <= nextPipeID' + 1 /\ pipes'[1].id <= N + n
           /\ \A i \in 1..Len(pipes') : Race!Passed(pipes'[i]) <=> pipes'[i].id < N + n
<1> DEFINE old == Len(pipes)
           new == Len(pipes')
           c == nextPipeID' - new
<1>1. /\ pipes \in Seq(PipeRec) /\ old \in Nat /\ pipes' \in Seq(PipeRec) /\ new \in Nat /\ new >= 1
      /\ nextPipeID \in Nat /\ nextPipeID' \in Nat /\ tick \in Nat
      /\ scroll' \in Nat /\ scroll' <= RampSpeedCap
  <2>1. pipes \in Seq(PipeRec) /\ pipes' \in Seq(PipeRec) /\ nextPipeID \in Nat /\ nextPipeID' \in Nat
        /\ pipes' # <<>>
    BY DEF CourseInv, Spaced
  <2>2. tick \in 0..MaxRaceTicks /\ scroll' \in ScrollSpeed..RampSpeedCap
    BY DEF CourseInv
  <2> QED BY <2>1, <2>2, WorldConstants
<1>2. g \in Nat /\ g <= old /\ c = nextPipeID - old + g /\ nextPipeID' >= nextPipeID /\ c \in Int
  BY <1>1 DEF Sliding
<1>3. \A i \in 1..old : pipes[i].id = nextPipeID - old + i /\ pipes[i].x \in Int
  BY <1>1, PipeFields DEF CourseInv
<1>4. \A i \in 1..new : pipes'[i].id = c + i /\ pipes'[i].x \in Int
  <2>1. \A i \in 1..new : pipes'[i].id = nextPipeID' - new + i
    BY DEF CourseInv
  <2>2. \A i \in 1..new : pipes'[i].x \in Int
    BY <1>1, PipeFields
  <2> QED BY <2>1, <2>2
<1>5. \A i, j \in 1..new : i < j => pipes'[i].x < pipes'[j].x
  BY DEF CourseInv, Spaced
<1>6. \A i \in 1..new : i <= old - g =>
        /\ i + g \in 1..old /\ pipes'[i].id = pipes[i + g].id /\ pipes'[i].x = pipes[i + g].x - scroll'
  BY DEF Sliding
<1>7. \A i \in 1..g : pipes[i].x - scroll' <= 0 - PipeWidth
  BY DEF Sliding
<1>20. new \in Nat /\ new >= 1 /\ old \in Nat
  BY <1>1
<1>21. nextPipeID \in Nat /\ nextPipeID' \in Nat /\ nextPipeID' = c + new
  BY <1>1
<1>22. scroll' \in Nat /\ scroll' <= RampSpeedCap
  BY <1>1
<1>23. /\ PipeWidth \in Nat /\ BirdX \in Nat /\ BirdRadius \in Nat /\ RampSpeedCap \in Nat
       /\ RampSpeedCap < BirdX - BirdRadius
  BY WorldConstants
<1> HIDE DEF old, new, c
<1>8. c + 1 <= N
  <2>1. CASE g = 0
    <3>1. CASE tick = 0
      <4>1. old = 0 /\ nextPipeID = 0 /\ N = 1
        BY <3>1 DEF CourseInv, old
      <4> QED BY <1>2, <2>1, <4>1
    <3>2. CASE tick > 0
      <4>1. pipes # <<>> /\ pipes[1].id <= N
        BY <3>2 DEF CourseInv
      <4>2. 1 \in 1..old
        BY <1>1, <4>1 DEF old
      <4>3. pipes[1].id = nextPipeID - old + 1
        BY <1>3, <4>2
      <4> QED BY <1>1, <1>2, <2>1, <4>1, <4>3
    <3> QED BY <1>1, <3>1, <3>2
  <2>2. CASE g # 0
    <3>1. g \in 1..g /\ g \in 1..old
      BY <1>1, <1>2, <2>2
    <3>2. pipes[g].x - scroll' <= 0 - PipeWidth /\ pipes[g].x \in Int /\ pipes[g].id = c
      BY <1>2, <1>3, <1>7, <3>1
    <3>3. Race!Passed(pipes[g])
      BY <1>22, <1>23, <3>2 DEF Race!Passed
    <3>4. pipes[g].id < N
      BY <3>1, <3>3 DEF old
    <3> QED BY <1>2, <3>2, <3>4
  <2> QED BY <2>1, <2>2
<1> DEFINE P == {i \in 1..new : Race!Passed(pipes'[i])}
<1>9. PICK p \in 0..new : P = 1..p
  <2>1. ASSUME NEW i \in P, NEW j \in 1..i PROVE j \in P
    <3>1. i \in 1..new /\ j \in 1..new /\ (j < i \/ j = i) /\ Race!Passed(pipes'[i])
      BY <1>1
    <3>2. pipes'[j].x <= pipes'[i].x /\ pipes'[j].x \in Int /\ pipes'[i].x \in Int
      BY <1>4, <1>5, <3>1
    <3>3. pipes'[i].x + PipeWidth < BirdX - BirdRadius
      BY <3>1 DEF Race!Passed
    <3>4. pipes'[j].x + PipeWidth < BirdX - BirdRadius
      <4> DEFINE here == pipes'[j].x
                 there == pipes'[i].x
      <4>1. here <= there /\ here \in Int /\ there \in Int /\ there + PipeWidth < BirdX - BirdRadius
        BY <3>2, <3>3
      <4> HIDE DEF here, there
      <4>2. here + PipeWidth < BirdX - BirdRadius
        BY <1>23, <4>1
      <4> QED BY <4>2 DEF here
    <3> QED BY <3>1, <3>4 DEF Race!Passed
  <2>2. P \in SUBSET (1..new) /\ new \in Nat
    BY <1>1
  <2> HIDE DEF P
  <2> QED BY <2>1, <2>2, BelowIsCounted
<1>10. \A i \in 1..new : Race!Passed(pipes'[i]) <=> i <= p
  BY <1>1, <1>9
<1> HIDE DEF P
<1>11. p \in Nat /\ p <= new
  BY <1>1, <1>9
<1>12. ASSUME NEW i \in 1..new, c + i < N PROVE i <= p
  <2>1. i <= old - g
    BY <1>1, <1>2, <1>12
  <2>2. i + g \in 1..old /\ pipes'[i].id = pipes[i + g].id /\ pipes'[i].x = pipes[i + g].x - scroll'
    BY <1>6, <2>1
  <2>3. pipes[i + g].id < N
    BY <1>4, <1>12, <2>2
  <2>4. Race!Passed(pipes[i + g])
    BY <2>2, <2>3 DEF old
  <2>5. pipes[i + g].x \in Int
    BY <1>3, <2>2
  <2>6. Race!Passed(pipes'[i])
    BY <1>22, <1>23, <2>2, <2>4, <2>5 DEF Race!Passed
  <2> QED BY <1>10, <2>6
<1>13. N - c \in Nat /\ N - c >= 1 /\ N - c <= p + 1
  <2>1. N - c >= 1 /\ N - c \in Nat /\ N - c <= new + 1
    <3>1. N <= nextPipeID' + 1 /\ nextPipeID' = c + new
      BY <1>2, <1>21
    <3> QED BY <1>2, <1>8, <1>20, <3>1
  <2>2. CASE N - c = 1
    BY <1>11, <2>2
  <2>3. CASE N - c > 1
    <3>1. (N - c) - 1 \in 1..new /\ c + ((N - c) - 1) < N
      BY <1>1, <1>2, <2>1, <2>3
    <3>2. (N - c) - 1 <= p
      BY <1>12, <3>1
    <3> QED BY <1>11, <2>1, <3>2
  <2> QED BY <2>1, <2>2, <2>3
<1>14. Race!Scoring(b, pipes') = {pipes'[i] : i \in (N - c)..p}
  <2>1. Race!ToSet(pipes') = {pipes'[i] : i \in 1..new}
    <3>1. DOMAIN pipes' = 1..new
      BY <1>1 DEF new
    <3> QED BY <3>1 DEF Race!ToSet
  <2>2. ASSUME NEW q \in Race!Scoring(b, pipes') PROVE q \in {pipes'[i] : i \in (N - c)..p}
    <3>1. q \in Race!ToSet(pipes') /\ q.id >= N
          /\ \A k \in N..q.id : \E r \in Race!ToSet(pipes') : r.id = k /\ Race!Passed(r)
      BY <2>2 DEF Race!Scoring
    <3>2. PICK i \in 1..new : q = pipes'[i]
      BY <2>1, <3>1
    <3>3. q.id = c + i /\ c + i >= N /\ i \in Nat
      BY <1>4, <3>1, <3>2
    <3>4. c + i \in N..c + i
      BY <1>2, <3>3
    <3>5. PICK r \in Race!ToSet(pipes') : r.id = c + i /\ Race!Passed(r)
      BY <3>1, <3>3, <3>4
    <3>6. PICK j \in 1..new : r = pipes'[j]
      BY <2>1, <3>5
    <3>7. c + j = c + i /\ j \in Nat
      BY <1>4, <3>5, <3>6
    <3>8. j = i
      BY <1>2, <3>3, <3>7
    <3>9. i <= p
      BY <1>10, <3>5, <3>6, <3>8
    <3> QED BY <1>2, <1>11, <3>2, <3>3, <3>9
  <2>3. ASSUME NEW i \in (N - c)..p PROVE pipes'[i] \in Race!Scoring(b, pipes')
    <3>1. i \in 1..new /\ i \in Nat /\ i <= p
      BY <1>11, <1>13, <1>20
    <3>2. pipes'[i] \in Race!ToSet(pipes') /\ pipes'[i].id = c + i /\ c + i >= N
      BY <1>2, <1>4, <1>13, <2>1, <3>1
    <3>3. ASSUME NEW k \in N..c + i PROVE \E r \in Race!ToSet(pipes') : r.id = k /\ Race!Passed(r)
      <4>1. k - c \in 1..new /\ k - c <= p /\ c + (k - c) = k
        BY <1>1, <1>2, <1>8, <1>11, <3>1
      <4>2. pipes'[k - c] \in Race!ToSet(pipes') /\ pipes'[k - c].id = k
        BY <1>4, <2>1, <4>1
      <4>3. Race!Passed(pipes'[k - c])
        BY <1>10, <4>1
      <4> QED BY <4>2, <4>3
    <3> QED BY <3>2, <3>3 DEF Race!Scoring
  <2> QED BY <2>2, <2>3
<1>15. Cardinality(Race!Scoring(b, pipes')) = (p - (N - c)) + 1
  <2>1. \A i, j \in (N - c)..p : pipes'[i] = pipes'[j] => i = j
    <3> SUFFICES ASSUME NEW i \in (N - c)..p, NEW j \in (N - c)..p, pipes'[i] = pipes'[j] PROVE i = j
      OBVIOUS
    <3>1. i \in 1..new /\ j \in 1..new
      BY <1>11, <1>13, <1>20
    <3>2. c + i = c + j
      BY <1>4, <3>1
    <3> QED BY <1>2, <3>1, <3>2
  <2>2. N - c \in Int /\ p \in Int
    BY <1>11, <1>13
  <2>3. Cardinality({pipes'[i] : i \in (N - c)..p}) = IF N - c > p THEN 0 ELSE p - (N - c) + 1
    BY <2>1, <2>2, StretchCounted
  <2> QED BY <1>11, <1>13, <1>14, <2>3
<1> DEFINE n == (p - (N - c)) + 1
<1>16. n \in Nat /\ N + n = (c + p) + 1 /\ N + n \in Int
  BY <1>2, <1>11, <1>13
<1>17. N + n <= nextPipeID' + 1
  <2>1. nextPipeID' = c + new
    BY <1>1 DEF c
  <2> QED BY <1>2, <1>1, <1>11, <1>16, <2>1
<1> HIDE DEF n
<1>18. pipes'[1].id <= N + n
  <2>1. 1 \in 1..new
    BY <1>1
  <2>2. pipes'[1].id = c + 1
    BY <1>4, <2>1
  <2> QED BY <1>2, <1>11, <1>16, <2>2
<1>19. ASSUME NEW i \in 1..new PROVE Race!Passed(pipes'[i]) <=> pipes'[i].id < N + n
  <2>1. i <= p <=> c + i < (c + p) + 1
    BY <1>2, <1>11
  <2>2. pipes'[i].id = c + i
    BY <1>4
  <2> QED BY <1>10, <1>16, <2>1, <2>2, Zenon
<1> QED BY <1>15, <1>16, <1>17, <1>18, <1>19 DEF n, new

-----------------------------------------------------------------------------
(* World: the birds *)

Flock ==
  order \in Seq(Ids) /\ Race!IsInjective(order) /\ birds \in [Race!Racers -> BirdRec]

Dated ==
  \A id \in Race!Racers : /\ birds[id].death <= tick
                          /\ birds[id].left => birds[id].dead
                          /\ phase = "countdown" => ~birds[id].dead

\* N is the next pipe of everyone who lives: all have passed the same ones.
Counted(N) ==
  /\ N \in Nat \ {0} /\ N <= nextPipeID + 1
  /\ tick = 0 => N = 1
  /\ tick > 0 => pipes[1].id <= N
  /\ \A i \in 1..Len(pipes) : Race!Passed(pipes[i]) <=> pipes[i].id < N

Level(N) ==
  /\ \A id \in Race!Living : birds[id].next = N /\ birds[id].score = N - 1
  /\ \A id \in Race!Racers : birds[id].score <= N - 1

Tallied == \E N \in Nat \ {0} : Counted(N) /\ Level(N)

InGaps(y, ps) ==
  \A i \in 1..Len(ps) :
    ps[i].x <= BirdX /\ ps[i].x + PipeWidth >= BirdX => Race!Top(ps[i]) < y /\ y < Race!Bot(ps[i])

Aloft == \A id \in Race!Living : birds[id].y + BirdRadius <= GroundY /\ InGaps(birds[id].y, pipes)

\* Who died later had scored as much at least.
Survivors ==
  \A a, b \in Race!Racers :
    birds[a].dead /\ birds[b].dead /\ birds[a].death > birds[b].death =>
      birds[a].score >= birds[b].score

BirdInv == Flock /\ Dated /\ Tallied /\ Aloft /\ Survivors

\* The fields of a bird.
LEMMA BirdFields ==
  ASSUME NEW b \in BirdRec
  PROVE  /\ b.y \in Int /\ b.y >= CeilingY /\ b.score \in Nat /\ b.dead \in BOOLEAN
         /\ b.death \in Nat /\ b.left \in BOOLEAN /\ b.next \in Nat
<1>1. b.y \in CeilingY..GroundY + TerminalVel
  BY DEF BirdRec
<1>2. b.y \in Int /\ b.y >= CeilingY
  BY <1>1, WorldConstants
<1> QED BY <1>2 DEF BirdRec

\* How a bird that lived comes out of a tick.
Outcome(id, t, N, n) ==
  /\ birds'[id] \in BirdRec /\ birds'[id].left = birds[id].left
  /\ \/ /\ birds'[id].dead = TRUE /\ birds'[id].death = t /\ birds'[id].score = birds[id].score
     \/ /\ birds'[id].dead = FALSE /\ birds'[id].death = birds[id].death
        /\ birds'[id].score = birds[id].score + n /\ birds'[id].next = N + n
        /\ birds'[id].y + BirdRadius <= GroundY /\ InGaps(birds'[id].y, pipes')

\* A bird that lived is judged by where the tick has moved it.
LEMMA BirdComesOut ==
  ASSUME BirdInv, CourseInv', NEW id \in Race!Living, NEW t \in Nat, NEW N \in Nat \ {0}, Level(N),
         NEW n \in Nat, n = Cardinality(Race!Scoring([next |-> N], pipes')),
         NEW flapped \in BOOLEAN, NEW f, f = Race!Flown(birds[id], flapped),
         birds'[id] = Race!Judged(f, pipes', t)
  PROVE  Outcome(id, t, N, n)
<1>1. id \in Race!Racers /\ birds[id] \in BirdRec /\ ~birds[id].dead
  BY DEF BirdInv, Flock, Race!Living
<1>2. birds[id].next = N /\ birds[id].y + BirdRadius <= GroundY
  BY DEF BirdInv, Level, Aloft
<1>3. /\ f \in BirdRec /\ f.score = birds[id].score /\ f.dead = birds[id].dead
      /\ f.death = birds[id].death /\ f.left = birds[id].left /\ f.next = birds[id].next
  BY <1>1, <1>2, FlownKeeps
<1>4. n = Cardinality(Race!Scoring(f, pipes'))
  <2>1. f.next = [next |-> N].next
    BY <1>2, <1>3
  <2> QED BY <2>1, ScoringByNext
<1> DEFINE j == Race!Judged(f, pipes', t)
           ps == pipes'
<1>9. j = Race!Judged(f, ps, t) /\ n = Cardinality(Race!Scoring(f, ps)) /\ f \in BirdRec
  BY <1>3, <1>4
<1> HIDE DEF j, ps
<1>10. Judgement(f, ps, t, n, j)
  BY <1>9, JudgedOutcome
<1>5. /\ j \in BirdRec /\ j.y = f.y /\ j.left = f.left
      /\ \/ /\ j.dead = TRUE /\ j.death = t /\ j.score = f.score /\ j.next = f.next
         \/ /\ ~(f.y + BirdRadius >= GroundY) /\ \A p \in Race!ToSet(pipes') : ~Race!Hits(f.y, p)
            /\ j.dead = f.dead /\ j.death = f.death /\ j.score = f.score + n /\ j.next = f.next + n
  BY <1>10, Zenon DEF Judgement, ps
<1>6. birds'[id] = j
  BY DEF j
<1>7. CASE j.dead = TRUE /\ j.death = t /\ j.score = f.score
  BY <1>3, <1>5, <1>6, <1>7, Zenon DEF Outcome
<1>8. CASE /\ ~(f.y + BirdRadius >= GroundY) /\ \A p \in Race!ToSet(pipes') : ~Race!Hits(f.y, p)
           /\ j.dead = f.dead /\ j.death = f.death /\ j.score = f.score + n /\ j.next = f.next + n
  <2>1. f.y \in Int /\ f.y >= CeilingY /\ f.dead \in BOOLEAN
    BY <1>3, BirdFields
  <2>2. j.dead = FALSE
    BY <1>1, <1>3, <1>8, <2>1, Zenon
  <2>3. j.y + BirdRadius <= GroundY
    BY <1>5, <1>8, <2>1, WorldConstants
  <2>4. InGaps(j.y, pipes')
    <3>1. ASSUME NEW i \in 1..Len(pipes'), pipes'[i].x <= BirdX, pipes'[i].x + PipeWidth >= BirdX
          PROVE  Race!Top(pipes'[i]) < f.y /\ f.y < Race!Bot(pipes'[i])
      <4>1. pipes' \in Seq(PipeRec)
        BY DEF CourseInv, Spaced
      <4>2. pipes'[i] \in PipeRec /\ pipes'[i] \in Race!ToSet(pipes')
        BY <4>1 DEF Race!ToSet
      <4>3. CeilingY <= f.y /\ ~Race!Hits(f.y, pipes'[i])
        BY <1>8, <2>1, <4>2, WorldConstants
      <4> QED BY <1>8, <2>1, <3>1, <4>2, <4>3, WithinTheGap
    <3> QED BY <1>5, <3>1, Zenon DEF InGaps
  <2> QED BY <1>2, <1>3, <1>5, <1>6, <1>8, <2>2, <2>3, <2>4, Zenon DEF Outcome
<1> QED BY <1>5, <1>7, <1>8, Zenon

\* Where a bird starts.
Fresh ==
  [y |-> SpawnY, vy |-> 0, score |-> 0, dead |-> FALSE, death |-> 0, left |-> FALSE, next |-> 1]

\* A new bird is above the ground.
LEMMA FreshBird == Fresh \in BirdRec /\ Fresh.y + BirdRadius <= GroundY
<1>1. /\ SpawnY \in CeilingY..GroundY + TerminalVel /\ 0 \in FlapImpulse..TerminalVel
      /\ SpawnY + BirdRadius <= GroundY
  BY WorldConstants
<1> QED BY <1>1 DEF Fresh, BirdRec

\* Before the race the birds are fresh or have not moved.
LEMMA BirdsGather ==
  ASSUME CourseInv, BirdInv, phase = "countdown", phase' = phase, tick' = tick,
         UNCHANGED <<scroll, gap, pipes, nextPipeID, lastGapY>>,
         order' \in Seq(Ids), Race!IsInjective(order'), birds' \in [Race!Racers' -> BirdRec],
         \A id \in Race!Racers' : birds'[id] = Fresh \/ (id \in Race!Racers /\ birds'[id] = birds[id])
  PROVE  BirdInv'
<1>1. tick = 0 /\ pipes = <<>> /\ nextPipeID = 0
  BY DEF CourseInv
<1>2. Flock'
  BY DEF Flock
<1>3. Dated'
  <2>1. ASSUME NEW id \in Race!Racers'
        PROVE  /\ birds'[id].death <= tick' /\ (birds'[id].left => birds'[id].dead)
               /\ phase' = "countdown" => ~birds'[id].dead
    <3>1. CASE birds'[id] = Fresh
      BY <1>1, <3>1 DEF Fresh
    <3>2. CASE id \in Race!Racers /\ birds'[id] = birds[id]
      BY <3>2 DEF BirdInv, Dated
    <3> QED BY <3>1, <3>2
  <2> QED BY <2>1 DEF Dated
<1>4. Tallied'
  <2>1. PICK N \in Nat \ {0} : Counted(N) /\ Level(N)
    BY DEF BirdInv, Tallied
  <2>2. N = 1
    BY <1>1, <2>1 DEF Counted
  <2>3. Counted(N)'
    BY <2>1 DEF Counted, Race!Passed
  <2>4. ASSUME NEW id \in Race!Racers'
        PROVE  /\ birds'[id].score <= N - 1
               /\ ~birds'[id].dead => birds'[id].next = N /\ birds'[id].score = N - 1
    <3>1. CASE birds'[id] = Fresh
      BY <2>2, <3>1 DEF Fresh
    <3>2. CASE id \in Race!Racers /\ birds'[id] = birds[id]
      BY <2>1, <3>2 DEF Level, Race!Living
    <3> QED BY <3>1, <3>2
  <2> QED BY <2>3, <2>4 DEF Tallied, Level, Race!Living
<1>5. Aloft'
  <2>1. ASSUME NEW id \in Race!Living'
        PROVE  birds'[id].y + BirdRadius <= GroundY
    <3>1. id \in Race!Racers' /\ ~birds'[id].dead
      BY DEF Race!Living
    <3>2. CASE birds'[id] = Fresh
      BY <3>2, FreshBird
    <3>3. CASE id \in Race!Racers /\ birds'[id] = birds[id]
      BY <3>1, <3>3 DEF BirdInv, Aloft, Race!Living
    <3> QED BY <3>1, <3>2, <3>3
  <2>2. \A y : InGaps(y, pipes')
    <3>1. pipes' = <<>> /\ Len(<<>>) = 0
      BY <1>1
    <3> QED BY <3>1 DEF InGaps
  <2> QED BY <2>1, <2>2 DEF Aloft
<1>6. Survivors'
  <2>1. \A id \in Race!Racers' : ~birds'[id].dead
    BY <1>3 DEF Dated
  <2> QED BY <2>1 DEF Survivors
<1> QED BY <1>2, <1>3, <1>4, <1>5, <1>6 DEF BirdInv

\* A bird that joins is fresh, and nobody else changes.
LEMMA BirdsAdded ==
  ASSUME CourseInv, BirdInv, NEW id \in Ids, Race!AddBird(id) PROVE BirdInv'
<1>1. order \in Seq(Ids) /\ IsInjective(order) /\ birds \in [Race!Racers -> BirdRec]
      /\ Race!Racers = Range(order)
  BY DEF BirdInv, Flock, Race!IsInjective, IsInjective, Race!Racers, Race!ToSet, Range
<1>2. id \notin Range(order)
  <2>1. \A o \in Range(order) : o < id
    BY <1>1 DEF Race!AddBird
  <2>2. id \in Nat
    BY WorldConstants
  <2> QED BY <2>1, <2>2
<1>3. order' \in Seq(Ids) /\ IsInjective(order') /\ Range(order') = Range(order) \cup {id}
  <2>1. order' = Append(order, id)
    BY DEF Race!AddBird
  <2> QED BY <1>1, <1>2, <2>1, AppendNew
<1>4. Race!Racers' = Race!Racers \cup {id} /\ Race!IsInjective(order')
  BY <1>1, <1>3 DEF Race!IsInjective, IsInjective, Race!Racers, Race!ToSet, Range
<1>5. birds' = [o \in Race!Racers \cup {id} |-> IF o \in Race!Racers THEN birds[o] ELSE Fresh]
  BY DEF Race!AddBird, Fresh
<1>6. birds' \in [Race!Racers' -> BirdRec]
  BY <1>1, <1>4, <1>5, FreshBird
<1>7. \A o \in Race!Racers' : birds'[o] = Fresh \/ (o \in Race!Racers /\ birds'[o] = birds[o])
  BY <1>4, <1>5
<1>8. /\ phase = "countdown" /\ phase' = phase /\ tick' = tick
      /\ UNCHANGED <<scroll, gap, pipes, nextPipeID, lastGapY>>
  BY DEF Race!AddBird, Race!course
<1> QED BY <1>3, <1>4, <1>6, <1>7, <1>8, BirdsGather

\* A bird that leaves before the race takes nobody with it.
LEMMA BirdsRemoved ==
  ASSUME CourseInv, BirdInv, NEW id \in Ids, Race!RemoveBird(id) PROVE BirdInv'
<1>1. order \in Seq(Ids) /\ IsInjective(order) /\ birds \in [Race!Racers -> BirdRec]
      /\ Race!Racers = Range(order)
  BY DEF BirdInv, Flock, Race!IsInjective, IsInjective, Race!Racers, Race!ToSet, Range
<1>2. PICK i \in 1..Len(order) : order[i] = id /\ order' = RemoveAt(order, i)
  <2>1. DOMAIN order = 1..Len(order)
    BY <1>1
  <2> QED BY <2>1 DEF Race!RemoveBird, Race!RemoveAt, RemoveAt
<1>3. order' \in Seq(Ids) /\ IsInjective(order') /\ Range(order') = Range(order) \ {id}
  BY <1>1, <1>2, RemoveAtOnce
<1>4. Race!Racers' = Race!Racers \ {id} /\ Race!IsInjective(order')
  BY <1>1, <1>3 DEF Race!IsInjective, IsInjective, Race!Racers, Race!ToSet, Range
<1>5. birds' = [o \in Race!Racers \ {id} |-> birds[o]]
  BY DEF Race!RemoveBird
<1>6. birds' \in [Race!Racers' -> BirdRec]
  BY <1>1, <1>4, <1>5
<1>7. \A o \in Race!Racers' : birds'[o] = Fresh \/ (o \in Race!Racers /\ birds'[o] = birds[o])
  BY <1>4, <1>5
<1>8. /\ phase = "countdown" /\ phase' = phase /\ tick' = tick
      /\ UNCHANGED <<scroll, gap, pipes, nextPipeID, lastGapY>>
  BY DEF Race!RemoveBird, Race!course
<1> QED BY <1>3, <1>4, <1>6, <1>7, <1>8, BirdsGather

\* Who leaves a race dies in its current tick.
LEMMA BirdKilled ==
  ASSUME CourseInv, BirdInv, NEW id \in Race!Living, Race!KillLeft(id) PROVE BirdInv'
<1>1. /\ id \in Race!Racers /\ birds \in [Race!Racers -> BirdRec] /\ phase = "racing" /\ tick \in Nat
      /\ Race!Racers' = Race!Racers
  BY DEF BirdInv, Flock, CourseInv, Race!Living, Race!KillLeft, Race!Racers
<1>2. birds' = [birds EXCEPT ![id] = [birds[id] EXCEPT !.dead = TRUE, !.left = TRUE, !.death = tick]]
  BY <1>1 DEF Race!KillLeft
<1>3. /\ phase' = phase /\ tick' = tick /\ order' = order
      /\ UNCHANGED <<scroll, gap, pipes, nextPipeID, lastGapY>>
  BY DEF Race!KillLeft, Race!course
<1>4. /\ birds' \in [Race!Racers -> BirdRec]
      /\ birds'[id].dead = TRUE /\ birds'[id].left = TRUE /\ birds'[id].death = tick
      /\ birds'[id].score = birds[id].score
      /\ \A o \in Race!Racers : o # id => birds'[o] = birds[o]
  <2>1. [birds[id] EXCEPT !.dead = TRUE, !.left = TRUE, !.death = tick] \in BirdRec
    BY <1>1 DEF BirdRec
  <2> QED BY <1>1, <1>2, <2>1 DEF BirdRec
<1>5. Race!Living' \subseteq Race!Living /\ \A o \in Race!Living' : o # id /\ birds'[o] = birds[o]
  BY <1>1, <1>4 DEF Race!Living
<1>6. Flock' /\ Dated'
  <2>1. Flock'
    BY <1>1, <1>3, <1>4 DEF BirdInv, Flock
  <2>2. ASSUME NEW o \in Race!Racers
        PROVE  /\ birds'[o].death <= tick' /\ (birds'[o].left => birds'[o].dead)
               /\ phase' = "countdown" => ~birds'[o].dead
    <3>1. CASE o = id
      BY <1>1, <1>3, <1>4, <3>1
    <3>2. CASE o # id
      BY <1>3, <1>4, <3>2 DEF BirdInv, Dated
    <3> QED BY <3>1, <3>2
  <2> QED BY <1>1, <2>1, <2>2 DEF Dated
<1>7. PICK N \in Nat \ {0} : Counted(N) /\ Level(N)
  BY DEF BirdInv, Tallied
<1>8. Tallied'
  <2>1. Counted(N)'
    BY <1>3, <1>7 DEF Counted, Race!Passed
  <2>2. \A o \in Race!Racers : birds'[o].score = birds[o].score
    BY <1>4
  <2>3. Level(N)'
    BY <1>1, <1>5, <1>7, <2>2 DEF Level
  <2> QED BY <2>1, <2>3 DEF Tallied
<1>9. Aloft'
  BY <1>3, <1>5 DEF BirdInv, Aloft
<1>10. Survivors'
  <2> SUFFICES ASSUME NEW a \in Race!Racers, NEW b \in Race!Racers,
                      birds'[a].dead, birds'[b].dead, birds'[a].death > birds'[b].death
               PROVE  birds'[a].score >= birds'[b].score
    BY <1>1 DEF Survivors
  <2>1. /\ birds[a].death \in Nat /\ birds[b].death \in Nat /\ birds[a].death <= tick
        /\ birds[a].score \in Nat /\ birds[b].score \in Nat
    <3>1. birds[a] \in BirdRec /\ birds[b] \in BirdRec
      BY <1>1
    <3> QED BY <3>1, BirdFields DEF BirdInv, Dated
  <2>2. CASE a = id
    <3>1. birds[id].score = N - 1 /\ birds[b].score <= N - 1
      BY <1>7 DEF Level
    <3>2. birds'[a].score = birds[id].score /\ birds'[b].score = birds[b].score
      BY <1>4, <2>2
    <3> QED BY <2>1, <2>2, <3>1, <3>2
  <2>3. CASE a # id /\ b = id
    BY <1>1, <1>4, <2>1, <2>3
  <2>4. CASE a # id /\ b # id
    BY <1>4, <2>4 DEF BirdInv, Survivors
  <2> QED BY <2>2, <2>3, <2>4
<1> QED BY <1>6, <1>8, <1>9, <1>10 DEF BirdInv

\* A tick moves the course on.
LEMMA CourseMoves ==
  ASSUME CourseInv, NEW flaps, Race!Step(flaps)
  PROVE  CourseInv' /\ \E g \in 0..Len(pipes) : Sliding(g)
<1>1. /\ phase = "racing" /\ phase' = phase /\ tick' = tick + 1
      /\ scroll' = Race!RampedScroll(tick') /\ gap' = Race!RampedGap(tick')
  BY DEF Race!Step
<1>2. tick < MaxRaceTicks
  <2>1. ~(tick >= MaxRaceTicks)
    BY <1>1 DEF Race!Step, Race!Over
  <2>2. tick \in Nat
    BY WorldConstants DEF CourseInv
  <2> QED BY <2>1, <2>2, WorldConstants
<1> DEFINE kept == Race!Kept(scroll')
<1>3. PICK gaps \in [1..Race!MissingPipes(kept) -> GapYMin..GapYMax] :
        /\ Race!Drawn(gaps)
        /\ pipes' = kept \o Race!Spawned(kept, gaps, gap')
        /\ nextPipeID' = nextPipeID + Len(Race!Spawned(kept, gaps, gap'))
        /\ lastGapY' = IF Race!Spawned(kept, gaps, gap') = <<>> THEN lastGapY
                       ELSE Race!Last(Race!Spawned(kept, gaps, gap')).gapY
  BY DEF Race!Step
<1>4. kept = Race!Kept(scroll')
  OBVIOUS
<1> DEFINE new == Race!Spawned(kept, gaps, gap')
<1>5. /\ new = Race!Spawned(kept, gaps, gap') /\ Race!Drawn(gaps) /\ pipes' = kept \o new
      /\ nextPipeID' = nextPipeID + Len(new)
      /\ lastGapY' = IF new = <<>> THEN lastGapY ELSE Race!Last(new).gapY
  BY <1>3
<1> HIDE DEF kept, new
<1> QED BY <1>1, <1>2, <1>3, <1>4, <1>5, CourseSteps

\* A tick scores the same for everyone it leaves alive, and dates the deaths.
LEMMA BirdsStep ==
  ASSUME CourseInv, BirdInv, NEW flaps \in SUBSET Race!Living, Race!Step(flaps)
  PROVE  BirdInv'
<1>1. CourseInv'
  BY CourseMoves
<1>2. PICK g : Sliding(g)
  BY CourseMoves
<1>3. PICK N \in Nat \ {0} : Counted(N) /\ Level(N)
  BY DEF BirdInv, Tallied
<1>4. /\ phase = "racing" /\ phase' = phase /\ tick' = tick + 1 /\ order' = order
      /\ tick \in Nat /\ tick' \in Nat /\ tick' > 0 /\ Race!Racers' = Race!Racers
      /\ birds \in [Race!Racers -> BirdRec]
  <2>1. tick \in Nat
    BY WorldConstants DEF CourseInv
  <2>2. phase = "racing" /\ phase' = phase /\ tick' = tick + 1 /\ order' = order
    BY DEF Race!Step
  <2> QED BY <2>1, <2>2 DEF BirdInv, Flock, Race!Racers
<1> DEFINE b0 == [next |-> N]
<1>5. PICK n \in Nat :
        /\ n = Cardinality(Race!Scoring(b0, pipes'))
        /\ N + n <= nextPipeID' + 1 /\ pipes'[1].id <= N + n
        /\ \A i \in 1..Len(pipes') : Race!Passed(pipes'[i]) <=> pipes'[i].id < N + n
  <2>1. b0.next = N
    OBVIOUS
  <2> HIDE DEF b0
  <2>2. /\ N <= nextPipeID + 1 /\ (tick = 0 => N = 1) /\ (tick > 0 => pipes[1].id <= N)
        /\ \A i \in 1..Len(pipes) : Race!Passed(pipes[i]) <=> pipes[i].id < N
    BY <1>3 DEF Counted
  <2> QED BY <1>1, <1>2, <1>4, <2>1, <2>2, PipesAreScored
<1>6. ASSUME NEW id \in Race!Racers
      PROVE  /\ birds[id] \in BirdRec
             /\ birds[id].dead => birds'[id] = birds[id]
             /\ ~birds[id].dead => Outcome(id, tick', N, n)
  <2>1. birds' = [o \in Race!Racers |-> IF birds[o].dead THEN birds[o]
                   ELSE Race!Judged(Race!Flown(birds[o], o \in flaps), pipes', tick')]
    BY DEF Race!Step
  <2>2. CASE birds[id].dead
    BY <1>4, <2>1, <2>2
  <2>3. CASE ~birds[id].dead
    <3>1. id \in Race!Living
      BY <2>3 DEF Race!Living
    <3> DEFINE flapped == id \in flaps
               f == Race!Flown(birds[id], flapped)
    <3>2. flapped \in BOOLEAN /\ f = Race!Flown(birds[id], flapped)
      OBVIOUS
    <3>3. birds'[id] = Race!Judged(f, pipes', tick')
      BY <2>1, <2>3
    <3> HIDE DEF flapped, f
    <3>4. Level(N) /\ n = Cardinality(Race!Scoring([next |-> N], pipes'))
      BY <1>3, <1>5
    <3>5. Outcome(id, tick', N, n)
      BY <1>1, <1>4, <3>1, <3>2, <3>3, <3>4, BirdComesOut
    <3> QED BY <1>4, <2>3, <3>5
  <2> QED BY <2>2, <2>3
<1>7. ASSUME NEW id \in Race!Racers
      PROVE  /\ birds[id].death \in Nat /\ birds[id].death <= tick /\ birds[id].score \in Nat
             /\ birds[id].score <= N - 1 /\ (~birds[id].dead => birds[id].score = N - 1)
             /\ birds[id].left => birds[id].dead
  <2>1. birds[id].death \in Nat /\ birds[id].score \in Nat
    BY <1>6, BirdFields
  <2>2. birds[id].death <= tick /\ (birds[id].left => birds[id].dead)
    BY DEF BirdInv, Dated
  <2>3. birds[id].score <= N - 1 /\ (~birds[id].dead => birds[id].score = N - 1)
    BY <1>3 DEF Level, Race!Living
  <2> QED BY <2>1, <2>2, <2>3
<1>8. ASSUME NEW id \in Race!Racers
      PROVE  /\ birds'[id] \in BirdRec /\ birds'[id].death <= tick'
             /\ birds'[id].left => birds'[id].dead
             /\ birds'[id].score <= (N - 1) + n
             /\ ~birds'[id].dead => /\ ~birds[id].dead
                                    /\ birds'[id].score = (N - 1) + n /\ birds'[id].next = N + n
                                    /\ birds'[id].y + BirdRadius <= GroundY
                                    /\ InGaps(birds'[id].y, pipes')
             /\ birds'[id].dead /\ ~birds[id].dead =>
                  birds'[id].death = tick' /\ birds'[id].score = N - 1
  <2>1. CASE birds[id].dead
    <3>1. birds'[id] = birds[id] /\ birds[id] \in BirdRec
      BY <1>6, <2>1
    <3>2. birds[id].death <= tick' /\ birds[id].score <= (N - 1) + n
      BY <1>4, <1>7
    <3> QED BY <2>1, <3>1, <3>2
  <2>2. CASE ~birds[id].dead
    <3>1. Outcome(id, tick', N, n)
      BY <1>6, <2>2
    <3>2. ~birds[id].left
      BY <1>7, <2>2
    <3>3. birds[id].score = N - 1 /\ birds[id].death <= tick' /\ N - 1 <= (N - 1) + n
          /\ tick' <= tick' /\ (N - 1) + n <= (N - 1) + n
      BY <1>4, <1>7, <2>2
    <3>4. CASE /\ birds'[id].dead = TRUE /\ birds'[id].death = tick'
               /\ birds'[id].score = birds[id].score
      BY <2>2, <3>1, <3>2, <3>3, <3>4, Zenon DEF Outcome
    <3>5. CASE /\ birds'[id].dead = FALSE /\ birds'[id].death = birds[id].death
               /\ birds'[id].score = birds[id].score + n /\ birds'[id].next = N + n
               /\ birds'[id].y + BirdRadius <= GroundY /\ InGaps(birds'[id].y, pipes')
      BY <2>2, <3>1, <3>2, <3>3, <3>5, Zenon DEF Outcome
    <3> QED BY <3>1, <3>4, <3>5, Zenon DEF Outcome
  <2> QED BY <2>1, <2>2
<1>9. Flock'
  <2>1. birds' = [o \in Race!Racers |-> birds'[o]]
    BY DEF Race!Step
  <2>2. birds' \in [Race!Racers -> BirdRec]
    BY <1>8, <2>1
  <2> QED BY <1>4, <2>2 DEF BirdInv, Flock
<1>10. Dated'
  BY <1>4, <1>8 DEF Dated
<1>11. Tallied'
  <2>1. N + n \in Nat \ {0} /\ (N + n) - 1 = (N - 1) + n
    OBVIOUS
  <2>2. Counted(N + n)'
    BY <1>4, <1>5, <2>1 DEF Counted
  <2>3. Level(N + n)'
    BY <1>4, <1>8, <2>1, Zenon DEF Level, Race!Living
  <2> QED BY <2>1, <2>2, <2>3 DEF Tallied
<1>12. Aloft'
  BY <1>4, <1>8, Zenon DEF Aloft, Race!Living
<1>13. Survivors'
  <2> SUFFICES ASSUME NEW a \in Race!Racers, NEW b \in Race!Racers,
                      birds'[a].dead, birds'[b].dead, birds'[a].death > birds'[b].death
               PROVE  birds'[a].score >= birds'[b].score
    BY <1>4 DEF Survivors
  <2>1. CASE birds[a].dead /\ birds[b].dead
    <3>1. birds'[a] = birds[a] /\ birds'[b] = birds[b]
      BY <1>6, <2>1
    <3> QED BY <2>1, <3>1 DEF BirdInv, Survivors
  <2>2. CASE ~birds[a].dead /\ birds[b].dead
    <3>1. birds'[a].score = N - 1 /\ birds'[b] = birds[b] /\ birds[b].score <= N - 1
          /\ birds[b].score \in Nat
      BY <1>6, <1>7, <1>8, <2>2
    <3> QED BY <3>1
  <2>3. CASE birds[a].dead /\ ~birds[b].dead
    <3>1. birds'[a] = birds[a] /\ birds[a].death <= tick /\ birds[a].death \in Nat
          /\ birds'[b].death = tick'
      BY <1>6, <1>7, <1>8, <2>3
    <3> QED BY <1>4, <3>1
  <2>4. CASE ~birds[a].dead /\ ~birds[b].dead
    <3>1. birds'[a].score = N - 1 /\ birds'[b].score = N - 1
      BY <1>8, <2>4
    <3> QED BY <3>1
  <2> QED BY <2>1, <2>2, <2>3, <2>4
<1> QED BY <1>9, <1>10, <1>11, <1>12, <1>13 DEF BirdInv

WorldInv == CourseInv /\ BirdInv

\* Between races nothing is left of the last one.
LEMMA NewWorldInv ==
  ASSUME phase = "countdown", tick = 0, scroll = ScrollSpeed, gap = PipeGap, pipes = <<>>,
         order = <<>>, birds = [id \in {} |-> 0], nextPipeID = 0, lastGapY = SpawnY
  PROVE  WorldInv
<1>1. /\ 0 \in 0..MaxRaceTicks /\ ScrollSpeed \in ScrollSpeed..RampSpeedCap
      /\ PipeGap \in RampGapFloor..PipeGap /\ SpawnY \in GapYMin..GapYMax
  BY WorldConstants
<1>2. pipes \in Seq(PipeRec) /\ Len(pipes) = 0
  OBVIOUS
<1>3. CourseInv
  <2>1. Spaced(pipes)
    BY <1>2 DEF Spaced
  <2> QED BY <1>1, <1>2, <2>1 DEF CourseInv
<1>4. Race!Racers = {} /\ Race!Living = {}
  BY DEF Race!Living, Race!Racers, Race!ToSet
<1>5. order \in Seq(Ids) /\ Race!IsInjective(order) /\ birds \in [Race!Racers -> BirdRec]
  <2>1. order \in Seq(Ids) /\ birds \in [Race!Racers -> BirdRec]
    BY <1>4
  <2>2. DOMAIN order = {}
    OBVIOUS
  <2> QED BY <2>1, <2>2 DEF Race!IsInjective
<1>6. Tallied
  <2>1. Counted(1)
    BY <1>2 DEF Counted
  <2>2. Level(1)
    BY <1>4 DEF Level
  <2> QED BY <2>1, <2>2 DEF Tallied
<1>7. Dated /\ Aloft /\ Survivors
  BY <1>4 DEF Dated, Aloft, Survivors
<1> QED BY <1>3, <1>5, <1>6, <1>7 DEF WorldInv, BirdInv, Flock

\* The first world is a new one.
LEMMA WorldBegins == Race!Init => WorldInv
<1> SUFFICES ASSUME Race!Init PROVE WorldInv
  OBVIOUS
<1>1. /\ phase = "countdown" /\ tick = 0 /\ scroll = ScrollSpeed /\ gap = PipeGap /\ pipes = <<>>
      /\ order = <<>> /\ birds = [id \in {} |-> 0] /\ nextPipeID = 0 /\ lastGapY = SpawnY
  BY DEF Race!Init
<1> QED BY <1>1, NewWorldInv

\* After a race everything begins anew.
LEMMA WorldRenewed == ASSUME Race!NewWorld PROVE WorldInv'
<1>1. /\ phase' = "countdown" /\ tick' = 0 /\ scroll' = ScrollSpeed /\ gap' = PipeGap /\ pipes' = <<>>
      /\ order' = <<>> /\ birds' = [id \in {} |-> 0] /\ nextPipeID' = 0 /\ lastGapY' = SpawnY
  BY DEF Race!NewWorld
<1>2. (phase = "countdown" /\ tick = 0 /\ scroll = ScrollSpeed /\ gap = PipeGap /\ pipes = <<>>
       /\ order = <<>> /\ birds = [id \in {} |-> 0] /\ nextPipeID = 0 /\ lastGapY = SpawnY
       => WorldInv)'
  BY NewWorldInv, PTL
<1> QED BY <1>1, <1>2

\* The course stands while the birds gather, and when one leaves.
LEMMA CourseStands ==
  ASSUME CourseInv, UNCHANGED <<phase, tick, scroll, gap, pipes, nextPipeID, lastGapY>>
  PROVE  CourseInv'
  BY DEF CourseInv, Spaced

\* The birds stand while nothing happens to them.
LEMMA BirdsStand ==
  ASSUME BirdInv, phase' \in {phase, "racing"},
         UNCHANGED <<tick, order, birds, scroll, gap, pipes, nextPipeID, lastGapY>>
  PROVE  BirdInv'
<1>1. Race!Racers' = Race!Racers /\ Race!Living' = Race!Living
  BY DEF Race!Racers, Race!Living
<1>2. Flock' /\ Dated' /\ Aloft' /\ Survivors'
  BY <1>1 DEF BirdInv, Flock, Dated, Aloft, Survivors, InGaps
<1>3. Tallied'
  <2>1. PICK N \in Nat \ {0} : Counted(N) /\ Level(N)
    BY DEF BirdInv, Tallied
  <2>2. Counted(N)' /\ Level(N)'
    BY <1>1, <2>1 DEF Counted, Level, Race!Passed
  <2> QED BY <2>2 DEF Tallied
<1> QED BY <1>2, <1>3 DEF BirdInv

\* Every step of the world keeps the invariant.
LEMMA WorldNext == WorldInv /\ [Race!Next]_(Race!vars) => WorldInv'
<1> SUFFICES ASSUME WorldInv, [Race!Next]_(Race!vars) PROVE WorldInv'
  OBVIOUS
<1>0. CourseInv /\ BirdInv
  BY DEF WorldInv
<1>1. ASSUME NEW id \in Ids, Race!AddBird(id) PROVE WorldInv'
  <2>1. UNCHANGED <<phase, tick, scroll, gap, pipes, nextPipeID, lastGapY>>
    BY <1>1 DEF Race!AddBird, Race!course
  <2> QED BY <1>0, <1>1, <2>1, CourseStands, BirdsAdded DEF WorldInv
<1>2. ASSUME NEW id \in Ids, Race!RemoveBird(id) PROVE WorldInv'
  <2>1. UNCHANGED <<phase, tick, scroll, gap, pipes, nextPipeID, lastGapY>>
    BY <1>2 DEF Race!RemoveBird, Race!course
  <2> QED BY <1>0, <1>2, <2>1, CourseStands, BirdsRemoved DEF WorldInv
<1>3. CASE Race!Go
  <2>1. /\ phase' = "racing" /\ UNCHANGED <<tick, order, birds, scroll, gap, pipes, nextPipeID, lastGapY>>
    BY <1>3 DEF Race!Go, Race!course
  <2>2. CourseInv'
    BY <1>0, <2>1 DEF CourseInv, Spaced
  <2> QED BY <1>0, <2>1, <2>2, BirdsStand DEF WorldInv
<1>4. ASSUME NEW id \in Race!Living, Race!KillLeft(id) PROVE WorldInv'
  <2>1. UNCHANGED <<phase, tick, scroll, gap, pipes, nextPipeID, lastGapY>>
    BY <1>4 DEF Race!KillLeft, Race!course
  <2> QED BY <1>0, <1>4, <2>1, CourseStands, BirdKilled DEF WorldInv
<1>5. ASSUME NEW flaps \in SUBSET Race!Living, Race!Step(flaps) PROVE WorldInv'
  BY <1>0, <1>5, CourseMoves, BirdsStep DEF WorldInv
<1>6. CASE Race!NewWorld
  BY <1>6, WorldRenewed
<1>7. CASE UNCHANGED Race!vars
  BY <1>0, <1>7, CourseStands, BirdsStand DEF WorldInv, Race!vars
<1> QED BY <1>1, <1>2, <1>3, <1>4, <1>5, <1>6, <1>7 DEF Race!Next

\* The invariant of the course and of the birds holds in every behaviour of the world.
LEMMA WorldInvariance == Race!Spec => []WorldInv
  BY WorldBegins, WorldNext, PTL DEF Race!Spec

-----------------------------------------------------------------------------
(* World: what the race promises *)

\* The invariant has the types of World's variables.
LEMMA RaceTyped == WorldInv => Race!TypeOK
<1> SUFFICES ASSUME WorldInv PROVE Race!TypeOK
  OBVIOUS
<1>1. /\ phase \in {"countdown", "racing"} /\ tick \in 0..MaxRaceTicks
      /\ scroll \in ScrollSpeed..RampSpeedCap /\ gap \in RampGapFloor..PipeGap
      /\ nextPipeID \in Nat /\ lastGapY \in GapYMin..GapYMax
      /\ pipes \in Seq(PipeRec)
      /\ \A i \in 1..Len(pipes) : pipes[i].x > 0 - PipeWidth /\ pipes[i].x < Far
  BY DEF WorldInv, CourseInv, Spaced
<1>2. \A i \in DOMAIN pipes : pipes[i].x > 0 - PipeWidth /\ pipes[i].x < ViewMaxW + PipeSpacing
  BY <1>1 DEF Far
<1>3. /\ Race!IsInjective(order) /\ Race!Racers \subseteq Ids /\ DOMAIN birds = Race!Racers
      /\ birds \in [Race!Racers -> BirdRec]
  BY DEF WorldInv, BirdInv, Flock, Race!Racers, Race!ToSet
<1>4. ASSUME NEW id \in Race!Racers
      PROVE  LET b == birds[id] IN
       /\ b.y \in CeilingY..GroundY + TerminalVel /\ b.vy \in FlapImpulse..TerminalVel
       /\ b.score \in Nat /\ b.next \in Nat \ {0} /\ b.death \in 0..tick
       /\ b.dead \in BOOLEAN /\ b.left \in BOOLEAN /\ (b.left => b.dead)
  <2>1. birds[id] \in BirdRec
    BY <1>3
  <2>2. birds[id].death <= tick /\ (birds[id].left => birds[id].dead)
    BY DEF WorldInv, BirdInv, Dated
  <2>3. birds[id].death \in Nat /\ tick \in Nat
    BY <1>1, <2>1, WorldConstants DEF BirdRec
  <2>4. birds[id].death \in 0..tick
    BY <2>2, <2>3
  <2> QED BY <2>1, <2>2, <2>4, Zenon DEF BirdRec
<1> QED BY <1>1, <1>2, <1>3, <1>4 DEF Race!TypeOK

\* The score of who lives is the number of pipes behind it.
LEMMA ScoresAreRight == WorldInv => Race!ScoreIsPassed
<1> SUFFICES ASSUME WorldInv, tick > 0, NEW id \in Race!Living
             PROVE  LET b == birds[id] IN
                      /\ b.next = b.score + 1
                      /\ \A p \in Race!ToSet(pipes) : Race!Passed(p) <=> p.id < b.next
                      /\ Head(pipes).id <= b.next
  BY DEF Race!ScoreIsPassed
<1>1. PICK N \in Nat \ {0} : Counted(N) /\ Level(N)
  BY DEF WorldInv, BirdInv, Tallied
<1>2. birds[id].next = N /\ birds[id].score = N - 1
  BY <1>1 DEF Level
<1>3. pipes \in Seq(PipeRec) /\ pipes # <<>>
  BY DEF WorldInv, CourseInv, Spaced
<1>4. DOMAIN pipes = 1..Len(pipes) /\ Head(pipes) = pipes[1]
  BY <1>3
<1>5. \A p \in Race!ToSet(pipes) : Race!Passed(p) <=> p.id < N
  BY <1>1, <1>4 DEF Counted, Race!ToSet
<1>6. Head(pipes).id <= N
  BY <1>1, <1>4 DEF Counted
<1>7. N = (N - 1) + 1
  OBVIOUS
<1> QED BY <1>2, <1>5, <1>6, <1>7

\* The course is regular and long enough.
LEMMA CourseIsRegular == WorldInv => Race!CourseRegular
<1> SUFFICES ASSUME WorldInv PROVE Race!CourseRegular
  OBVIOUS
<1>1. CourseInv /\ Spaced(pipes) /\ pipes \in Seq(PipeRec) /\ nextPipeID \in Nat
  BY DEF WorldInv, CourseInv, Spaced
<1>2. pipes # <<>> => /\ Race!Last(pipes) = pipes[Len(pipes)] /\ Len(pipes) \in 1..Len(pipes)
                      /\ Len(pipes) \in Nat
  BY <1>1 DEF Race!Last
<1>3. tick > 0 => Race!NextX(pipes) >= ViewMaxW + PipeSpacing
  BY <1>1, <1>2 DEF CourseInv, Race!NextX, Far
<1>4. pipes # <<>> => Race!Last(pipes).id = nextPipeID /\ Race!Last(pipes).gapY = lastGapY
  <2> SUFFICES ASSUME pipes # <<>>
               PROVE  Race!Last(pipes).id = nextPipeID /\ Race!Last(pipes).gapY = lastGapY
    OBVIOUS
  <2>1. pipes[Len(pipes)].id = nextPipeID - Len(pipes) + Len(pipes)
        /\ pipes[Len(pipes)].gapY = lastGapY
    BY <1>1, <1>2 DEF CourseInv
  <2>2. nextPipeID - Len(pipes) + Len(pipes) = nextPipeID
    BY <1>1, <1>2
  <2> QED BY <1>2, <2>1, <2>2
<1>5. ASSUME NEW i \in 1..Len(pipes) - 1
      PROVE  /\ pipes[i + 1].id = pipes[i].id + 1 /\ pipes[i + 1].x = pipes[i].x + PipeSpacing
             /\ pipes[i + 1].gapY - pipes[i].gapY \in (0 - MaxGapDelta)..MaxGapDelta
             /\ pipes[i + 1].gapH <= pipes[i].gapH
  <2>1. Len(pipes) \in Nat
    BY <1>1
  <2>2. i \in 1..Len(pipes) /\ i + 1 \in 1..Len(pipes) /\ i \in Nat
    BY <2>1
  <2>3. pipes[i].id = nextPipeID - Len(pipes) + i /\ pipes[i + 1].id = nextPipeID - Len(pipes) + (i + 1)
    BY <1>1, <2>2 DEF CourseInv
  <2>4. nextPipeID - Len(pipes) + (i + 1) = (nextPipeID - Len(pipes) + i) + 1
    BY <1>1, <2>1, <2>2
  <2>5. pipes[i + 1].id = pipes[i].id + 1
    BY <2>3, <2>4
  <2> QED BY <1>1, <2>5 DEF Spaced
<1> QED BY <1>3, <1>4, <1>5 DEF Race!CourseRegular

\* A pipe that has just got past the birds' column was not past it before.
LEMMA ColumnIsMet ==
  WorldInv /\ WorldInv' /\ [Race!Next]_(Race!vars) =>
    [\A q \in Race!ToSet(pipes)' :
       q.x <= BirdX =>
         IF q.x + PipeWidth >= BirdX
           THEN \A id \in Race!Living' : birds'[id].y > Race!Top(q) /\ birds'[id].y < Race!Bot(q)
           ELSE \E p \in Race!ToSet(pipes) : p.id = q.id /\ p.x <= BirdX]_(Race!vars)
<1> SUFFICES ASSUME WorldInv, WorldInv', Race!Next, NEW q \in Race!ToSet(pipes'), q.x <= BirdX
             PROVE  IF q.x + PipeWidth >= BirdX
                      THEN \A id \in Race!Living' : /\ birds'[id].y > Race!Top(q)
                                                    /\ birds'[id].y < Race!Bot(q)
                      ELSE \E p \in Race!ToSet(pipes) : p.id = q.id /\ p.x <= BirdX
  BY DEF Race!ToSet
<1>1. pipes' \in Seq(PipeRec) /\ pipes \in Seq(PipeRec)
  BY DEF WorldInv, CourseInv, Spaced
<1>2. PICK i \in 1..Len(pipes') : q = pipes'[i]
  BY <1>1 DEF Race!ToSet
<1>3. q.x \in Int /\ q \in PipeRec
  BY <1>1, <1>2, PipeFields
<1>4. CASE q.x + PipeWidth >= BirdX
  <2>1. ASSUME NEW id \in Race!Living'
        PROVE  birds'[id].y > Race!Top(q) /\ birds'[id].y < Race!Bot(q)
    <3>1. InGaps(birds'[id].y, pipes')
      BY DEF WorldInv, BirdInv, Aloft
    <3>2. Race!Top(q) < birds'[id].y /\ birds'[id].y < Race!Bot(q)
      BY <1>2, <1>4, <3>1 DEF InGaps
    <3>3. birds'[id].y \in Int /\ Race!Top(q) \in Int
      <4>1. birds' \in [Race!Racers' -> BirdRec] /\ id \in Race!Racers'
        BY DEF WorldInv, BirdInv, Flock, Race!Living
      <4>2. q.gapY \in Int /\ q.gapH \in Int
        BY <1>1, <1>2, PipeFields
      <4>3. birds'[id] \in BirdRec
        BY <4>1
      <4>4. birds'[id].y \in Int
        BY <4>3, BirdFields
      <4> QED BY <4>2, <4>4 DEF Race!Top
    <3> QED BY <3>2, <3>3
  <2> QED BY <1>4, <2>1
<1>5. CASE ~(q.x + PipeWidth >= BirdX)
  <2>1. ASSUME NEW flaps \in SUBSET Race!Living, Race!Step(flaps)
        PROVE  \E p \in Race!ToSet(pipes) : p.id = q.id /\ p.x <= BirdX
    <3>1. PICK g \in 0..Len(pipes) : Sliding(g)
      BY <2>1, CourseMoves DEF WorldInv
    <3>2. scroll' \in Nat /\ scroll' <= RampSpeedCap
      <4>1. scroll' \in ScrollSpeed..RampSpeedCap
        BY DEF WorldInv, CourseInv
      <4> QED BY <4>1, WorldConstants
    <3>3. i <= Len(pipes) - g
      <4>1. ~(q.x > BirdX + BirdRadius - RampSpeedCap)
        BY <1>3, <1>5, WorldConstants
      <4> QED BY <1>2, <3>1, <4>1 DEF Sliding
    <3>4. i + g \in 1..Len(pipes) /\ q.id = pipes[i + g].id /\ q.x = pipes[i + g].x - scroll'
      BY <1>2, <3>1, <3>3 DEF Sliding
    <3>5. pipes[i + g].x \in Int /\ pipes[i + g] \in Race!ToSet(pipes)
      BY <1>1, <3>4, PipeFields DEF Race!ToSet
    <3>6. pipes[i + g].x <= BirdX
      BY <1>3, <1>5, <3>2, <3>4, <3>5, WorldConstants
    <3> QED BY <3>4, <3>5, <3>6
  <2>2. CASE pipes' = pipes
    <3>1. q \in Race!ToSet(pipes)
      BY <2>2 DEF Race!ToSet
    <3> QED BY <1>5, <3>1
  <2>3. CASE Race!NewWorld
    <3>1. pipes' = <<>>
      BY <2>3 DEF Race!NewWorld
    <3> QED BY <1>2, <3>1
  <2> QED BY <1>5, <2>1, <2>2, <2>3
          DEF Race!Next, Race!AddBird, Race!RemoveBird, Race!Go, Race!KillLeft, Race!course
<1> QED BY <1>4, <1>5

\* No pipe is counted twice, missed or flown through, and every gap can be reached, for
\* every size of the screen and every ramp slower than a pipe is wide (World.Step).
THEOREM CourseIsFair == Race!Spec => Race!FairCourse
<1>1. WorldInv => Race!ScoreIsPassed /\ Race!CourseRegular
  BY ScoresAreRight, CourseIsRegular
<1> QED BY <1>1, WorldInvariance, ColumnIsMet, PTL DEF Race!Spec, Race!FairCourse, Race!ThroughEveryGap

\* Of two that are ordered, the first comes first once they are sorted.
LEMMA SortedBefore ==
  ASSUME NEW S, IsFiniteSet(S), NEW R, IsOrder(S, R), NEW a \in S, NEW b \in S, <<a, b>> \in R
  PROVE  Race!Before(a, b, Sorted(S, R))
<1> DEFINE s == Sorted(S, R)
           n == Cardinality(S)
<1>1. /\ n \in Nat /\ s \in [1..n -> S]
      /\ \A i, j \in 1..n : i < j => <<s[i], s[j]>> \in R
      /\ \A x \in S : \E i \in 1..n : s[i] = x
  <2>1. s = Sorted(S, R) /\ n = Cardinality(S)
    OBVIOUS
  <2>2. /\ Cardinality(S) \in Nat /\ Sorted(S, R) \in [1..Cardinality(S) -> S]
        /\ \A i, j \in 1..Cardinality(S) : i < j => <<Sorted(S, R)[i], Sorted(S, R)[j]>> \in R
        /\ \A x \in S : \E i \in 1..Cardinality(S) : Sorted(S, R)[i] = x
    BY SortedSorts
  <2> HIDE DEF s, n
  <2> QED BY <2>1, <2>2
<1> HIDE DEF s, n
<1>2. PICK i \in 1..n : s[i] = a
  BY <1>1
<1>3. PICK j \in 1..n : s[j] = b
  BY <1>1
<1>4. a # b /\ <<b, a>> \notin R
  BY DEF IsOrder
<1>5. i # j
  BY <1>2, <1>3, <1>4
<1>6. ~(j < i)
  BY <1>1, <1>2, <1>3, <1>4
<1>7. i < j
  <2>1. i \in Nat /\ j \in Nat
    BY <1>1
  <2> QED BY <1>5, <1>6, <2>1
<1>8. DOMAIN s = 1..n
  BY <1>1
<1> QED BY <1>2, <1>3, <1>7, <1>8 DEF Race!Before, s

\* There are as many racers as the order lists.
LEMMA RacersFinite == WorldInv => IsFiniteSet(Race!Racers)
<1> SUFFICES ASSUME WorldInv PROVE IsFiniteSet(Race!Racers)
  OBVIOUS
<1>1. order \in Seq(Ids) /\ Len(order) \in Nat /\ \A i, j \in 1..Len(order) : order[i] = order[j] => i = j
  BY DEF WorldInv, BirdInv, Flock, Race!IsInjective
<1>2. order \in Bijection(1..Len(order), Race!Racers)
  BY <1>1 DEF Bijection, Injection, Surjection, IsInjective, Race!Racers, Race!ToSet
<1>3. ExistsBijection(1..Len(order), Race!Racers)
  BY <1>2 DEF ExistsBijection
<1> QED BY <1>1, <1>3, FS_Bijection, FS_Interval

\* What the two orders compare.
LEMMA Compared ==
  ASSUME WorldInv, NEW id \in Race!Racers
  PROVE  /\ id \in Nat /\ birds[id].score \in Nat /\ Race!Death(id) \in Nat
         /\ birds[id].dead => Race!Death(id) = birds[id].death /\ Race!Death(id) <= tick
         /\ ~birds[id].dead => Race!Death(id) = MaxRaceTicks
         /\ tick \in Nat /\ tick <= MaxRaceTicks /\ MaxRaceTicks \in Nat
<1>1. id \in Ids /\ birds[id] \in BirdRec
  BY DEF WorldInv, BirdInv, Flock, Race!Racers, Race!ToSet
<1>2. birds[id].score \in Nat /\ birds[id].death \in Nat
  BY <1>1, BirdFields
<1>3. birds[id].death <= tick /\ tick \in 0..MaxRaceTicks
  BY DEF WorldInv, BirdInv, Dated, CourseInv
<1> QED BY <1>1, <1>2, <1>3, WorldConstants DEF Race!Death

\* Score, then death, then id is an order (Results' comparison).
LEMMA AboveOrders ==
  WorldInv => IsOrder(Race!Racers, {ab \in Race!Racers \X Race!Racers : Race!Above(ab[1], ab[2])})
<1> SUFFICES ASSUME WorldInv
             PROVE  IsOrder(Race!Racers, {ab \in Race!Racers \X Race!Racers : Race!Above(ab[1], ab[2])})
  OBVIOUS
<1> DEFINE S == Race!Racers
           R == {ab \in S \X S : Race!Above(ab[1], ab[2])}
<1>1. \A a \in S : a \in Nat /\ birds[a].score \in Nat /\ Race!Death(a) \in Nat
  BY Compared
<1>2. \A a, b \in S : <<a, b>> \in R <=> Race!Above(a, b)
  OBVIOUS
<1>3. \A a \in S : ~Race!Above(a, a)
  BY <1>1 DEF Race!Above
<1>4. \A a, b, c \in S : Race!Above(a, b) /\ Race!Above(b, c) => Race!Above(a, c)
  BY <1>1 DEF Race!Above
<1>5. \A a, b \in S : a = b \/ Race!Above(a, b) \/ Race!Above(b, a)
  BY <1>1 DEF Race!Above
<1> HIDE DEF R
<1>6. IsOrder(S, R)
  BY <1>2, <1>3, <1>4, <1>5 DEF IsOrder
<1> QED BY <1>6 DEF R

\* Living, then score, then id is an order (DeriveHUD's comparison).
LEMMA HudOrders ==
  WorldInv => IsOrder(Race!Racers, {ab \in Race!Racers \X Race!Racers : Race!HudAbove(ab[1], ab[2])})
<1> SUFFICES ASSUME WorldInv
             PROVE  IsOrder(Race!Racers, {ab \in Race!Racers \X Race!Racers : Race!HudAbove(ab[1], ab[2])})
  OBVIOUS
<1> DEFINE S == Race!Racers
           R == {ab \in S \X S : Race!HudAbove(ab[1], ab[2])}
           More(a, b) == \/ birds[a].score > birds[b].score
                         \/ birds[a].score = birds[b].score /\ a < b
<1>1. \A a \in S : a \in Nat /\ birds[a].score \in Nat
  BY Compared
<1>2. \A a, b \in S : <<a, b>> \in R <=> Race!HudAbove(a, b)
  OBVIOUS
<1>3. \A a, b, c \in S : ~More(a, a) /\ (More(a, b) /\ More(b, c) => More(a, c))
                         /\ (a = b \/ More(a, b) \/ More(b, a))
  BY <1>1
<1>4. \A a, b \in S : Race!HudAbove(a, b) <=>
        \/ a \in Race!Living /\ b \notin Race!Living
        \/ (a \in Race!Living <=> b \in Race!Living) /\ More(a, b)
  BY DEF Race!HudAbove
<1> HIDE DEF R, More
<1>5. \A a \in S : ~Race!HudAbove(a, a)
  BY <1>3, <1>4, Zenon
<1>6. \A a, b, c \in S : Race!HudAbove(a, b) /\ Race!HudAbove(b, c) => Race!HudAbove(a, c)
  BY <1>3, <1>4
<1>7. \A a, b \in S : a = b \/ Race!HudAbove(a, b) \/ Race!HudAbove(b, a)
  BY <1>3, <1>4
<1>8. IsOrder(S, R)
  BY <1>2, <1>5, <1>6, <1>7 DEF IsOrder
<1> QED BY <1>8 DEF R

\* The world's Sorted is that of Sorting.
LEMMA SameRaceSorted == \A S, R : Race!Sorted(S, R) = Sorted(S, R)
  BY DEF Race!Sorted, Sorted, Race!Cardinality, Cardinality

\* Who is above another comes before it in the results.
LEMMA InResults ==
  ASSUME WorldInv, NEW a \in Race!Racers, NEW b \in Race!Racers, Race!Above(a, b)
  PROVE  Race!Before(a, b, Race!Results)
<1> DEFINE R == {ab \in Race!Racers \X Race!Racers : Race!Above(ab[1], ab[2])}
<1>1. <<a, b>> \in R /\ IsOrder(Race!Racers, R) /\ IsFiniteSet(Race!Racers)
  BY AboveOrders, RacersFinite
<1>2. Race!Results = Sorted(Race!Racers, R)
  BY SameRaceSorted DEF Race!Results
<1> HIDE DEF R
<1> QED BY <1>1, <1>2, SortedBefore

\* Who is above another comes before it in the overlay.
LEMMA InHudRows ==
  ASSUME WorldInv, NEW a \in Race!Racers, NEW b \in Race!Racers, Race!HudAbove(a, b)
  PROVE  Race!Before(a, b, Race!HudRows)
<1> DEFINE R == {ab \in Race!Racers \X Race!Racers : Race!HudAbove(ab[1], ab[2])}
<1>1. <<a, b>> \in R /\ IsOrder(Race!Racers, R) /\ IsFiniteSet(Race!Racers)
  BY HudOrders, RacersFinite
<1>2. Race!HudRows = Sorted(Race!Racers, R)
  BY SameRaceSorted DEF Race!HudRows
<1> HIDE DEF R
<1> QED BY <1>1, <1>2, SortedBefore

\* Whoever died later scored as much, so that the score never contradicts the deaths.
LEMMA RankingIsFair == WorldInv => Race!FairRanking
<1> SUFFICES ASSUME WorldInv PROVE Race!FairRanking
  OBVIOUS
<1>1. PICK N \in Nat \ {0} : Level(N)
  BY DEF WorldInv, BirdInv, Tallied
<1>2. ASSUME NEW id \in Race!Racers
      PROVE  /\ birds[id].score \in Nat /\ birds[id].score <= N - 1 /\ Race!Death(id) \in Nat
             /\ ~birds[id].dead => birds[id].score = N - 1 /\ Race!Death(id) = MaxRaceTicks
             /\ birds[id].dead => Race!Death(id) = birds[id].death /\ Race!Death(id) <= tick
             /\ tick \in Nat /\ tick <= MaxRaceTicks /\ MaxRaceTicks \in Nat
             /\ id \in Race!Living <=> ~birds[id].dead
  BY <1>1, Compared DEF Level, Race!Living
<1>3. ASSUME NEW a \in Race!Racers, NEW b \in Race!Racers, Race!Death(a) > Race!Death(b)
      PROVE  Race!Above(a, b)
  <2>1. birds[a].score >= birds[b].score
    <3>1. CASE ~birds[a].dead
      BY <1>2, <3>1
    <3>2. CASE birds[a].dead /\ ~birds[b].dead
      BY <1>2, <1>3, <3>2
    <3>3. CASE birds[a].dead /\ birds[b].dead
      BY <1>2, <1>3, <3>3 DEF WorldInv, BirdInv, Survivors
    <3> QED BY <3>1, <3>2, <3>3
  <2> QED BY <1>2, <1>3, <2>1 DEF Race!Above
<1>4. ASSUME NEW a \in Race!Racers, NEW b \in Race!Racers, tick < MaxRaceTicks,
             (a \in Race!Living /\ b \notin Race!Living) \/ birds[a].score > birds[b].score
      PROVE  Race!HudAbove(a, b) /\ Race!Above(a, b)
  <2>1. CASE a \in Race!Living /\ b \notin Race!Living
    <3>1. Race!Death(a) > Race!Death(b)
      BY <1>2, <1>4, <2>1
    <3> QED BY <1>3, <2>1, <3>1 DEF Race!HudAbove
  <2>2. CASE birds[a].score > birds[b].score
    <3>1. a \in Race!Living \/ b \notin Race!Living
      BY <1>2, <2>2
    <3> QED BY <2>2, <3>1 DEF Race!HudAbove, Race!Above
  <2> QED BY <1>4, <2>1, <2>2
<1>5. Race!RankedBySurvival
  BY <1>3, InResults DEF Race!RankedBySurvival
<1>6. Race!HudComesTrue
  BY <1>4, InResults, InHudRows DEF Race!HudComesTrue
<1> QED BY <1>5, <1>6 DEF Race!FairRanking

\* Whoever dies later ranks higher, and what the overlay shows of a race under way is what
\* the results say in the end (Results, DeriveHUD).
THEOREM BirdsAreRankedFairly == Race!Spec => []Race!FairRanking
  BY RankingIsFair, WorldInvariance, PTL

=============================================================================
