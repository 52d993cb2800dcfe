-------------------------------- MODULE Local --------------------------------
(***************************************************************************)
(* The parts that wait for nobody, so that only safety is asked of them:   *)
(* the race server's state file, its world, the client's snapshot feed,    *)
(* the text of a toot, and skel-link. They share no state, so an           *)
(* interleaving of them says no more than each one by itself: a behaviour  *)
(* is about the part chosen at the start, and the others stay as they      *)
(* began.                                                                  *)
(***************************************************************************)
EXTENDS Integers, Sequences

CONSTANTS
  Names, Birds, MaxTop, MaxScore, MaxRaces, None, Torn,              \* of Store
  Ids, Gravity, FlapImpulse, TerminalVel, BirdX, BirdRadius, PipeWidth, PipeGap, PipeSpacing,
  ScrollSpeed, FirstPipeX, GapYMin, GapYMax, MaxGapDelta, GroundY, CeilingY, SpawnY,
  ViewMaxW, RampEveryTicks, RampNum, RampDen, RampSpeedCap, RampGapShrink, RampGapFloor,
  MaxRaceTicks, Draws,                                               \* of World
  ChanCap, RingLen, SnapGap, MaxSnaps, MaxNow, MaxBack,              \* of Feed
  Limit, MaxTitle, MaxURL, MaxSummary, NotYet,                       \* of TootText
  SkelDirs, SkelFiles, Own, CopyPaths, MaxImage, MaxEdits,
  Missing, Dir, Ours, Theirs, Broken, Mine                           \* of SkelLink

VARIABLES
  part,                                                              \* the one that runs
  storePc, players, top, api, file, tmp, saved, blind,               \* of Store
  phase, tick, scroll, gap, pipes, order, birds, nextPipeID, lastGapY, \* of World
  feedPc, hand, chan, ring, nows, taken, back,                       \* of Feed
  title, url, summary, text,                                         \* of TootText
  linkPc, op, todo, dry, force, home, image, edits, clean            \* of SkelLink

Board == INSTANCE Store WITH pc <- storePc
Race  == INSTANCE World
View  == INSTANCE Feed WITH pc <- feedPc
Text  == INSTANCE TootText
Links == INSTANCE SkelLink WITH pc <- linkPc

ASSUME LocalAssumption ==
  Board!StoreAssumption /\ Race!WorldAssumption /\ View!FeedAssumption
    /\ Text!TootTextAssumption /\ Links!SkelLinkAssumption

-----------------------------------------------------------------------------
(* Side by side *)

storeVars == <<storePc, players, top, api, file, tmp, saved, blind>>
worldVars == <<phase, tick, scroll, gap, pipes, order, birds, nextPipeID, lastGapY>>
feedVars  == <<feedPc, hand, chan, ring, nows, taken, back>>
textVars  == <<title, url, summary, text>>
linkVars  == <<linkPc, op, todo, dry, force, home, image, edits, clean>>
vars == <<part, storeVars, worldVars, feedVars, textVars, linkVars>>

\* The parts that stand still begin in one of their initial states.
Init ==
  /\ part \in {"store", "world", "feed", "text", "links"}
  /\ Board!Init /\ Race!Init /\ View!Init /\ Text!Init /\ Links!Init
  /\ part # "text" => title = 1 /\ url = 1 /\ summary = 0
  /\ part # "links" => \A p \in Links!Paths : home[p] = Missing

Alone(mine, others) == part = mine /\ UNCHANGED <<part, others>>

Next ==
  \/ Alone("store", <<worldVars, feedVars, textVars, linkVars>>) /\ Board!Next
  \/ Alone("world", <<storeVars, feedVars, textVars, linkVars>>) /\ Race!Next
  \/ Alone("feed",  <<storeVars, worldVars, textVars, linkVars>>) /\ View!Next
  \/ Alone("text",  <<storeVars, worldVars, feedVars, linkVars>>) /\ Text!Next
  \/ Alone("links", <<storeVars, worldVars, feedVars, textVars>>) /\ Links!Next

Spec == Init /\ [][Next]_vars

-----------------------------------------------------------------------------
(* Properties *)

\* The type invariant of the part that runs.
TypeOK ==
  /\ part = "store" => Board!TypeOK
  /\ part = "world" => Race!TypeOK
  /\ part = "feed"  => View!TypeOK
  /\ part = "links" => Links!TypeOK

\* Between operations the list in memory, the page and the file agree, but for saves that
\* failed: the next one makes up for them ("A failed save is logged but never fatal",
\* Store.persist).
FileCurrent == part = "store" => Board!FileCurrent

\* Whoever dies later ranks higher, and what the overlay shows of a race under way is
\* what the results say in the end (Results, DeriveHUD).
FairRanking == part = "world" => Race!FairRanking

\* The newest snapshot gets through to the client's ring, however the render loop drains
\* the channel meanwhile, and no frame is drawn beyond what was received (pushSnap,
\* Ring.Push, Ring.Interp).
FramesFaithful == part = "feed" => View!FramesFaithful

\* The text of a toot is never cut beyond the summary's end (composeToot).
CutsInside == part = "text" => Text!CutsInside

\* The race server's file is replaced by whole states of its memory only, and what it
\* has recorded is never lost again ("a crash never corrupts", Store.save).
ImplementsAtomicStore == Board!FileNeverForgets /\ Board!ImplementsAtomicStore

\* No pipe is counted twice, missed or flown through, and every gap can be reached, at
\* every speed of the ramp (World.Step).
FairCourse == Race!FairCourse

\* skel-link takes nothing of the user's away, writes nothing in a dry run, and leaves
\* nothing behind the image that is not the user's ("modified locally -> kept untouched").
KeptOrFollowed == Links!KeptOrFollowed

=============================================================================
