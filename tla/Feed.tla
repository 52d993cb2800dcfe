-------------------------------- MODULE Feed --------------------------------
(***************************************************************************)
(* The way of a snapshot through a flappy-race client (internal/client:    *)
(* net.go, interp.go): the reader of the connection pushes it into a       *)
(* bounded channel that the render loop drains at the same time, the loop  *)
(* puts it into the ring, and each frame is drawn between two snapshots of *)
(* the ring. The server's clock may stand still between two snapshots, and *)
(* be set back.                                                            *)
(*                                                                         *)
(* A snapshot is its number and its time; what it shows is left out.       *)
(***************************************************************************)
EXTENDS Integers, SequencesExt

CONSTANTS
  ChanCap,       \* capacity of Net.snapCh (protocol.RingLen)
  RingLen,       \* protocol.RingLen
  SnapGap,       \* protocol.SnapGapMs
  MaxSnaps,      \* bound: snapshots
  MaxNow,        \* bound: the server's time
  MaxBack,       \* bound: how often the server's clock is set back
  None

Snap == [n: 1..MaxSnaps, now: 1..MaxNow]

FeedAssumption ==
  /\ {ChanCap, RingLen} \subseteq Nat \ {0}
  /\ {SnapGap, MaxSnaps, MaxNow, MaxBack} \subseteq Nat
  /\ None \notin Snap

VARIABLES
  pc,            \* the reader: "read" | the select of pushSnap it is at
  hand,          \* the snapshot pushSnap has
  chan,          \* Net.snapCh
  ring,          \* Ring.snaps
  nows,          \* history: the times of all snapshots read so far
  taken,         \* history: the number of the last one the loop received
  back           \* how often the clock was set back

vars == <<pc, hand, chan, ring, nows, taken, back>>

TypeOK ==
  /\ pc \in {"read", "send", "drop", "retry"}
  /\ hand \in Snap \cup {None} /\ (hand = None <=> pc = "read")
  /\ chan \in Seq(Snap) /\ Len(chan) <= ChanCap
  /\ ring \in Seq(Snap) /\ Len(ring) <= RingLen
  /\ nows \in Seq(1..MaxNow) /\ Len(nows) <= MaxSnaps
  /\ taken \in 0..Len(nows) /\ back \in 0..MaxBack

-----------------------------------------------------------------------------
(* The reader: pushSnap, one select per step *)

Read(now) ==
  /\ pc = "read" /\ Len(nows) < MaxSnaps
  /\ nows' = Append(nows, now)
  /\ \/ nows = <<>> /\ UNCHANGED back
     \/ nows # <<>> /\ now >= Last(nows) /\ UNCHANGED back
     \/ nows # <<>> /\ now < Last(nows) /\ back < MaxBack /\ back' = back + 1
  /\ hand' = [n |-> Len(nows'), now |-> now] /\ pc' = "send"
  /\ UNCHANGED <<chan, ring, taken>>

Sent == chan' = Append(chan, hand) /\ pc' = "read" /\ hand' = None

Send ==
  /\ pc = "send"
  /\ IF Len(chan) < ChanCap THEN Sent ELSE pc' = "drop" /\ UNCHANGED <<chan, hand>>
  /\ UNCHANGED <<ring, nows, taken, back>>

\* Mutant of Drop: a full channel keeps what it has.
DropNone ==
  /\ pc = "drop" /\ pc' = "retry"
  /\ UNCHANGED <<hand, chan, ring, nows, taken, back>>

\* The loop may have emptied the channel meanwhile.
Drop ==
  /\ pc = "drop" /\ pc' = "retry"
  /\ chan' = IF chan = <<>> THEN chan ELSE Tail(chan)
  /\ UNCHANGED <<hand, ring, nows, taken, back>>

Retry ==
  /\ pc = "retry"
  /\ IF Len(chan) < ChanCap THEN Sent ELSE pc' = "read" /\ hand' = None /\ UNCHANGED chan
  /\ UNCHANGED <<ring, nows, taken, back>>

-----------------------------------------------------------------------------
(* The render loop *)

Pushed(s) ==
  IF ring # <<>> /\ s.now <= Last(ring).now THEN ring
  ELSE LET all == Append(ring, s) IN SubSeq(all, IF Len(all) > RingLen THEN 2 ELSE 1, Len(all))

\* One round of pumpNet's loop.
Receive ==
  /\ chan # <<>>
  /\ ring' = Pushed(Head(chan)) /\ taken' = Head(chan).n /\ chan' = Tail(chan)
  /\ UNCHANGED <<pc, hand, nows, back>>

\* What Interp draws at a time: between the snapshots at two places of the ring,
\* the share of the second being num/span.
Interp(t) ==
  LET i == SelectLastInSeq(ring, LAMBDA s : s.now <= t)
      s0 == IF i = 0 THEN 1 ELSE i
      next == IF i = 0 THEN 1 ELSE IF i < Len(ring) THEN i + 1 ELSE i
      span == ring[next].now - ring[s0].now
  IN  IF s0 = next \/ span > SnapGap
        THEN [s0 |-> s0, s1 |-> s0, num |-> 0, span |-> 0]
        ELSE [s0 |-> s0, s1 |-> next, num |-> t - ring[s0].now, span |-> span]

-----------------------------------------------------------------------------

Init ==
  /\ pc = "read" /\ hand = None /\ chan = <<>> /\ ring = <<>>
  /\ nows = <<>> /\ taken = 0 /\ back = 0

Next ==
  \/ \E now \in 1..MaxNow : Read(now)
  \/ Send \/ Drop \/ Retry \/ Receive

Spec == Init /\ [][Next]_vars

-----------------------------------------------------------------------------
(* Properties *)

\* Whatever the render loop takes out between the three selects of pushSnap,
\* the newest snapshot gets into the channel: it is the last one there, or the
\* last one received ("pushSnap delivers the newest snapshot", net.go:132).
NewestDelivered ==
  pc = "read" =>
    IF chan = <<>> THEN taken = Len(nows) ELSE Last(chan).n = Len(nows)

\* The snapshots of the ring are in order, by number and strictly by time.
RingOrdered ==
  \A i \in 1..Len(ring) - 1 : ring[i].n < ring[i + 1].n /\ ring[i].now < ring[i + 1].now

\* A frame is drawn within its two snapshots, never beyond them, and a later
\* frame never from earlier ones, gaps and all (Ring.Interp).
Between(t) ==
  LET v == Interp(t) IN
    /\ 0 <= v.num /\ v.num <= v.span
    /\ ring[v.s0].now <= t \/ v.s0 = 1
    /\ t < ring[v.s1].now \/ v.s1 = v.s0
    /\ Interp(t + 1).s0 >= v.s0 /\ Interp(t + 1).s1 >= v.s1

FramesBetween == ring # <<>> => \A t \in 0..MaxNow : Between(t)

\* A snapshot with a later time than any before it, once received, is the
\* newest of the ring: a clock set back stops the view only until it has
\* caught up (Ring.Push).
RingCurrent ==
  (taken > 0 /\ \A i \in 1..taken - 1 : nows[i] < nows[taken]) => Last(ring).n = taken

\* The view shows the newest snapshots in their order, and nothing that was not between
\* two of them.
FramesFaithful == NewestDelivered /\ RingOrdered /\ FramesBetween /\ RingCurrent

=============================================================================
