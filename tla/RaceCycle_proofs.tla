-------------------------- MODULE RaceCycle_proofs --------------------------
(* The race cycle's invariants, for any set of players. *)
EXTENDS RaceCycle, TLAPS

\* The inductive invariant: Coherent needs the types only to know that the
\* fliers are racers.
IInv == TypeOK /\ Coherent

LEMMA InitIInv == Init => IInv
BY DEF Init, IInv, TypeOK, Coherent, Phases

LEMMA NextIInv == IInv /\ [Next]_vars => IInv'
<1> SUFFICES ASSUME IInv, [Next]_vars PROVE IInv'
  OBVIOUS
<1> USE DEF IInv, TypeOK, Coherent, Phases
<1>1. ASSUME NEW p \in Player, Arrive(p) PROVE IInv'
  BY <1>1 DEF Arrive, OpenLobby
<1>2. ASSUME NEW p \in Player, Depart(p) PROVE IInv'
  <2>1. CASE phase = "countdown"
    BY <1>2, <2>1 DEF Depart
  <2>2. CASE phase = "racing"
    BY <1>2, <2>2 DEF Depart, CloseRace
  <2>3. CASE phase = "finished"
    BY <1>2, <2>3 DEF Depart
  <2>. QED BY <1>2, <2>1, <2>2, <2>3 DEF Depart
<1>3. CASE Go
  BY <1>3 DEF Go
<1>4. CASE Beat
  BY <1>4 DEF Beat, CloseRace
<1>5. CASE NextRace
  BY <1>5 DEF NextRace, OpenLobby
<1>6. CASE UNCHANGED vars
  BY <1>6 DEF vars
<1>. QED BY <1>1, <1>2, <1>3, <1>4, <1>5, <1>6 DEF Next

\* There are no phantom races: a race exists exactly while someone is connected,
\* a countdown's racers are its players, and whoever flies is connected.
THEOREM Coherence == Spec => [](TypeOK /\ Coherent)
<1>1. IInv => TypeOK /\ Coherent
  BY DEF IInv
<1>. QED BY <1>1, InitIInv, NextIInv, PTL DEF Spec

\* A race under way admits nobody and revives nobody.
THEOREM FieldStaysFixed == Spec => FieldFixed
<1>1. IInv /\ [Next]_vars
        => [phase = "racing" /\ phase' = "racing"
              => field' = field /\ flying' \subseteq flying]_vars
  BY DEF IInv, TypeOK, Next, vars, Arrive, Depart, Go, Beat, NextRace, OpenLobby, CloseRace
<1>. QED BY <1>1, InitIInv, NextIInv, PTL DEF Spec, FieldFixed
=============================================================================
