-------------------------------- MODULE Store --------------------------------
(***************************************************************************)
(* The state file of flappy-race (internal/server/store.go): players and   *)
(* the all-time list in memory, saved through a temporary file and a       *)
(* rename after every change, with failures and crashes between any two    *)
(* steps of a save, and starts that cannot read the file.                  *)
(*                                                                         *)
(* The hub calls one operation at a time and waits for it. Themes and      *)
(* times of a best run are left out; a name is a number, in name order.    *)
(***************************************************************************)
EXTENDS Naturals, FiniteSets, SequencesExt, Sorting

CONSTANTS
  Names,         \* user names: numbers, ordered as the names are
  Birds,
  MaxTop,        \* protocol.MaxTopEntries
  MaxScore,      \* bound: the best run
  MaxRaces,      \* bound: the flights recorded, of all names together
  None,          \* the absence of a file
  Torn           \* a file written in part

\* What the file holds about the players there are.
Stat == [best: 0..MaxScore, races: Nat, wins: Nat, bird: Birds]
TopEntry == [name: Names, score: 1..MaxScore]
DB(known) == [players: [known -> Stat], top: Seq(TopEntry)]

IsDB(db) == \E known \in SUBSET Names : db \in DB(known)

StoreAssumption ==
  /\ Names \subseteq Nat /\ IsFiniteSet(Names)
  /\ MaxTop \in Nat /\ MaxScore \in Nat /\ MaxRaces \in Nat
  /\ ~IsDB(None)

VARIABLES
  pc,            \* "down" | "idle" | the next step of persist
  players,       \* db.Players: name |-> its statistics
  top,           \* db.Top
  api,           \* the list in the published bytes
  file,          \* the state file: None, or a [players, top]
  tmp,           \* the temporary file: None, Torn, or a [players, top]
  saved,         \* history: the last save since the start went well
  blind          \* history: a start found a file it could not read

vars == <<pc, players, top, api, file, tmp, saved, blind>>

NoPlayers == [n \in {} |-> {}]
Empty == [players |-> NoPlayers, top |-> <<>>]

-----------------------------------------------------------------------------
(* The all-time list *)

RebuildTop(ps, limit) ==
  LET entries == {[name |-> n, score |-> ps[n].best] : n \in {m \in DOMAIN ps : ps[m].best > 0}}
      Before(a, b) == a.score > b.score \/ (a.score = b.score /\ a.name < b.name)
      list == Sorted(entries, {ab \in entries \X entries : Before(ab[1], ab[2])})
  IN  SubSeq(list, 1, IF Len(list) > limit THEN limit ELSE Len(list))

-----------------------------------------------------------------------------
(* The operations, each up to the save that ends it *)

\* A join of an unknown name (hub.go calls this only when LookupBird found none).
RememberBird(n, b) ==
  /\ pc = "idle" /\ n \notin DOMAIN players
  /\ players' = [m \in DOMAIN players \cup {n} |->
                   IF m = n THEN [best |-> 0, races |-> 0, wins |-> 0, bird |-> b]
                            ELSE players[m]]
  /\ pc' = "write"
  /\ UNCHANGED <<top, api, file, tmp, saved, blind>>

Best(score, best) == IF score > best THEN score ELSE best

\* What a finished race, ranked from first to last, makes of the statistics.
Folded(entries) ==
  [n \in DOMAIN players |->
     LET s == players[n]
         place == SelectInSeq(entries, LAMBDA e : e.name = n)
     IN  IF place = 0 THEN s
         ELSE [s EXCEPT !.bird  = entries[place].bird,
                        !.races = @ + 1,
                        !.wins  = IF place = 1 THEN @ + 1 ELSE @,
                        !.best  = Best(entries[place].score, @)]]

RecordRace(entries) ==
  /\ pc = "idle"
  /\ players' = Folded(entries)
  /\ top' = RebuildTop(players', MaxTop)
  /\ pc' = "write"
  /\ UNCHANGED <<api, file, tmp, saved, blind>>

\* The flights recorded so far, which are bounded.
Flown == MapThenSumSet(LAMBDA n : players[n].races, DOMAIN players)

\* The races the hub can report: distinct names it has remembered, with the birds it
\* found for them (RaceHub's BirdsRemembered), best score first.
Races ==
  LET Ranked(es) == \A i \in 1..Len(es) - 1 :
                       es[i].name # es[i + 1].name /\ es[i].score >= es[i + 1].score
      entry == {[name |-> n, score |-> s, bird |-> players[n].bird] :
                  n \in DOMAIN players, s \in 0..MaxScore}
  IN  {es \in entry \X entry : Flown + 2 <= MaxRaces /\ Ranked(es)}
        \cup {<<e>> : e \in {f \in entry : Flown < MaxRaces}}

-----------------------------------------------------------------------------
(* persist: save through the temporary file, then publish *)

Memory == [players |-> players, top |-> top]

\* Mutant of WriteTmp: the state file itself is written.
WriteInPlace ==
  /\ pc = "write"
  /\ \/ pc' = "rename" /\ file' = Memory /\ saved' = saved
     \/ pc' = "publish" /\ file' = Torn /\ saved' = FALSE
  /\ tmp' = Memory
  /\ UNCHANGED <<players, top, api, blind>>

\* Marshalling, MkdirAll or WriteFile may fail, the last with part of it written.
WriteTmp ==
  /\ pc = "write"
  /\ \/ pc' = "rename" /\ tmp' = Memory /\ saved' = saved
     \/ pc' = "publish" /\ tmp' \in {tmp, Torn} /\ saved' = FALSE
  /\ UNCHANGED <<players, top, api, file, blind>>

Rename ==
  /\ pc = "rename" /\ pc' = "publish"
  /\ \/ file' = tmp /\ tmp' = None /\ saved' = TRUE
     \/ saved' = FALSE /\ UNCHANGED <<file, tmp>>
  /\ UNCHANGED <<players, top, api, blind>>

\* Mutant of RefreshAPI: only what was saved is published.
RefreshSaved ==
  /\ pc = "publish" /\ pc' = "idle"
  /\ api' = IF saved THEN top ELSE api
  /\ UNCHANGED <<players, top, file, tmp, saved, blind>>

RefreshAPI ==
  /\ pc = "publish" /\ pc' = "idle"
  /\ api' = top
  /\ UNCHANGED <<players, top, file, tmp, saved, blind>>

-----------------------------------------------------------------------------
(* Ends and starts of the process *)

\* The process ends at any point. Whatever it leaves of the temporary file, nobody
\* reads it: it counts as torn.
Crash ==
  /\ pc # "down" /\ pc' = "down" /\ tmp' = Torn
  /\ players' = NoPlayers /\ top' = <<>> /\ api' = <<>>
  /\ UNCHANGED <<file, saved, blind>>

\* No file: a fresh store. A file that cannot be read or parsed: a fresh store,
\* whose next save replaces that file.
OpenStore ==
  /\ pc = "down" /\ pc' = "idle"
  /\ \E readable \in BOOLEAN :
       /\ readable \/ ~blind   \* bound: one start that cannot read
       /\ LET db == IF readable /\ file # None THEN file ELSE Empty
          IN players' = db.players /\ top' = db.top /\ api' = db.top
       /\ blind' = (blind \/ (file # None /\ ~readable))
       /\ saved' = (readable \/ file = None)
  /\ UNCHANGED <<file, tmp>>

-----------------------------------------------------------------------------

Init ==
  /\ pc = "down" /\ players = NoPlayers /\ top = <<>> /\ api = <<>>
  /\ file = None /\ tmp = None /\ saved = FALSE /\ blind = FALSE

Next ==
  \/ \E n \in Names, b \in Birds : RememberBird(n, b)
  \/ \E entries \in Races : RecordRace(entries)
  \/ WriteTmp \/ Rename \/ RefreshAPI
  \/ Crash \/ OpenStore

Spec == Init /\ [][Next]_vars

-----------------------------------------------------------------------------
(* Properties *)

\* The state file is absent or whole, in memory and on disk alike; only the
\* temporary file is ever torn (store.go: "a crash never corrupts").
TypeOK ==
  /\ pc \in {"down", "idle", "write", "rename", "publish"}
  /\ IsDB(Memory) /\ api \in Seq(TopEntry)
  /\ file = None \/ IsDB(file)
  /\ tmp \in {None, Torn} \/ IsDB(tmp)
  /\ saved \in BOOLEAN /\ blind \in BOOLEAN

\* In a list of this length the score of every player stands at the place it has
\* among all, ties by name, and nobody else is on it (rebuildTop).
ListOf(list, ps) ==
  LET ahead(n) == {m \in DOMAIN ps : \/ ps[m].best > ps[n].best
                                     \/ ps[m].best = ps[n].best /\ m < n}
      placed == {n \in DOMAIN ps : ps[n].best > 0 /\ Cardinality(ahead(n)) < MaxTop}
  IN  /\ Len(list) = Cardinality(placed)
      /\ \A n \in placed : list[Cardinality(ahead(n)) + 1] = [name |-> n, score |-> ps[n].best]

\* The list is the one the statistics call for: in memory after every operation and
\* after a start, and in the file whatever was interrupted (rebuildTop, OpenStore).
TopDerived ==
  /\ ListOf(top, players)
  /\ file # None => ListOf(file.top, file.players)

\* Between operations the page serves the list in memory, also when the save failed
\* ("refreshes the API bytes. A failed save is logged but never fatal", persist).
ServedCurrent == pc = "idle" => api = top

\* Between operations the file holds what memory holds, unless the last save failed
\* or the start could not read it: the next save carries what a failed one did not.
FileCatchesUp ==
  pc = "idle" /\ saved =>
    Memory = IF file = None THEN Empty ELSE file

\* The list, the page and the file agree with the statistics, as soon as they may.
FileCurrent == TopDerived /\ ServedCurrent /\ FileCatchesUp

\* Statistics only ever grow, and a name keeps its bird.
Grows(a, b) ==
  \A n \in DOMAIN a.players :
    /\ n \in DOMAIN b.players
    /\ LET s == a.players[n]
           t == b.players[n]
       IN  s.races <= t.races /\ s.wins <= t.wins /\ s.best <= t.best /\ s.bird = t.bird

\* What was saved is never lost to a crash or a failed save: a file replaces
\* another only with statistics that have grown, unless a start could not read it.
FileNeverForgets == [][file # None => file' # None /\ (blind' \/ Grows(file, file'))]_vars

Atomic == INSTANCE AtomicStore WITH
  Fresh <- Empty,
  mem   <- IF pc # "down" THEN Memory ELSE IF file = None THEN Empty ELSE file,
  disk  <- IF file = None THEN Empty ELSE file

\* The state file is only ever replaced by the whole of what memory holds.
ImplementsAtomicStore == Atomic!Spec
=============================================================================
