---------------------------- MODULE Local_proofs ----------------------------
(***************************************************************************)
(* Proofs about the other parts of Local, for lists, snapshots, lengths    *)
(* and trees of any size, and about all of them side by side.              *)
(***************************************************************************)
EXTENDS LocalRace_proofs

\* Each part of a behaviour of the composition behaves as by itself, whichever of
\* them runs.
LEMMA EachPartByItself == Spec => Board!Spec /\ Race!Spec /\ View!Spec /\ Text!Spec /\ Links!Spec
<1>1. Init => Board!Init /\ Race!Init /\ View!Init /\ Text!Init /\ Links!Init
  BY DEF Init
<1>2. [Next]_vars => [Board!Next]_(Board!vars)
  BY DEF Next, Alone, vars, storeVars, Board!vars
<1>3. [Next]_vars => [Race!Next]_(Race!vars)
  BY DEF Next, Alone, vars, worldVars, Race!vars
<1>4. [Next]_vars => [View!Next]_(View!vars)
  BY DEF Next, Alone, vars, feedVars, View!vars
<1>5. [Next]_vars => [Text!Next]_(Text!vars)
  BY DEF Next, Alone, vars, textVars, Text!vars
<1>6. [Next]_vars => [Links!Next]_(Links!vars)
  BY DEF Next, Alone, vars, linkVars, Links!vars, Links!runVars
<1> QED BY <1>1, <1>2, <1>3, <1>4, <1>5, <1>6, PTL
        DEF Spec, Board!Spec, Race!Spec, View!Spec, Text!Spec, Links!Spec

-----------------------------------------------------------------------------
(* TootText *)

TextInv == title \in Nat /\ url \in Nat /\ summary \in Nat /\ Text!CutsInside

\* Whatever the lengths are, a cut ends within the summary (composeToot).
THEOREM TootsAreCutInside == Text!Spec => []Text!CutsInside
<1>1. Text!Init => TextInv
  BY LocalAssumption DEF LocalAssumption, Text!TootTextAssumption, Text!Init, TextInv, Text!CutsInside, Text!Composed
<1>2. ASSUME TextInv, [Text!Next]_(Text!vars) PROVE TextInv'
  <2>1. Limit \in Nat
    BY LocalAssumption DEF LocalAssumption, Text!TootTextAssumption
  <2>2. CASE Text!Compose
    <3>1. UNCHANGED <<title, url, summary>>
      BY <2>2 DEF Text!Compose
    <3> DEFINE Full == IF summary > 0 THEN Text!Whole ELSE Text!Bare
    <3>2. CASE Full.len <= Limit
      <4>1. text' = Full
        BY <1>2, <2>1, <2>2, <3>2 DEF Text!Compose, TextInv, Text!Whole, Text!Bare
      <4>2. text'.kept = summary' /\ ~text'.dots
        BY <1>2, <3>1, <4>1 DEF TextInv, Text!Whole, Text!Bare
      <4> QED BY <1>2, <3>1, <4>2 DEF TextInv, Text!CutsInside
    <3>3. CASE Full.len > Limit /\ Text!Room > 3
      <4>1. text' = Text!Cut(Text!Room)
        BY <1>2, <2>1, <2>2, <3>3 DEF Text!Compose, TextInv, Text!Whole, Text!Bare
      <4> QED BY <1>2, <2>1, <3>1, <3>3, <4>1 DEF TextInv, Text!CutsInside, Text!Cut, Text!Room, Text!Whole, Text!Bare
    <3>4. CASE Full.len > Limit /\ ~(Text!Room > 3)
      <4>1. text' = Text!Bare
        BY <1>2, <2>1, <2>2, <3>4 DEF Text!Compose, TextInv, Text!Whole, Text!Bare
      <4> QED BY <1>2, <2>1, <3>1, <3>4, <4>1 DEF TextInv, Text!CutsInside, Text!Cut, Text!Room, Text!Bare
    <3>5. Full.len \in Int
      BY <1>2 DEF TextInv, Text!Whole, Text!Bare
    <3> HIDE DEF Full
    <3> QED BY <2>1, <3>2, <3>3, <3>4, <3>5
  <2>3. CASE UNCHANGED Text!vars
    BY <1>2, <2>3 DEF Text!vars, TextInv, Text!CutsInside, Text!Composed, Text!Cut
  <2> QED BY <1>2, <2>2, <2>3 DEF Text!Next
<1>3. TextInv => Text!CutsInside
  BY DEF TextInv
<1> QED BY <1>1, <1>2, <1>3, PTL DEF Text!Spec

-----------------------------------------------------------------------------
(* Store: the all-time list *)

\* What the constants of the store are, one fact each.
LEMMA StoreConstants ==
  /\ Names \subseteq Nat /\ IsFiniteSet(Names) /\ MaxTop \in Nat /\ MaxScore \in Nat
  /\ ~Board!IsDB(None)
  BY LocalAssumption DEF LocalAssumption, Board!StoreAssumption, Board!IsFiniteSet, IsFiniteSet

\* The store's cardinality is the library's.
LEMMA SameCardinality == \A S : Board!Cardinality(S) = Cardinality(S)
  BY DEF Board!Cardinality, Cardinality

\* The store's Sorted is that of Sorting.
LEMMA SameSorted == \A S, R : Board!Sorted(S, R) = Sorted(S, R)
  BY DEF Board!Sorted, Sorted, Board!Cardinality, Cardinality

\* The entry of a player, and the players who have one.
Entry(ps, n) == [name |-> n, score |-> ps[n].best]
Scorers(ps) == {m \in DOMAIN ps : ps[m].best > 0}
Entries(ps) == {Entry(ps, n) : n \in Scorers(ps)}
EntryBefore(ps) ==
  {ab \in Entries(ps) \X Entries(ps) :
     ab[1].score > ab[2].score \/ (ab[1].score = ab[2].score /\ ab[1].name < ab[2].name)}

\* The players ahead of one, in ListOf.
Rivals(ps, n) ==
  {m \in DOMAIN ps : ps[m].best > ps[n].best \/ (ps[m].best = ps[n].best /\ m < n)}

\* The order of the list's entries is one (rebuildTop's comparison).
LEMMA EntriesOrdered ==
  ASSUME NEW known \in SUBSET Names, NEW ps \in [known -> Board!Stat]
  PROVE  /\ Scorers(ps) \subseteq known /\ DOMAIN ps = known
         /\ \A n \in known : ps[n].best \in 0..MaxScore
         /\ IsFiniteSet(Scorers(ps)) /\ IsFiniteSet(Entries(ps))
         /\ Entries(ps) \subseteq Board!TopEntry
         /\ IsOrder(Entries(ps), EntryBefore(ps))
<1>1. DOMAIN ps = known /\ \A n \in known : ps[n].best \in 0..MaxScore
  BY DEF Board!Stat
<1>2. Scorers(ps) \in SUBSET Names /\ Scorers(ps) \subseteq known
  BY <1>1 DEF Scorers
<1>3. IsFiniteSet(Scorers(ps))
  BY <1>2, StoreConstants, FS_Subset
<1> DEFINE f == [n \in Scorers(ps) |-> Entry(ps, n)]
<1>4. f \in Surjection(Scorers(ps), Entries(ps))
  BY DEF Surjection, Entries
<1> HIDE DEF f
<1>5. IsFiniteSet(Entries(ps))
  BY <1>3, <1>4, FS_Surjection
<1>6. Entries(ps) \subseteq Board!TopEntry
  <2>1. ASSUME NEW n \in Scorers(ps) PROVE Entry(ps, n) \in Board!TopEntry
    <3>1. n \in Names /\ ps[n].best \in 0..MaxScore /\ ps[n].best > 0 /\ MaxScore \in Nat
      BY <1>1, <1>2, StoreConstants DEF Scorers
    <3>2. ps[n].best \in 1..MaxScore
      BY <3>1
    <3> QED BY <3>1, <3>2 DEF Entry, Board!TopEntry
  <2> QED BY <2>1 DEF Entries
<1>7. \A e \in Entries(ps) : e.name \in Nat /\ e.score \in Nat /\ e = Entry(ps, e.name)
  BY <1>1, <1>2, StoreConstants DEF Entries, Entry, Scorers
<1>8. \A x, y \in Entries(ps) : <<x, y>> \in EntryBefore(ps) <=>
         x.score > y.score \/ (x.score = y.score /\ x.name < y.name)
  BY DEF EntryBefore
<1>9. IsOrder(Entries(ps), EntryBefore(ps))
  <2>1. \A x \in Entries(ps) : <<x, x>> \notin EntryBefore(ps)
    BY <1>7, <1>8
  <2>2. ASSUME NEW x \in Entries(ps), NEW y \in Entries(ps), NEW z \in Entries(ps),
               <<x, y>> \in EntryBefore(ps), <<y, z>> \in EntryBefore(ps)
        PROVE  <<x, z>> \in EntryBefore(ps)
    BY <1>7, <1>8, <2>2
  <2>3. ASSUME NEW x \in Entries(ps), NEW y \in Entries(ps)
        PROVE  x = y \/ <<x, y>> \in EntryBefore(ps) \/ <<y, x>> \in EntryBefore(ps)
    <3>1. CASE x.name = y.name
      BY <1>7, <3>1
    <3>2. CASE x.name # y.name
      BY <1>7, <1>8, <3>2
    <3> QED BY <3>1, <3>2
  <2> QED BY <2>1, <2>2, <2>3 DEF IsOrder
<1> QED BY <1>1, <1>2, <1>3, <1>5, <1>6, <1>9

\* Those ahead of an entry are the entries of those ahead of its player.
LEMMA RivalsAhead ==
  ASSUME NEW known \in SUBSET Names, NEW ps \in [known -> Board!Stat], NEW n \in Scorers(ps)
  PROVE  Cardinality(Rivals(ps, n)) = Cardinality(Ahead(Entries(ps), EntryBefore(ps), Entry(ps, n)))
<1>1. DOMAIN ps = known /\ \A m \in known : ps[m].best \in 0..MaxScore
  BY EntriesOrdered
<1>2. Rivals(ps, n) \in SUBSET Scorers(ps)
  <2>1. MaxScore \in Nat /\ n \in known /\ ps[n].best > 0
    BY <1>1, StoreConstants DEF Scorers
  <2>2. ASSUME NEW m \in known, ps[m].best > ps[n].best \/ ps[m].best = ps[n].best PROVE ps[m].best > 0
    BY <1>1, <2>1, <2>2
  <2> QED BY <1>1, <2>2 DEF Rivals, Scorers
<1>3. IsFiniteSet(Rivals(ps, n))
  BY <1>2, EntriesOrdered, FS_Subset
<1> DEFINE A == Ahead(Entries(ps), EntryBefore(ps), Entry(ps, n))
           g == [m \in Rivals(ps, n) |-> Entry(ps, m)]
<1>4. \A m \in Scorers(ps) : Entry(ps, m) \in A <=> m \in Rivals(ps, n)
  <2> SUFFICES ASSUME NEW m \in Scorers(ps) PROVE Entry(ps, m) \in A <=> m \in Rivals(ps, n)
    OBVIOUS
  <2>1. Entry(ps, m) \in Entries(ps) /\ Entry(ps, n) \in Entries(ps) /\ m \in DOMAIN ps
    BY DEF Entries, Scorers
  <2>2. Entry(ps, m).score = ps[m].best /\ Entry(ps, m).name = m
        /\ Entry(ps, n).score = ps[n].best /\ Entry(ps, n).name = n
    BY DEF Entry
  <2> QED BY <2>1, <2>2 DEF Ahead, EntryBefore, Rivals
<1>5. g \in [Rivals(ps, n) -> A]
  BY <1>2, <1>4
<1>6. \A x, y \in Rivals(ps, n) : x # y => g[x] # g[y]
  BY DEF Entry
<1>7. ASSUME NEW e \in A PROVE \E m \in Rivals(ps, n) : g[m] = e
  <2>1. PICK m \in Scorers(ps) : e = Entry(ps, m)
    BY DEF Ahead, Entries
  <2> QED BY <1>4, <2>1
<1> HIDE DEF A, g
<1>8. g \in Bijection(Rivals(ps, n), A)
  BY <1>5, <1>6, <1>7 DEF Bijection, Injection, Surjection, IsInjective
<1>9. ExistsBijection(Rivals(ps, n), A)
  BY <1>8 DEF ExistsBijection
<1> QED BY <1>3, <1>9, FS_Bijection DEF A

\* rebuildTop returns the list the statistics call for, and it is one.
LEMMA TopRebuilt ==
  ASSUME NEW known \in SUBSET Names, NEW ps \in [known -> Board!Stat],
         NEW t, t = Board!RebuildTop(ps, MaxTop)
  PROVE  t \in Seq(Board!TopEntry) /\ Board!ListOf(t, ps)
<1> DEFINE E == Entries(ps)
           R == EntryBefore(ps)
           n == Cardinality(E)
           s == Sorted(E, R)
           size == IF n > MaxTop THEN MaxTop ELSE n
           placed == {m \in DOMAIN ps : ps[m].best > 0 /\ Cardinality(Rivals(ps, m)) < MaxTop}
<1>0. MaxTop \in Nat
  BY StoreConstants
<1>1. IsFiniteSet(E) /\ IsOrder(E, R) /\ E \subseteq Board!TopEntry
  BY EntriesOrdered
<1>2. /\ n \in Nat /\ s \in [1..n -> E]
      /\ \A i, j \in 1..n : i < j => <<s[i], s[j]>> \in R
      /\ \A x \in E : \E i \in 1..n : s[i] = x
      /\ \A k \in 1..n : Cardinality(Ahead(E, R, s[k])) = k - 1
  <2> HIDE DEF E, R, s
  <2>1. s = Sorted(E, R)
    BY DEF s
  <2> QED BY <1>1, <2>1, SortedSorts
<1>3. t = SubSeq(s, 1, IF Len(s) > MaxTop THEN MaxTop ELSE Len(s))
  BY SameSorted DEF Board!RebuildTop, Entries, Entry, EntryBefore, Scorers
<1> HIDE DEF E, R, n, s
<1>4. s \in Seq(E) /\ Len(s) = n
  BY <1>2
<1>5. size \in Nat /\ size <= n /\ size <= MaxTop /\ t = SubSeq(s, 1, size)
  BY <1>0, <1>2, <1>3, <1>4
<1>6. t \in Seq(E) /\ Len(t) = size /\ \A i \in 1..size : t[i] = s[i]
  <2> HIDE DEF size
  <2> QED BY <1>2, <1>4, <1>5
<1>7. t \in Seq(Board!TopEntry)
  BY <1>1, <1>6
<1>8. \A k \in 1..n : s[k] = Entry(ps, s[k].name) /\ s[k].name \in Scorers(ps)
                      /\ Cardinality(Rivals(ps, s[k].name)) = k - 1
  <2> SUFFICES ASSUME NEW k \in 1..n
               PROVE  /\ s[k] = Entry(ps, s[k].name) /\ s[k].name \in Scorers(ps)
                      /\ Cardinality(Rivals(ps, s[k].name)) = k - 1
    OBVIOUS
  <2>1. PICK m \in Scorers(ps) : s[k] = Entry(ps, m)
    BY <1>2 DEF E, Entries
  <2>2. s[k].name = m
    BY <2>1 DEF Entry
  <2>3. Cardinality(Rivals(ps, m)) = Cardinality(Ahead(E, R, s[k]))
    BY <2>1, RivalsAhead DEF E, R
  <2> QED BY <1>2, <2>1, <2>2, <2>3
<1>9. \A m \in Scorers(ps) : \E k \in 1..n : s[k] = Entry(ps, m) /\ s[k].name = m
  BY <1>2 DEF E, Entries, Entry
<1>10. Cardinality(placed) = size
  <2> DEFINE h == [k \in 1..size |-> s[k].name]
  <2> HIDE DEF size
  <2>1. \A k \in 1..size : k \in 1..n
    BY <1>2, <1>5
  <2>2. \A k \in 1..size : s[k].name \in placed
    <3> SUFFICES ASSUME NEW k \in 1..size PROVE s[k].name \in placed
      OBVIOUS
    <3>1. s[k].name \in Scorers(ps) /\ Cardinality(Rivals(ps, s[k].name)) = k - 1
      BY <1>8, <2>1
    <3>2. k - 1 < MaxTop
      BY <1>0, <1>5
    <3> QED BY <3>1, <3>2 DEF Scorers
  <2>3. h \in [1..size -> placed]
    BY <2>2
  <2>4. \A i, j \in 1..size : i # j => h[i] # h[j]
    <3> SUFFICES ASSUME NEW i \in 1..size, NEW j \in 1..size, s[i].name = s[j].name PROVE i = j
      OBVIOUS
    <3>1. i - 1 = j - 1
      BY <1>8, <2>1
    <3> QED BY <1>5, <3>1
  <2>5. ASSUME NEW m \in placed PROVE \E k \in 1..size : h[k] = m
    <3>1. m \in Scorers(ps) /\ Cardinality(Rivals(ps, m)) < MaxTop
      BY DEF Scorers
    <3>2. PICK k \in 1..n : s[k].name = m
      BY <1>9, <3>1
    <3>3. k - 1 < MaxTop
      BY <1>8, <3>1, <3>2
    <3>4. k \in 1..size
      BY <1>0, <1>2, <3>3 DEF size
    <3> QED BY <3>2, <3>4
  <2> HIDE DEF h, placed
  <2>6. h \in Bijection(1..size, placed)
    BY <2>3, <2>4, <2>5 DEF Bijection, Injection, Surjection, IsInjective
  <2>7. ExistsBijection(1..size, placed)
    BY <2>6 DEF ExistsBijection
  <2> QED BY <1>5, <2>7, FS_CountingElements
<1>11. ASSUME NEW m \in placed
       PROVE  t[Cardinality(Rivals(ps, m)) + 1] = [name |-> m, score |-> ps[m].best]
  <2>1. m \in Scorers(ps) /\ Cardinality(Rivals(ps, m)) < MaxTop
    BY DEF Scorers
  <2>2. PICK k \in 1..n : s[k] = Entry(ps, m) /\ s[k].name = m
    BY <1>9, <2>1
  <2>3. Cardinality(Rivals(ps, m)) = k - 1
    BY <1>8, <2>2
  <2>4. k \in 1..size /\ (k - 1) + 1 = k
    BY <1>0, <1>2, <2>1, <2>3
  <2>5. t[k] = Entry(ps, m)
    <3> HIDE DEF size
    <3> QED BY <1>6, <2>2, <2>4
  <2> QED BY <2>3, <2>4, <2>5 DEF Entry
<1>12. Board!ListOf(t, ps)
  <2> HIDE DEF size
  <2> QED BY <1>6, <1>10, <1>11, SameCardinality DEF Board!ListOf, Rivals
<1> QED BY <1>7, <1>12

-----------------------------------------------------------------------------
(* Store: the inductive invariant *)

Read(f) == IF f = None THEN Board!Empty ELSE f

\* The list in memory and in the file is the one the statistics call for, what is about
\* to be renamed is what memory holds, the page and the file are as they should be, and
\* memory has only grown since the file was written, unless a start could not read it.
StoreInv ==
  /\ Board!TypeOK
  /\ Board!TopDerived
  /\ storePc = "rename" => tmp = Board!Memory
  /\ Board!ServedCurrent
  /\ storePc \in {"idle", "publish"} /\ saved => Board!Memory = Read(file)
  /\ storePc # "down" /\ file # None /\ ~blind => Board!Grows(file, Board!Memory)

\* The memory is a state that can be saved.
LEMMA MemoryIsDB ==
  ASSUME NEW known \in SUBSET Names, players \in [known -> Board!Stat], top \in Seq(Board!TopEntry)
  PROVE  Board!IsDB(Board!Memory)
<1>1. Board!Memory \in Board!DB(known)
  BY DEF Board!DB, Board!Memory
<1> QED BY <1>1 DEF Board!IsDB

\* What is known of the memory, of the file and of the temporary one by their type.
LEMMA DBParts ==
  ASSUME NEW db, Board!IsDB(db)
  PROVE  /\ db # None
         /\ \E known \in SUBSET Names :
              db.players \in [known -> Board!Stat] /\ db.top \in Seq(Board!TopEntry)
              /\ db = [players |-> db.players, top |-> db.top]
<1>1. PICK known \in SUBSET Names : db \in Board!DB(known)
  BY DEF Board!IsDB
<1>2. db.players \in [known -> Board!Stat] /\ db.top \in Seq(Board!TopEntry)
      /\ db = [players |-> db.players, top |-> db.top]
  BY <1>1 DEF Board!DB
<1> QED BY <1>2, StoreConstants

\* A state has lost nothing of itself.
LEMMA GrowsReflexive ==
  ASSUME NEW db, Board!IsDB(db)
  PROVE  Board!Grows(db, db)
<1>1. PICK known \in SUBSET Names : db.players \in [known -> Board!Stat]
  BY DBParts
<1>2. ASSUME NEW n \in DOMAIN db.players
      PROVE  /\ db.players[n].races \in Nat /\ db.players[n].wins \in Nat /\ db.players[n].best \in Int
  BY <1>1 DEF Board!Stat
<1> QED BY <1>2 DEF Board!Grows

\* What lost nothing of what lost nothing lost nothing.
LEMMA GrowsTransitive ==
  ASSUME NEW a, Board!IsDB(a), NEW b, Board!IsDB(b), NEW c, Board!IsDB(c),
         Board!Grows(a, b), Board!Grows(b, c)
  PROVE  Board!Grows(a, c)
<1>1. ASSUME NEW d, Board!IsDB(d), NEW n \in DOMAIN d.players
      PROVE  d.players[n].races \in Nat /\ d.players[n].wins \in Nat /\ d.players[n].best \in Int
  <2>1. PICK known \in SUBSET Names : d.players \in [known -> Board!Stat]
    BY <1>1, DBParts
  <2> QED BY <1>1, <2>1 DEF Board!Stat
<1> SUFFICES ASSUME NEW n \in DOMAIN a.players
             PROVE  /\ n \in DOMAIN c.players
                    /\ a.players[n].races <= c.players[n].races
                    /\ a.players[n].wins <= c.players[n].wins
                    /\ a.players[n].best <= c.players[n].best
                    /\ a.players[n].bird = c.players[n].bird
  BY DEF Board!Grows
<1>2. /\ n \in DOMAIN b.players
      /\ a.players[n].races <= b.players[n].races /\ a.players[n].wins <= b.players[n].wins
      /\ a.players[n].best <= b.players[n].best /\ a.players[n].bird = b.players[n].bird
  BY DEF Board!Grows
<1>3. /\ n \in DOMAIN c.players
      /\ b.players[n].races <= c.players[n].races /\ b.players[n].wins <= c.players[n].wins
      /\ b.players[n].best <= c.players[n].best /\ b.players[n].bird = c.players[n].bird
  BY <1>2 DEF Board!Grows
<1>4. /\ a.players[n].races \in Nat /\ a.players[n].wins \in Nat /\ a.players[n].best \in Int
      /\ b.players[n].races \in Nat /\ b.players[n].wins \in Nat /\ b.players[n].best \in Int
      /\ c.players[n].races \in Nat /\ c.players[n].wins \in Nat /\ c.players[n].best \in Int
  BY <1>1, <1>2, <1>3
<1> QED BY <1>2, <1>3, <1>4

\* A race makes statistics grow and stay statistics (RecordRace).
LEMMA FoldGrows ==
  ASSUME NEW known \in SUBSET Names, players \in [known -> Board!Stat], NEW entries \in Board!Races
  PROVE  /\ Board!Folded(entries) \in [known -> Board!Stat]
         /\ \A n \in known : LET s == players[n]  t == Board!Folded(entries)[n] IN
              s.races <= t.races /\ s.wins <= t.wins /\ s.best <= t.best /\ s.bird = t.bird
<1> DEFINE entry == {[name |-> n, score |-> s, bird |-> players[n].bird] : n \in known, s \in 0..MaxScore}
<1>1. entries \in Seq(entry) /\ Len(entries) \in Nat
  <2>1. (\E a, b \in entry : entries = <<a, b>>) \/ (\E e \in entry : entries = <<e>>)
    BY DEF Board!Races
  <2> HIDE DEF entry
  <2>2. ASSUME NEW a \in entry, NEW b \in entry PROVE <<a, b>> \in Seq(entry)
    OBVIOUS
  <2>3. ASSUME NEW a \in entry PROVE <<a>> \in Seq(entry)
    OBVIOUS
  <2>4. entries \in Seq(entry)
    BY <2>1, <2>2, <2>3
  <2> QED BY <2>4
<1>2. MaxScore \in Nat
  BY StoreConstants
<1> DEFINE place(n) == Board!SelectInSeq(entries, LAMBDA e : e.name = n)
<1>3. ASSUME NEW n \in known
      PROVE  place(n) \in 0..Len(entries) /\ (place(n) # 0 => entries[place(n)].name = n)
  <2> DEFINE I == {i \in 1..Len(entries) : entries[i].name = n}
  <2>1. place(n) = IF I # {} THEN Board!Min(I) ELSE 0
    BY DEF Board!SelectInSeq
  <2>2. CASE I = {}
    BY <1>1, <2>1, <2>2
  <2>3. CASE I # {}
    <3>1. I \subseteq Nat /\ I \subseteq 0..Len(entries)
      BY <1>1
    <3> HIDE DEF I
    <3>2. \E x \in I : \A y \in I : x <= y
      BY <2>3, <3>1, Least
    <3>3. Board!Min(I) \in I
      BY <3>2 DEF Board!Min
    <3> HIDE DEF place
    <3>4. \A i \in I : entries[i].name = n
      BY DEF I
    <3> QED BY <2>1, <2>3, <3>1, <3>3, <3>4
  <2> HIDE DEF I, place
  <2> QED BY <2>2, <2>3
<1> DEFINE fold(n) ==
             IF place(n) = 0 THEN players[n]
             ELSE [players[n] EXCEPT !.bird  = entries[place(n)].bird,
                                     !.races = @ + 1,
                                     !.wins  = IF place(n) = 1 THEN @ + 1 ELSE @,
                                     !.best  = Board!Best(entries[place(n)].score, @)]
<1>4. Board!Folded(entries) = [n \in known |-> fold(n)]
  BY DEF Board!Folded
<1> HIDE DEF place
<1>5. ASSUME NEW n \in known
      PROVE  /\ fold(n) \in Board!Stat
             /\ players[n].races <= fold(n).races /\ players[n].wins <= fold(n).wins
             /\ players[n].best <= fold(n).best /\ players[n].bird = fold(n).bird
  <2>1. /\ players[n] \in Board!Stat
        /\ players[n].races \in Nat /\ players[n].wins \in Nat /\ players[n].best \in 0..MaxScore
        /\ players[n].bird \in Birds
    BY DEF Board!Stat
  <2>2. CASE place(n) = 0
    BY <2>1, <2>2, <1>2
  <2>3. CASE place(n) # 0
    <3>1. entries[place(n)].score \in 0..MaxScore /\ entries[place(n)].bird = players[n].bird
      <4>1. place(n) \in 1..Len(entries)
        BY <1>1, <1>3, <2>3
      <4>2. entries[place(n)] \in entry
        <5> HIDE DEF entry
        <5> QED BY <1>1, <4>1
      <4>3. PICK m \in known, x \in 0..MaxScore :
              entries[place(n)] = [name |-> m, score |-> x, bird |-> players[m].bird]
        BY <4>2
      <4>4. m = n
        BY <1>3, <2>3, <4>3
      <4> QED BY <4>3, <4>4
    <3> DEFINE w == IF place(n) = 1 THEN players[n].wins + 1 ELSE players[n].wins
               b == Board!Best(entries[place(n)].score, players[n].best)
    <3>2. fold(n) = [players[n] EXCEPT !.bird = players[n].bird, !.races = players[n].races + 1,
                                       !.wins = w, !.best = b]
      BY <2>3, <3>1
    <3>3. w \in Nat /\ players[n].wins <= w
      BY <2>1
    <3>4. b \in 0..MaxScore /\ players[n].best <= b
      BY <1>2, <2>1, <3>1 DEF Board!Best
    <3> HIDE DEF w, b, fold
    <3>5. fold(n) = [best |-> b, races |-> players[n].races + 1, wins |-> w, bird |-> players[n].bird]
      BY <2>1, <3>2 DEF Board!Stat
    <3> QED BY <2>1, <3>3, <3>4, <3>5 DEF Board!Stat
  <2> QED BY <2>2, <2>3
<1> HIDE DEF fold
<1> QED BY <1>4, <1>5

\* What the steps find in memory, and in the file.
LEMMA StoreTyped ==
  ASSUME StoreInv
  PROVE  /\ storePc \in {"down", "idle", "write", "rename", "publish"}
         /\ Board!IsDB(Board!Memory) /\ api \in Seq(Board!TopEntry)
         /\ file = None \/ Board!IsDB(file)
         /\ tmp \in {None, Torn} \/ Board!IsDB(tmp)
         /\ saved \in BOOLEAN /\ blind \in BOOLEAN
         /\ \E known \in SUBSET Names : players \in [known -> Board!Stat]
         /\ top \in Seq(Board!TopEntry)
         /\ Board!ListOf(top, players)
         /\ file # None => Board!ListOf(file.top, file.players)
<1>1. \E known \in SUBSET Names : players \in [known -> Board!Stat] /\ top \in Seq(Board!TopEntry)
  BY DBParts DEF StoreInv, Board!TypeOK, Board!Memory
<1> QED BY <1>1 DEF StoreInv, Board!TypeOK, Board!TopDerived

\* An empty store can be saved.
LEMMA EmptyIsDB ==
  Board!IsDB(Board!Empty) /\ Board!ListOf(Board!Empty.top, Board!Empty.players)
<1>1. Board!Empty \in Board!DB({})
  BY DEF Board!Empty, Board!DB, Board!NoPlayers
<1>2. Board!Empty.top = <<>> /\ DOMAIN Board!Empty.players = {}
  BY DEF Board!Empty, Board!NoPlayers
<1>3. Board!Cardinality({}) = 0
  BY SameCardinality, FS_EmptySet
<1>4. Board!ListOf(Board!Empty.top, Board!Empty.players)
  BY <1>2, <1>3 DEF Board!ListOf
<1> QED BY <1>1, <1>4 DEF Board!IsDB

\* The store begins with what it reads from its file.
LEMMA StoreBegins == Board!Init => StoreInv
<1> SUFFICES ASSUME Board!Init PROVE StoreInv
  OBVIOUS
<1>1. Board!Memory = Board!Empty /\ Board!Empty.top = top /\ Board!Empty.players = players
  BY DEF Board!Init, Board!Memory, Board!Empty
<1>2. Board!TypeOK
  <2>1. Board!IsDB(Board!Memory)
    BY <1>1, EmptyIsDB
  <2>2. api \in Seq(Board!TopEntry)
    BY DEF Board!Init
  <2> QED BY <2>1, <2>2 DEF Board!Init, Board!TypeOK
<1>3. Board!TopDerived
  BY <1>1, EmptyIsDB DEF Board!Init, Board!TopDerived
<1> QED BY <1>2, <1>3 DEF Board!Init, StoreInv, Board!ServedCurrent

\* A new player changes nothing of the list, who is still without a score.
LEMMA NewcomerUnlisted ==
  ASSUME NEW known \in SUBSET Names, NEW ps \in [known -> Board!Stat], NEW list, Board!ListOf(list, ps),
         NEW n \in Names \ known,
         NEW qs, DOMAIN qs = known \cup {n}, qs[n].best = 0, \A m \in known : qs[m] = ps[m]
  PROVE  Board!ListOf(list, qs)
<1>1. DOMAIN ps = known /\ DOMAIN qs = known \cup {n} /\ qs[n].best = 0 /\ MaxScore \in Nat
  BY StoreConstants
<1>2. \A m \in known : qs[m] = ps[m] /\ ps[m].best \in Nat
  BY <1>1 DEF Board!Stat
<1>3. \A m \in known : ps[m].best > 0 => Rivals(qs, m) = Rivals(ps, m)
  BY <1>1, <1>2 DEF Rivals
<1> DEFINE placed(ss) == {m \in DOMAIN ss : ss[m].best > 0 /\ Board!Cardinality(Rivals(ss, m)) < MaxTop}
<1>4. placed(qs) = placed(ps)
  <2>1. n \notin placed(qs)
    BY <1>1
  <2>2. \A m \in known : m \in placed(qs) <=> m \in placed(ps)
    BY <1>1, <1>2, <1>3
  <2>3. placed(qs) \subseteq known \cup {n} /\ placed(ps) \subseteq known
    BY <1>1
  <2> HIDE DEF placed
  <2> QED BY <2>1, <2>2, <2>3
<1>5. /\ Len(list) = Board!Cardinality(placed(ps))
      /\ \A m \in placed(ps) : list[Board!Cardinality(Rivals(ps, m)) + 1] = [name |-> m, score |-> ps[m].best]
  BY DEF Board!ListOf, Rivals
<1>6. /\ Len(list) = Board!Cardinality(placed(qs))
      /\ \A m \in placed(qs) : list[Board!Cardinality(Rivals(qs, m)) + 1] = [name |-> m, score |-> qs[m].best]
  <2>1. \A m \in placed(ps) : m \in known /\ ps[m].best > 0
    BY <1>1
  <2> HIDE DEF placed
  <2> QED BY <1>2, <1>3, <1>4, <1>5, <2>1
<1> QED BY <1>6 DEF Board!ListOf, Rivals

\* A race's results only add to the memory.
LEMMA StoreRemembers ==
  ASSUME StoreInv, NEW n \in Names, NEW b \in Birds, Board!RememberBird(n, b)
  PROVE  StoreInv' /\ Board!Grows(Board!Memory, Board!Memory')
<1> DEFINE x == [best |-> 0, races |-> 0, wins |-> 0, bird |-> b]
<1>1. /\ storePc = "idle" /\ storePc' = "write" /\ n \notin DOMAIN players
      /\ players' = [m \in DOMAIN players \cup {n} |-> IF m = n THEN x ELSE players[m]]
      /\ UNCHANGED <<top, api, file, tmp, saved, blind>>
  BY DEF Board!RememberBird
<1>2. PICK known \in SUBSET Names : players \in [known -> Board!Stat]
  BY StoreTyped
<1>3. DOMAIN players = known /\ x \in Board!Stat /\ x.best = 0
  BY <1>2, StoreConstants DEF Board!Stat
<1> HIDE DEF x
<1>4. players' \in [known \cup {n} -> Board!Stat] /\ known \cup {n} \in SUBSET Names
  BY <1>1, <1>2, <1>3
<1>5. Board!IsDB(Board!Memory')
  <2>1. Board!Memory' \in Board!DB(known \cup {n})
    BY <1>1, <1>4, StoreTyped DEF Board!DB, Board!Memory
  <2> QED BY <1>4, <2>1 DEF Board!IsDB
<1>6. Board!ListOf(top, players')
  <2>1. n \in Names \ known
    BY <1>1, <1>3
  <2>2. DOMAIN players' = known \cup {n} /\ players'[n].best = 0 /\ \A m \in known : players'[m] = players[m]
    BY <1>1, <1>3, <2>1
  <2>3. Board!ListOf(top, players)
    BY StoreTyped
  <2> HIDE DEF x
  <2> QED BY <1>2, <2>1, <2>2, <2>3, NewcomerUnlisted
<1>7. Board!TypeOK'
  BY <1>1, <1>5 DEF StoreInv, Board!TypeOK
<1>8. Board!TopDerived'
  BY <1>1, <1>6, StoreTyped DEF Board!TopDerived
<1>9. Board!Grows(Board!Memory, Board!Memory')
  <2>1. \A m \in known : players[m].races \in Nat /\ players[m].wins \in Nat /\ players[m].best \in Int
    BY <1>2 DEF Board!Stat
  <2>2. \A m \in known : m \in DOMAIN players' /\ players'[m] = players[m]
    BY <1>1, <1>3, <1>4
  <2> QED BY <1>3, <2>1, <2>2 DEF Board!Grows, Board!Memory
<1>10. file # None /\ ~blind => Board!Grows(file, Board!Memory')
  BY <1>1, <1>5, <1>9, StoreTyped, GrowsTransitive DEF StoreInv
<1>11. file' # None /\ ~blind' => Board!Grows(file', Board!Memory')
  BY <1>1, <1>10
<1> QED BY <1>1, <1>7, <1>8, <1>9, <1>11 DEF StoreInv, Board!ServedCurrent

\* A save writes the memory beside the file and then renames it, or fails.
LEMMA StoreRecords ==
  ASSUME StoreInv, NEW entries \in Board!Races, Board!RecordRace(entries)
  PROVE  StoreInv' /\ Board!Grows(Board!Memory, Board!Memory')
<1>1. /\ storePc = "idle" /\ storePc' = "write" /\ players' = Board!Folded(entries)
      /\ top' = Board!RebuildTop(players', MaxTop)
      /\ UNCHANGED <<api, file, tmp, saved, blind>>
  BY DEF Board!RecordRace
<1>2. PICK known \in SUBSET Names : players \in [known -> Board!Stat]
  BY StoreTyped
<1>3. /\ players' \in [known -> Board!Stat]
      /\ \A n \in known :
           /\ players[n].races <= players'[n].races /\ players[n].wins <= players'[n].wins
           /\ players[n].best <= players'[n].best /\ players[n].bird = players'[n].bird
  BY <1>1, <1>2, FoldGrows
<1>4. top' \in Seq(Board!TopEntry) /\ Board!ListOf(top', players')
  BY <1>1, <1>3, TopRebuilt
<1>5. Board!IsDB(Board!Memory')
  <2>1. Board!Memory' \in Board!DB(known)
    BY <1>3, <1>4 DEF Board!DB, Board!Memory
  <2> QED BY <2>1 DEF Board!IsDB
<1>6. Board!TypeOK'
  BY <1>1, <1>5 DEF StoreInv, Board!TypeOK
<1>7. Board!TopDerived'
  BY <1>1, <1>4, StoreTyped DEF Board!TopDerived
<1>8. Board!Grows(Board!Memory, Board!Memory')
  BY <1>2, <1>3 DEF Board!Grows, Board!Memory
<1>9. file # None /\ ~blind => Board!Grows(file, Board!Memory')
  BY <1>1, <1>5, <1>8, StoreTyped, GrowsTransitive DEF StoreInv
<1>10. file' # None /\ ~blind' => Board!Grows(file', Board!Memory')
  BY <1>1, <1>9
<1> QED BY <1>1, <1>6, <1>7, <1>8, <1>10 DEF StoreInv, Board!ServedCurrent

\* persist: what it writes is what memory holds.
LEMMA StorePersists ==
  ASSUME StoreInv, Board!WriteTmp \/ Board!Rename \/ Board!RefreshAPI
  PROVE  /\ StoreInv'
         /\ UNCHANGED <<players, top>> /\ Board!Memory' = Board!Memory
         /\ storePc # "down" /\ storePc' # "down" /\ blind' = blind
         /\ UNCHANGED file \/ file' = Board!Memory
<1>1. UNCHANGED <<players, top>> /\ Board!Memory' = Board!Memory /\ blind' = blind
  BY DEF Board!WriteTmp, Board!Rename, Board!RefreshAPI, Board!Memory
<1>2. Board!IsDB(Board!Memory) /\ Board!Memory # None
  BY StoreTyped, DBParts
<1>3. CASE Board!WriteTmp
  <2>1. storePc = "write" /\ UNCHANGED <<players, top, api, file, blind>>
    BY <1>3 DEF Board!WriteTmp
  <2>2. \/ storePc' = "rename" /\ tmp' = Board!Memory /\ saved' = saved
        \/ storePc' = "publish" /\ tmp' \in {tmp, Torn} /\ saved' = FALSE
    BY <1>3 DEF Board!WriteTmp
  <2>3. Board!TypeOK'
    BY <1>1, <1>2, <2>1, <2>2, StoreTyped DEF Board!TypeOK
  <2>4. Board!TopDerived'
    BY <1>1, <2>1 DEF StoreInv, Board!TopDerived
  <2>5. file' # None /\ ~blind' => Board!Grows(file', Board!Memory')
    BY <1>1, <2>1 DEF StoreInv
  <2> QED BY <1>1, <2>1, <2>2, <2>3, <2>4, <2>5 DEF StoreInv, Board!ServedCurrent
<1>4. CASE Board!Rename
  <2>1. storePc = "rename" /\ storePc' = "publish" /\ tmp = Board!Memory /\ UNCHANGED <<players, top, api, blind>>
    BY <1>4 DEF Board!Rename, StoreInv
  <2>2. \/ file' = Board!Memory /\ tmp' = None /\ saved' = TRUE
        \/ saved' = FALSE /\ UNCHANGED <<file, tmp>>
    BY <1>4, <2>1 DEF Board!Rename
  <2>3. Board!TypeOK'
    BY <1>1, <1>2, <2>1, <2>2, StoreTyped DEF Board!TypeOK
  <2>4. Board!TopDerived'
    <3>1. CASE file' = Board!Memory
      BY <2>1, <3>1, StoreTyped DEF Board!TopDerived, Board!Memory
    <3>2. CASE UNCHANGED file
      BY <2>1, <3>2 DEF StoreInv, Board!TopDerived
    <3> QED BY <2>2, <3>1, <3>2
  <2>5. file' # None /\ ~blind' => Board!Grows(file', Board!Memory')
    BY <1>1, <1>2, <2>1, <2>2, GrowsReflexive DEF StoreInv
  <2>6. saved' => Board!Memory' = Read(file')
    BY <1>1, <1>2, <2>2 DEF Read
  <2> QED BY <1>1, <2>1, <2>2, <2>3, <2>4, <2>5, <2>6 DEF StoreInv, Board!ServedCurrent
<1>5. CASE Board!RefreshAPI
  <2>1. storePc = "publish" /\ storePc' = "idle" /\ api' = top /\ UNCHANGED <<players, top, file, tmp, saved, blind>>
    BY <1>5 DEF Board!RefreshAPI
  <2>2. Board!TypeOK'
    BY <1>1, <2>1, StoreTyped DEF Board!TypeOK
  <2>3. Board!TopDerived'
    BY <1>1, <2>1 DEF StoreInv, Board!TopDerived
  <2>4. Read(file') = Read(file)
    BY <2>1
  <2> QED BY <1>1, <2>1, <2>2, <2>3, <2>4 DEF StoreInv, Board!ServedCurrent
<1> QED BY <1>1, <1>3, <1>4, <1>5 DEF Board!WriteTmp, Board!Rename, Board!RefreshAPI, StoreInv

\* A crash leaves the file whole.
LEMMA StoreCrashes ==
  ASSUME StoreInv, Board!Crash
  PROVE  StoreInv'
<1>1. /\ storePc' = "down" /\ tmp' = Torn /\ players' = Board!NoPlayers /\ top' = <<>> /\ api' = <<>>
      /\ UNCHANGED <<file, saved, blind>>
  BY DEF Board!Crash
<1>2. Board!Memory' = Board!Empty /\ Board!Empty.top = top' /\ Board!Empty.players = players'
  BY <1>1 DEF Board!Memory, Board!Empty
<1>3. Board!TypeOK'
  BY <1>1, <1>2, EmptyIsDB, StoreTyped DEF Board!TypeOK
<1>4. Board!TopDerived'
  BY <1>1, <1>2, EmptyIsDB, StoreTyped DEF Board!TopDerived
<1> QED BY <1>1, <1>3, <1>4 DEF StoreInv, Board!ServedCurrent

\* A store that opens has what the file holds, or nothing.
LEMMA StoreOpens ==
  ASSUME StoreInv, Board!OpenStore
  PROVE  StoreInv' /\ Board!Memory' \in {Read(file), Board!Empty}
<1>1. storePc = "down" /\ storePc' = "idle" /\ UNCHANGED <<file, tmp>>
  BY DEF Board!OpenStore
<1>2. PICK readable \in BOOLEAN :
        /\ LET db == IF readable /\ file # None THEN file ELSE Board!Empty
           IN  players' = db.players /\ top' = db.top /\ api' = db.top
        /\ blind' = (blind \/ (file # None /\ ~readable))
        /\ saved' = (readable \/ file = None)
  BY DEF Board!OpenStore
<1> DEFINE db == IF readable /\ file # None THEN file ELSE Board!Empty
<1>3. Board!IsDB(db) /\ Board!ListOf(db.top, db.players)
  BY EmptyIsDB, StoreTyped
<1>4. players' = db.players /\ top' = db.top /\ api' = db.top
  BY <1>2
<1>5. Board!Memory' = db
  <2> HIDE DEF db
  <2>1. db = [players |-> db.players, top |-> db.top]
    BY <1>3, DBParts
  <2> QED BY <1>4, <2>1 DEF Board!Memory
<1>6. api' \in Seq(Board!TopEntry)
  <2> HIDE DEF db
  <2> QED BY <1>3, <1>4, DBParts
<1>7. Board!TypeOK'
  <2> HIDE DEF db
  <2> QED BY <1>1, <1>2, <1>3, <1>5, <1>6, StoreTyped DEF Board!TypeOK
<1>8. Board!TopDerived'
  <2> HIDE DEF db
  <2> QED BY <1>1, <1>3, <1>4, StoreTyped DEF Board!TopDerived
<1>9. Board!ServedCurrent'
  BY <1>4 DEF Board!ServedCurrent
<1>10. saved' => Board!Memory' = Read(file')
  BY <1>1, <1>2, <1>5 DEF Read
<1>11. file' # None /\ ~blind' => Board!Grows(file', Board!Memory')
  <2> SUFFICES ASSUME file' # None, ~blind' PROVE Board!Grows(file', Board!Memory')
    OBVIOUS
  <2>1. db = file /\ file' = file
    BY <1>1, <1>2
  <2> HIDE DEF db
  <2> QED BY <1>3, <1>5, <2>1, GrowsReflexive
<1>12. Board!Memory' \in {Read(file), Board!Empty}
  BY <1>5 DEF Read
<1> QED BY <1>1, <1>7, <1>8, <1>9, <1>10, <1>11, <1>12 DEF StoreInv

\* Every step of the store keeps the invariant.
LEMMA StoreNext == StoreInv /\ [Board!Next]_(Board!vars) => StoreInv'
<1> SUFFICES ASSUME StoreInv, [Board!Next]_(Board!vars) PROVE StoreInv'
  OBVIOUS
<1>1. CASE UNCHANGED Board!vars
  BY <1>1 DEF Board!vars, StoreInv, Board!TypeOK, Board!TopDerived, Board!ServedCurrent, Read, Board!Memory
<1> QED BY <1>1, StoreRemembers, StoreRecords, StorePersists, StoreCrashes, StoreOpens DEF Board!Next

\* The invariant of the store holds in every behaviour of it.
LEMMA StoreInvariance == Board!Spec => []StoreInv
  BY StoreBegins, StoreNext, PTL DEF Board!Spec

-----------------------------------------------------------------------------
(* Store: what it promises *)

\* Between operations the list, the page and the file agree with the statistics, but for
\* saves that failed (rebuildTop, persist, OpenStore).
THEOREM StoreStaysCurrent == Board!Spec => []Board!FileCurrent
<1>1. StoreInv => Board!FileCurrent
  BY DEF StoreInv, Board!FileCurrent, Board!FileCatchesUp, Read
<1> QED BY <1>1, StoreInvariance, PTL

\* What was saved is never lost to a crash or a failed save (Store.save).
THEOREM StoreNeverForgets == Board!Spec => Board!FileNeverForgets
<1>1. ASSUME StoreInv, [Board!Next]_(Board!vars)
      PROVE  [file # None => file' # None /\ (blind' \/ Board!Grows(file, file'))]_(Board!vars)
  <2> SUFFICES ASSUME file # None, Board!Next
               PROVE  file' # None /\ (blind' \/ Board!Grows(file, file'))
    BY <1>1
  <2>1. Board!IsDB(file) /\ Board!Grows(file, file)
    BY <1>1, StoreTyped, GrowsReflexive
  <2>2. CASE UNCHANGED file
    BY <2>1, <2>2
  <2>3. CASE Board!WriteTmp \/ Board!Rename \/ Board!RefreshAPI
    <3>1. storePc # "down" /\ blind' = blind /\ (UNCHANGED file \/ file' = Board!Memory)
      BY <1>1, <2>3, StorePersists
    <3>2. Board!Memory # None
      BY <1>1, StoreTyped, DBParts
    <3> QED BY <1>1, <2>2, <3>1, <3>2 DEF StoreInv
  <2> QED BY <2>2, <2>3
      DEF Board!Next, Board!RememberBird, Board!RecordRace, Board!Crash, Board!OpenStore
<1> QED BY <1>1, StoreInvariance, PTL DEF Board!Spec, Board!FileNeverForgets

\* The state file is only ever replaced by the whole of what memory holds (Store.save).
THEOREM StoreImplementsAtomicStore == Board!Spec => Board!ImplementsAtomicStore
<1> DEFINE mem == IF storePc # "down" THEN Board!Memory ELSE IF file = None THEN Board!Empty ELSE file
           disk == IF file = None THEN Board!Empty ELSE file
<1>1. Board!Init => Board!Atomic!Init
  BY DEF Board!Init, Board!Atomic!Init
<1>2. ASSUME StoreInv, [Board!Next]_(Board!vars)
      PROVE  [Board!Atomic!Next]_<<mem, disk>>
  <2>1. ASSUME NEW n \in Names, NEW b \in Birds, Board!RememberBird(n, b) PROVE Board!Atomic!Change
    <3>1. Board!Grows(Board!Memory, Board!Memory')
      BY <1>2, <2>1, StoreRemembers
    <3>2. storePc # "down" /\ storePc' # "down" /\ UNCHANGED file
      BY <2>1 DEF Board!RememberBird
    <3> QED BY <3>1, <3>2 DEF Board!Atomic!Change, Board!Grows
  <2>2. ASSUME NEW entries \in Board!Races, Board!RecordRace(entries) PROVE Board!Atomic!Change
    <3>1. Board!Grows(Board!Memory, Board!Memory')
      BY <1>2, <2>2, StoreRecords
    <3>2. storePc # "down" /\ storePc' # "down" /\ UNCHANGED file
      BY <2>2 DEF Board!RecordRace
    <3> QED BY <3>1, <3>2 DEF Board!Atomic!Change, Board!Grows
  <2>3. CASE Board!WriteTmp \/ Board!Rename \/ Board!RefreshAPI
    <3>1. /\ Board!Memory' = Board!Memory /\ storePc # "down" /\ storePc' # "down"
          /\ UNCHANGED file \/ file' = Board!Memory
      BY <1>2, <2>3, StorePersists
    <3>2. Board!Memory # None
      BY <1>2, StoreTyped, DBParts
    <3> QED BY <3>1, <3>2 DEF Board!Atomic!Next, Board!Atomic!Save
  <2>4. CASE Board!Crash
    BY <2>4 DEF Board!Crash, Board!Atomic!Next, Board!Atomic!Restart
  <2>5. CASE Board!OpenStore
    <3>1. Board!Memory' \in {Read(file), Board!Empty}
      BY <1>2, <2>5, StoreOpens
    <3>2. storePc' # "down" /\ UNCHANGED file
      BY <2>5 DEF Board!OpenStore
    <3> QED BY <3>1, <3>2 DEF Read, Board!Atomic!Next, Board!Atomic!Restart
  <2>6. CASE UNCHANGED Board!vars
    BY <2>6 DEF Board!vars, Board!Memory
  <2> QED BY <1>2, <2>1, <2>2, <2>3, <2>4, <2>5, <2>6 DEF Board!Next, Board!Atomic!Next
<1> QED BY <1>1, <1>2, StoreInvariance, PTL DEF Board!Spec, Board!ImplementsAtomicStore, Board!Atomic!Spec

-----------------------------------------------------------------------------
(* Feed: the inductive invariant *)

\* The newest snapshot that is through pushSnap.
Newest == IF feedPc = "read" THEN Len(nows) ELSE Len(nows) - 1

\* The reader holds the last snapshot read.
Holding == feedPc # "read" => nows # <<>> /\ hand.n = Len(nows) /\ hand.now = nows[Len(nows)]

\* The channel holds the newest ones, one after the other, all later than the last one
\* received; nothing is missing at its end but for the one a full channel made room for,
\* and that one finds the room.
ChanNewest ==
  /\ \A i \in 1..Len(chan) : chan[i].n = Newest - Len(chan) + i /\ chan[i].now = nows[chan[i].n]
  /\ taken <= Newest - Len(chan)
  /\ feedPc # "retry" /\ chan = <<>> => taken = Newest
  /\ feedPc = "retry" => Len(chan) < ChanCap

\* The ring holds snapshots that were received.
RingReceived ==
  /\ taken > 0 => ring # <<>>
  /\ \A i \in 1..Len(ring) : ring[i].n \in 1..taken /\ ring[i].now = nows[ring[i].n]

FeedInv ==
  View!TypeOK /\ Holding /\ ChanNewest /\ RingReceived /\ View!RingOrdered /\ View!RingCurrent

\* What the constants of the feed are, one fact each.
LEMMA FeedConstants ==
  /\ ChanCap \in Nat \ {0} /\ RingLen \in Nat \ {0} /\ SnapGap \in Nat
  /\ MaxSnaps \in Nat /\ MaxNow \in Nat /\ MaxBack \in Nat /\ None \notin View!Snap
  BY LocalAssumption DEF LocalAssumption, View!FeedAssumption

\* The feed begins with an empty channel and an empty ring.
LEMMA FeedBegins == View!Init => FeedInv
<1> SUFFICES ASSUME View!Init PROVE FeedInv
  OBVIOUS
<1>1. View!TypeOK
  BY FeedConstants DEF View!Init, View!TypeOK
<1>2. ring = <<>> /\ nows = <<>> /\ chan = <<>> /\ Len(ring) = 0 /\ Len(nows) = 0 /\ Len(chan) = 0
  BY DEF View!Init
<1>3. View!RingOrdered /\ View!RingCurrent
  BY <1>2 DEF View!Init, View!RingOrdered, View!RingCurrent
<1> QED BY <1>1, <1>2, <1>3
        DEF View!Init, FeedInv, Holding, ChanNewest, RingReceived, Newest

\* What the steps of the reader leave alone keeps what the ring says.
LEMMA RingStays ==
  ASSUME FeedInv, UNCHANGED <<ring, taken>>, Len(nows') \in Nat, Len(nows) <= Len(nows'),
         \A i \in 1..Len(nows) : nows'[i] = nows[i]
  PROVE  RingReceived' /\ View!RingOrdered' /\ View!RingCurrent'
<1>1. taken \in 0..Len(nows) /\ Len(nows) \in Nat /\ Len(ring) \in Nat
  BY DEF FeedInv, View!TypeOK
<1>2. RingReceived'
  BY <1>1 DEF FeedInv, RingReceived
<1>3. View!RingOrdered'
  BY DEF FeedInv, View!RingOrdered
<1>4. View!RingCurrent'
  BY <1>1 DEF FeedInv, View!RingCurrent, View!Last
<1> QED BY <1>2, <1>3, <1>4

\* The reader puts the newest snapshot at the channel's end.
LEMMA FeedReads ==
  ASSUME FeedInv, NEW now \in 1..MaxNow, View!Read(now)
  PROVE  FeedInv'
<1>1. /\ nows \in Seq(1..MaxNow) /\ Len(nows) \in Nat /\ Len(nows) < MaxSnaps /\ feedPc = "read"
      /\ chan \in Seq(View!Snap) /\ Len(chan) \in Nat /\ taken \in 0..Len(nows) /\ back \in 0..MaxBack
  BY DEF FeedInv, View!TypeOK, View!Read
<1>2. /\ nows' \in Seq(1..MaxNow) /\ Len(nows') = Len(nows) + 1 /\ nows' # <<>>
      /\ nows'[Len(nows')] = now
      /\ \A i \in 1..Len(nows) : nows'[i] = nows[i]
  BY <1>1 DEF View!Read
<1>3. hand' = [n |-> Len(nows'), now |-> now] /\ feedPc' = "send" /\ UNCHANGED <<chan, ring, taken>>
  BY DEF View!Read
<1>4. hand' \in View!Snap
  BY <1>1, <1>2, <1>3, FeedConstants DEF View!Snap
<1>5. back' \in 0..MaxBack
  BY <1>1, FeedConstants DEF View!Read
<1>6. View!TypeOK'
  BY <1>1, <1>2, <1>3, <1>4, <1>5, FeedConstants DEF FeedInv, View!TypeOK
<1>7. Holding'
  BY <1>2, <1>3 DEF Holding
<1>8. ChanNewest'
  <2>1. Newest = Len(nows) /\ Newest' = Len(nows)
    BY <1>1, <1>2, <1>3 DEF Newest
  <2>2. ASSUME NEW i \in 1..Len(chan) PROVE chan[i].n \in 1..Len(nows) /\ chan[i].n = Len(nows) - Len(chan) + i
    BY <1>1, <2>1 DEF FeedInv, ChanNewest, View!Snap
  <2> QED BY <1>1, <1>2, <1>3, <2>1, <2>2 DEF FeedInv, ChanNewest
<1>9. RingReceived' /\ View!RingOrdered' /\ View!RingCurrent'
  BY <1>1, <1>2, <1>3, RingStays
<1> QED BY <1>6, <1>7, <1>8, <1>9 DEF FeedInv

\* pushSnap's snapshot gets into the channel, as its last.
LEMMA FeedSends ==
  ASSUME FeedInv, feedPc \in {"send", "retry"}, Len(chan) < ChanCap, View!Sent,
         UNCHANGED <<ring, nows, taken, back>>
  PROVE  FeedInv'
<1>1. /\ nows \in Seq(1..MaxNow) /\ Len(nows) \in Nat /\ feedPc # "read"
      /\ chan \in Seq(View!Snap) /\ Len(chan) \in Nat /\ taken \in 0..Len(nows)
      /\ hand \in View!Snap /\ hand.n = Len(nows) /\ hand.now = nows[Len(nows)]
  BY DEF FeedInv, View!TypeOK, Holding
<1>2. /\ chan' \in Seq(View!Snap) /\ Len(chan') = Len(chan) + 1 /\ chan' # <<>>
      /\ chan'[Len(chan) + 1] = hand
      /\ \A i \in 1..Len(chan) : chan'[i] = chan[i]
      /\ feedPc' = "read" /\ hand' = None
  BY <1>1 DEF View!Sent
<1>3. View!TypeOK'
  BY <1>1, <1>2, FeedConstants DEF FeedInv, View!TypeOK
<1>4. Holding'
  BY <1>2 DEF Holding
<1>5. ChanNewest'
  <2>1. Newest = Len(nows) - 1 /\ Newest' = Len(nows)
    BY <1>1, <1>2 DEF Newest
  <2>2. ASSUME NEW i \in 1..Len(chan')
        PROVE  chan'[i].n = Newest' - Len(chan') + i /\ chan'[i].now = nows'[chan'[i].n]
    <3>1. CASE i = Len(chan) + 1
      BY <1>1, <1>2, <2>1, <3>1
    <3>2. CASE i \in 1..Len(chan)
      BY <1>1, <1>2, <2>1, <3>2 DEF FeedInv, ChanNewest
    <3> QED BY <1>1, <1>2, <3>1, <3>2
  <2> QED BY <1>1, <1>2, <2>1, <2>2 DEF FeedInv, ChanNewest
<1>6. RingReceived' /\ View!RingOrdered' /\ View!RingCurrent'
  BY <1>1, RingStays
<1> QED BY <1>3, <1>4, <1>5, <1>6 DEF FeedInv

\* A full channel makes room for it: the oldest goes, unless the loop took one.
LEMMA FeedDrops ==
  ASSUME FeedInv, View!Drop
  PROVE  FeedInv'
<1>1. /\ nows \in Seq(1..MaxNow) /\ Len(nows) \in Nat /\ feedPc = "drop"
      /\ chan \in Seq(View!Snap) /\ Len(chan) \in Nat /\ Len(chan) <= ChanCap /\ taken \in 0..Len(nows)
  BY DEF FeedInv, View!TypeOK, View!Drop
<1>2. feedPc' = "retry" /\ UNCHANGED <<hand, ring, nows, taken, back>>
  BY DEF View!Drop
<1>3. CASE chan = <<>>
  <2>1. chan' = chan /\ Len(chan) = 0
    BY <1>3 DEF View!Drop
  <2>2. View!TypeOK'
    BY <1>1, <1>2, <2>1 DEF FeedInv, View!TypeOK
  <2>3. Holding' /\ ChanNewest'
    BY <1>1, <1>2, <2>1, FeedConstants DEF FeedInv, Holding, ChanNewest, Newest
  <2> QED BY <1>1, <1>2, <2>2, <2>3, RingStays DEF FeedInv
<1>4. CASE chan # <<>>
  <2>1. /\ chan' \in Seq(View!Snap) /\ Len(chan') = Len(chan) - 1 /\ Len(chan) >= 1
        /\ \A i \in 1..Len(chan) - 1 : chan'[i] = chan[i + 1]
    BY <1>1, <1>4, TailShifts DEF View!Drop
  <2>2. View!TypeOK'
    BY <1>1, <1>2, <2>1, FeedConstants DEF FeedInv, View!TypeOK
  <2>3. Holding'
    BY <1>1, <1>2 DEF FeedInv, Holding
  <2>4. ChanNewest'
    <3>1. Newest' = Newest /\ Newest \in Int
      BY <1>1, <1>2 DEF Newest
    <3>2. ASSUME NEW i \in 1..Len(chan')
          PROVE  chan'[i].n = Newest' - Len(chan') + i /\ chan'[i].now = nows'[chan'[i].n]
      <4>1. i + 1 \in 1..Len(chan) /\ chan'[i] = chan[i + 1]
        BY <1>1, <2>1
      <4> QED BY <1>1, <1>2, <2>1, <3>1, <4>1 DEF FeedInv, ChanNewest
    <3> QED BY <1>1, <1>2, <2>1, <3>1, <3>2, FeedConstants DEF FeedInv, ChanNewest
  <2> QED BY <1>1, <1>2, <2>2, <2>3, <2>4, RingStays DEF FeedInv
<1> QED BY <1>3, <1>4

\* The ring rolls: a full one loses its oldest.
LEMMA RingRolls ==
  ASSUME ring \in Seq(View!Snap), Len(ring) <= RingLen, NEW x \in View!Snap,
         NEW all, all = Append(ring, x),
         ring' = SubSeq(all, IF Len(all) > RingLen THEN 2 ELSE 1, Len(all))
  PROVE  \E k \in {0, 1} :
           /\ ring' \in Seq(View!Snap) /\ Len(ring') \in Nat
           /\ Len(ring') = Len(ring) + 1 - k /\ Len(ring') >= 1 /\ Len(ring') <= RingLen
           /\ ring'[Len(ring')] = x /\ \A i \in 1..Len(ring') - 1 : ring'[i] = ring[i + k]
<1>1. /\ all \in Seq(View!Snap) /\ Len(all) = Len(ring) + 1 /\ Len(ring) \in Nat
      /\ all[Len(ring) + 1] = x /\ \A i \in 1..Len(ring) : all[i] = ring[i]
  OBVIOUS
<1>2. RingLen \in Nat \ {0}
  BY FeedConstants
<1>3. CASE Len(all) > RingLen
  <2>1. ring' = SubSeq(all, 2, Len(all)) /\ Len(ring) >= 1
    BY <1>1, <1>2, <1>3
  <2>2. /\ ring' \in Seq(View!Snap) /\ Len(ring') = Len(ring)
        /\ \A i \in 1..Len(ring) : ring'[i] = all[i + 1]
    BY <1>1, <2>1
  <2>3. ring'[Len(ring')] = x
    <3>1. Len(ring) \in 1..Len(ring)
      BY <1>1, <2>1
    <3> QED BY <1>1, <2>2, <3>1
  <2>4. \A i \in 1..Len(ring') - 1 : ring'[i] = ring[i + 1]
    BY <1>1, <2>2
  <2>5. Len(ring') = Len(ring) + 1 - 1
    BY <1>1, <2>2
  <2> QED BY <1>1, <2>1, <2>2, <2>3, <2>4, <2>5
<1>4. CASE ~(Len(all) > RingLen)
  <2>1. ring' = SubSeq(all, 1, Len(all)) /\ Len(ring) + 1 <= RingLen
    BY <1>1, <1>2, <1>4
  <2>2. /\ ring' \in Seq(View!Snap) /\ Len(ring') = Len(ring) + 1
        /\ \A i \in 1..Len(ring) + 1 : ring'[i] = all[i]
    BY <1>1, <2>1
  <2>3. ring'[Len(ring')] = x
    <3>1. Len(ring) + 1 \in 1..Len(ring) + 1
      BY <1>1
    <3> QED BY <1>1, <2>2, <3>1
  <2> PICK k \in {0, 1} : k = 0
    OBVIOUS
  <2>4. \A i \in 1..Len(ring') - 1 : ring'[i] = ring[i + k]
    BY <1>1, <2>2
  <2>5. Len(ring') = Len(ring) + 1 - k /\ Len(ring') \in Nat /\ Len(ring') >= 1 /\ Len(ring') <= RingLen
    BY <1>1, <2>1, <2>2
  <2> QED BY <2>2, <2>3, <2>4, <2>5
<1> QED BY <1>3, <1>4

\* What Ring.Push makes of the ring: a snapshot that is not later is ignored.
LEMMA PushKeepsOrder ==
  ASSUME FeedInv, NEW m \in taken + 1..Len(nows), NEW x \in View!Snap,
         x.n = m, x.now = nows[m], ring' = View!Pushed(x), taken' = m, nows' = nows
  PROVE  /\ ring' \in Seq(View!Snap) /\ Len(ring') <= RingLen
         /\ RingReceived' /\ View!RingOrdered' /\ View!RingCurrent'
<1>1. /\ ring \in Seq(View!Snap) /\ Len(ring) \in Nat /\ Len(ring) <= RingLen
      /\ nows \in Seq(1..MaxNow) /\ Len(nows) \in Nat /\ taken \in 0..Len(nows)
      /\ \A i \in 1..Len(nows) : nows[i] \in 1..MaxNow
      /\ \A i \in 1..Len(ring) : ring[i].n \in 1..taken /\ ring[i].now = nows[ring[i].n]
      /\ taken > 0 => ring # <<>>
  <2>1. /\ ring \in Seq(View!Snap) /\ Len(ring) <= RingLen
        /\ nows \in Seq(1..MaxNow) /\ taken \in 0..Len(nows)
    BY DEF FeedInv, View!TypeOK
  <2>2. Len(ring) \in Nat /\ Len(nows) \in Nat
    BY <2>1
  <2>3. \A i \in 1..Len(nows) : nows[i] \in 1..MaxNow
    BY <2>1, <2>2, FeedConstants
  <2> QED BY <2>1, <2>2, <2>3 DEF FeedInv, RingReceived
<1>2. CASE ring # <<>> /\ x.now <= ring[Len(ring)].now
  <2>1. ring' = ring /\ Len(ring) \in 1..Len(ring)
    BY <1>1, <1>2 DEF View!Pushed, View!Last
  <2>2. RingReceived'
    BY <1>1, <1>2, <2>1 DEF RingReceived
  <2>3. View!RingOrdered'
    BY <2>1 DEF FeedInv, View!RingOrdered
  <2>4. ~(\A i \in 1..m - 1 : nows[i] < nows[m])
    <3>1. ring[Len(ring)].n \in 1..m - 1 /\ ring[Len(ring)].now = nows[ring[Len(ring)].n]
      BY <1>1, <2>1
    <3>2. nows[ring[Len(ring)].n] \in Int /\ nows[m] \in Int
      BY <1>1, <3>1
    <3> QED BY <1>2, <3>1, <3>2
  <2>5. View!RingCurrent'
    BY <2>4 DEF View!RingCurrent
  <2> QED BY <1>1, <2>1, <2>2, <2>3, <2>5
<1>3. CASE ~(ring # <<>> /\ x.now <= ring[Len(ring)].now)
  <2> DEFINE all == Append(ring, x)
  <2>1. ring' = SubSeq(all, IF Len(all) > RingLen THEN 2 ELSE 1, Len(all))
    BY <1>3 DEF View!Pushed, View!Last
  <2> HIDE DEF all
  <2>2. PICK k \in {0, 1} :
          /\ ring' \in Seq(View!Snap) /\ Len(ring') \in Nat
          /\ Len(ring') = Len(ring) + 1 - k /\ Len(ring') >= 1 /\ Len(ring') <= RingLen
          /\ ring'[Len(ring')] = x /\ \A i \in 1..Len(ring') - 1 : ring'[i] = ring[i + k]
    BY <1>1, <2>1, RingRolls DEF all
  <2>3. RingReceived'
    <3>1. ASSUME NEW i \in 1..Len(ring') PROVE ring'[i].n \in 1..taken' /\ ring'[i].now = nows'[ring'[i].n]
      <4>1. CASE i = Len(ring')
        BY <1>1, <2>2, <4>1
      <4>2. CASE i \in 1..Len(ring') - 1
        <5>1. i + k \in 1..Len(ring) /\ ring'[i] = ring[i + k]
          BY <1>1, <2>2, <4>2
        <5> QED BY <1>1, <5>1
      <4> QED BY <1>1, <2>2, <4>1, <4>2
    <3>2. ring' # <<>>
      BY <2>2
    <3> QED BY <3>1, <3>2 DEF RingReceived
  <2>4. View!RingOrdered'
    <3>1. ASSUME NEW i \in 1..Len(ring') - 1
          PROVE  ring'[i].n < ring'[i + 1].n /\ ring'[i].now < ring'[i + 1].now
      <4>0. ring'[i] = ring[i + k]
        BY <2>2
      <4>1. i + k \in 1..Len(ring) /\ ring'[i] = ring[i + k]
        <5>1. i \in Nat /\ i >= 1 /\ i <= Len(ring') - 1
          BY <2>2
        <5>2. CASE k = 0
          BY <1>1, <2>2, <4>0, <5>1, <5>2
        <5>3. CASE k = 1
          BY <1>1, <2>2, <4>0, <5>1, <5>3
        <5> QED BY <5>2, <5>3
      <4>2. CASE i + 1 = Len(ring')
        <5>1. i + k = Len(ring) /\ ring # <<>> /\ ring'[i + 1] = x
          BY <1>1, <2>2, <4>1, <4>2
        <5>2. ring[Len(ring)] \in View!Snap
          BY <1>1, <5>1
        <5>3. ring[Len(ring)].n \in 1..taken /\ x.n = m /\ m \in taken + 1..Len(nows)
          BY <1>1, <5>1
        <5>4. ring[Len(ring)].now \in Int /\ x.now \in Int
          BY <5>2 DEF View!Snap
        <5> QED BY <1>1, <1>3, <4>1, <5>1, <5>3, <5>4
      <4>3. CASE i + 1 \in 1..Len(ring') - 1
        <5>1. i \in Nat /\ i >= 1 /\ i + 1 <= Len(ring') - 1 /\ k \in Nat
          BY <2>2, <4>3
        <5>2. i + k \in 1..Len(ring) - 1 /\ (i + 1) + k = (i + k) + 1
          <6>1. i + k <= Len(ring) - 1 /\ i + k >= 1 /\ i + k \in Nat
            BY <1>1, <2>2, <5>1
          <6>2. (i + 1) + k = (i + k) + 1
            BY <5>1
          <6> QED BY <1>1, <6>1, <6>2
        <5>3. ring'[i + 1] = ring[(i + 1) + k]
          BY <2>2, <4>3
        <5>4. ring'[i + 1] = ring[(i + k) + 1]
          BY <5>2, <5>3, Zenon
        <5> QED BY <4>1, <5>2, <5>4 DEF FeedInv, View!RingOrdered
      <4> QED BY <1>1, <2>2, <4>2, <4>3
    <3> QED BY <3>1 DEF View!RingOrdered
  <2>5. View!RingCurrent'
    BY <2>2 DEF View!RingCurrent, View!Last
  <2> QED BY <2>2, <2>3, <2>4, <2>5
<1> QED BY <1>2, <1>3

\* The render loop moves a snapshot from the channel to the ring, or drops it.
LEMMA FeedReceives ==
  ASSUME FeedInv, View!Receive
  PROVE  FeedInv'
<1>1. /\ nows \in Seq(1..MaxNow) /\ Len(nows) \in Nat /\ taken \in 0..Len(nows)
      /\ chan \in Seq(View!Snap) /\ Len(chan) \in Nat /\ Len(chan) <= ChanCap
      /\ feedPc \in {"read", "send", "drop", "retry"} /\ (feedPc # "read" => nows # <<>>)
  BY DEF FeedInv, View!TypeOK, Holding
<1>2. /\ chan # <<>> /\ ring' = View!Pushed(Head(chan)) /\ taken' = Head(chan).n /\ chan' = Tail(chan)
      /\ UNCHANGED <<feedPc, hand, nows, back>>
  BY DEF View!Receive
<1>3. /\ chan' \in Seq(View!Snap) /\ Len(chan') = Len(chan) - 1 /\ Len(chan) >= 1
      /\ Head(chan) = chan[1] /\ chan[1] \in View!Snap
      /\ \A i \in 1..Len(chan) - 1 : chan'[i] = chan[i + 1]
  BY <1>1, <1>2, TailShifts
<1>4. Newest \in Int /\ Newest <= Len(nows) /\ Newest' = Newest
  BY <1>1, <1>2 DEF Newest
<1> DEFINE m == Newest - Len(chan) + 1
<1>5. m \in taken + 1..Len(nows) /\ chan[1].n = m /\ chan[1].now = nows[m]
  BY <1>1, <1>3, <1>4 DEF FeedInv, ChanNewest
<1> HIDE DEF m
<1>6. /\ ring' \in Seq(View!Snap) /\ Len(ring') <= RingLen
      /\ RingReceived' /\ View!RingOrdered' /\ View!RingCurrent'
  BY <1>2, <1>3, <1>5, PushKeepsOrder
<1>7. taken' = m /\ m \in 0..Len(nows)
  BY <1>1, <1>2, <1>3, <1>5
<1>8. View!TypeOK'
  BY <1>1, <1>2, <1>3, <1>6, <1>7, FeedConstants DEF FeedInv, View!TypeOK
<1>9. Holding'
  BY <1>2 DEF FeedInv, Holding
<1>10. ChanNewest'
  <2>1. ASSUME NEW i \in 1..Len(chan')
        PROVE  chan'[i].n = Newest' - Len(chan') + i /\ chan'[i].now = nows'[chan'[i].n]
    <3>1. i + 1 \in 1..Len(chan) /\ chan'[i] = chan[i + 1]
      BY <1>1, <1>3
    <3>2. chan[i + 1].n = Newest - Len(chan) + (i + 1) /\ chan[i + 1].now = nows[chan[i + 1].n]
      BY <3>1 DEF FeedInv, ChanNewest
    <3>3. Newest - Len(chan) + (i + 1) = Newest' - Len(chan') + i
      BY <1>1, <1>3, <1>4
    <3> QED BY <1>2, <3>1, <3>2, <3>3
  <2>2. taken' = Newest' - Len(chan')
    BY <1>1, <1>3, <1>4, <1>7 DEF m
  <2>3. chan' = <<>> => taken' = Newest'
    BY <1>4, <2>2
  <2>4. feedPc' = "retry" => Len(chan') < ChanCap
    BY <1>1, <1>2, <1>3, FeedConstants DEF FeedInv, ChanNewest
  <2> QED BY <1>4, <1>3, <2>1, <2>2, <2>3, <2>4 DEF ChanNewest
<1> QED BY <1>6, <1>8, <1>9, <1>10 DEF FeedInv

\* Every step of the reader and of the render loop keeps the invariant.
LEMMA FeedNext == FeedInv /\ [View!Next]_(View!vars) => FeedInv'
<1> SUFFICES ASSUME FeedInv, [View!Next]_(View!vars) PROVE FeedInv'
  OBVIOUS
<1>1. CASE \E now \in 1..MaxNow : View!Read(now)
  BY <1>1, FeedReads
<1>2. CASE View!Send
  <2>1. CASE Len(chan) < ChanCap
    BY <1>2, <2>1, FeedSends DEF View!Send
  <2>2. CASE ~(Len(chan) < ChanCap)
    <3>1. feedPc = "send" /\ feedPc' = "drop" /\ UNCHANGED <<chan, hand, ring, nows, taken, back>>
      BY <1>2, <2>2 DEF View!Send
    <3>2. View!TypeOK'
      BY <3>1 DEF FeedInv, View!TypeOK
    <3>3. Len(nows) \in Nat
      BY DEF FeedInv, View!TypeOK
    <3>4. Holding' /\ ChanNewest'
      BY <3>1 DEF FeedInv, Holding, ChanNewest, Newest
    <3> QED BY <3>1, <3>2, <3>3, <3>4, RingStays DEF FeedInv
  <2> QED BY <2>1, <2>2
<1>3. CASE View!Drop
  BY <1>3, FeedDrops
<1>4. CASE View!Retry
  <2>1. feedPc = "retry" /\ Len(chan) < ChanCap
    BY <1>4 DEF View!Retry, FeedInv, ChanNewest
  <2> QED BY <1>4, <2>1, FeedSends DEF View!Retry
<1>5. CASE View!Receive
  BY <1>5, FeedReceives
<1>6. CASE UNCHANGED View!vars
  BY <1>6 DEF View!vars, FeedInv, View!TypeOK, Holding, ChanNewest, Newest, RingReceived,
              View!RingOrdered, View!RingCurrent, View!Last
<1> QED BY <1>1, <1>2, <1>3, <1>4, <1>5, <1>6 DEF View!Next

\* The invariant of the feed holds in every behaviour of it.
LEMMA FeedInvariance == View!Spec => []FeedInv
  BY FeedBegins, FeedNext, PTL DEF View!Spec

\* The newest snapshot of the ring that is not later than a time, if there is one.
At(u) == View!SelectLastInSeq(ring, LAMBDA s : s.now <= u)

\* The ring's newest is what it received last.
LEMMA AtIsNewest ==
  ASSUME ring \in Seq(View!Snap), NEW u \in Nat
  PROVE  /\ At(u) \in 0..Len(ring)
         /\ At(u) # 0 => ring[At(u)].now <= u
         /\ \A i \in 1..Len(ring) : i > At(u) => u < ring[i].now
<1> DEFINE I == {i \in 1..Len(ring) : ring[i].now <= u}
<1>1. At(u) = IF I # {} THEN View!Max(I) ELSE 0
  BY DEF At, View!SelectLastInSeq
<1>2. Len(ring) \in Nat /\ \A i \in 1..Len(ring) : ring[i].now \in Int
  <2>1. Len(ring) \in Nat /\ \A i \in 1..Len(ring) : ring[i] \in View!Snap
    OBVIOUS
  <2> QED BY <2>1, FeedConstants DEF View!Snap
<1>3. CASE I = {}
  BY <1>1, <1>2, <1>3
<1>4. CASE I # {}
  <2>1. I \subseteq 0..Len(ring)
    OBVIOUS
  <2> HIDE DEF I
  <2>2. \E x \in I : \A y \in I : x >= y
    BY <1>2, <1>4, <2>1, Greatest
  <2>3. View!Max(I) \in I /\ \A y \in I : View!Max(I) >= y
    BY <2>2 DEF View!Max
  <2>4. At(u) \in I /\ \A y \in I : At(u) >= y
    BY <1>1, <1>4, <2>3
  <2>5. ASSUME NEW i \in 1..Len(ring), i > At(u) PROVE u < ring[i].now
    <3>1. i \notin I /\ At(u) \in Int
      BY <1>2, <2>4, <2>5 DEF I
    <3> QED BY <1>2, <3>1 DEF I
  <2> QED BY <1>2, <2>4, <2>5 DEF I
<1> QED BY <1>3, <1>4

\* What Interp draws, by the place of that snapshot.
LEMMA InterpAt ==
  ASSUME FeedInv, ring # <<>>, NEW u \in Nat,
         NEW i, i = At(u),
         NEW a, a = (IF i = 0 THEN 1 ELSE i),
         NEW b, b = (IF i = 0 THEN 1 ELSE IF i < Len(ring) THEN i + 1 ELSE i),
         NEW span, span = ring[b].now - ring[a].now
  PROVE  /\ i \in 0..Len(ring) /\ a \in 1..Len(ring) /\ b \in 1..Len(ring)
         /\ View!Interp(u) = IF a = b \/ span > SnapGap
                               THEN [s0 |-> a, s1 |-> a, num |-> 0, span |-> 0]
                               ELSE [s0 |-> a, s1 |-> b, num |-> u - ring[a].now, span |-> span]
         /\ a # b => b = a + 1 /\ a = i
         /\ i # 0 => ring[i].now <= u
         /\ \A j \in 1..Len(ring) : j > i => u < ring[j].now
<1>1. ring \in Seq(View!Snap) /\ Len(ring) \in Nat /\ Len(ring) >= 1
  BY DEF FeedInv, View!TypeOK
<1>2. /\ i \in 0..Len(ring) /\ (i # 0 => ring[i].now <= u)
      /\ \A j \in 1..Len(ring) : j > i => u < ring[j].now
  BY <1>1, AtIsNewest
<1>3. a \in 1..Len(ring) /\ b \in 1..Len(ring) /\ (a # b => b = a + 1 /\ a = i)
  BY <1>1, <1>2
<1>4. View!Interp(u) = IF a = b \/ span > SnapGap
                         THEN [s0 |-> a, s1 |-> a, num |-> 0, span |-> 0]
                         ELSE [s0 |-> a, s1 |-> b, num |-> u - ring[a].now, span |-> span]
  BY DEF View!Interp, At
<1> QED BY <1>2, <1>3, <1>4

\* A frame lies between two snapshots of the ring.
LEMMA FramesAreBetween == FeedInv => View!FramesBetween
<1> SUFFICES ASSUME FeedInv, ring # <<>>, NEW t \in 0..MaxNow PROVE View!Between(t)
  BY DEF View!FramesBetween
<1>1. /\ ring \in Seq(View!Snap) /\ Len(ring) \in Nat /\ t \in Nat /\ t + 1 \in Nat
      /\ \A i \in 1..Len(ring) : ring[i].now \in Int
  <2>1. ring \in Seq(View!Snap) /\ Len(ring) \in Nat /\ t \in Nat /\ t + 1 \in Nat
    BY FeedConstants DEF FeedInv, View!TypeOK
  <2>2. \A i \in 1..Len(ring) : ring[i] \in View!Snap
    BY <2>1
  <2> QED BY <2>1, <2>2, FeedConstants DEF View!Snap
<1> DEFINE i == At(t)
           a == IF i = 0 THEN 1 ELSE i
           b == IF i = 0 THEN 1 ELSE IF i < Len(ring) THEN i + 1 ELSE i
           span == ring[b].now - ring[a].now
           v == View!Interp(t)
           i1 == At(t + 1)
           a1 == IF i1 = 0 THEN 1 ELSE i1
           b1 == IF i1 = 0 THEN 1 ELSE IF i1 < Len(ring) THEN i1 + 1 ELSE i1
           span1 == ring[b1].now - ring[a1].now
           v1 == View!Interp(t + 1)
<1>2. /\ i \in 0..Len(ring) /\ a \in 1..Len(ring) /\ b \in 1..Len(ring)
      /\ v = IF a = b \/ span > SnapGap
               THEN [s0 |-> a, s1 |-> a, num |-> 0, span |-> 0]
               ELSE [s0 |-> a, s1 |-> b, num |-> t - ring[a].now, span |-> span]
      /\ a # b => b = a + 1 /\ a = i
      /\ i # 0 => ring[i].now <= t
      /\ \A j \in 1..Len(ring) : j > i => t < ring[j].now
  <2> HIDE DEF i, v
  <2> QED BY <1>1, InterpAt DEF i, v
<1>3. /\ i1 \in 0..Len(ring) /\ a1 \in 1..Len(ring) /\ b1 \in 1..Len(ring)
      /\ v1 = IF a1 = b1 \/ span1 > SnapGap
                THEN [s0 |-> a1, s1 |-> a1, num |-> 0, span |-> 0]
                ELSE [s0 |-> a1, s1 |-> b1, num |-> (t + 1) - ring[a1].now, span |-> span1]
      /\ a1 # b1 => b1 = a1 + 1 /\ a1 = i1
      /\ i1 # 0 => ring[i1].now <= t + 1
      /\ \A j \in 1..Len(ring) : j > i1 => t + 1 < ring[j].now
  <2> HIDE DEF i1, v1
  <2> QED BY <1>1, InterpAt DEF i1, v1
<1>4. i <= i1
  <2>1. CASE i = 0
    BY <1>3, <2>1
  <2>2. CASE i # 0 /\ i > i1
    <3>1. i \in 1..Len(ring)
      BY <1>1, <1>2, <2>2
    <3>2. ring[i].now \in Int /\ ring[i].now <= t /\ t + 1 < ring[i].now
      BY <1>1, <1>2, <1>3, <2>2, <3>1
    <3> QED BY <1>1, <3>2
  <2> HIDE DEF i, i1
  <2> QED BY <1>1, <1>2, <1>3, <2>1, <2>2
<1>5. a <= a1
  <2> HIDE DEF i, i1
  <2> QED BY <1>1, <1>2, <1>3, <1>4
<1>6. CASE a = b \/ span > SnapGap
  <2>1. v.s0 = a /\ v.s1 = a /\ v.num = 0 /\ v.span = 0
    <3> HIDE DEF a, b, v, span
    <3> QED BY <1>2, <1>6
  <2>2. v1.s0 = a1 /\ v1.s1 \in {a1, b1} /\ v1.s1 >= a1
    <3> HIDE DEF a1, b1, v1, span1
    <3> QED BY <1>1, <1>3
  <2>3. ring[a].now <= t \/ a = 1
    <3> HIDE DEF i
    <3> QED BY <1>2
  <2> HIDE DEF a, b, v, span, a1, b1, v1, span1
  <2> QED BY <1>1, <1>2, <1>3, <1>5, <2>1, <2>2, <2>3 DEF View!Between, v, v1
<1>7. CASE a # b /\ ~(span > SnapGap)
  <2>1. v.s0 = a /\ v.s1 = b /\ v.num = t - ring[a].now /\ v.span = span
    <3> HIDE DEF a, b, v, span
    <3> QED BY <1>2, <1>7
  <2>2. b = a + 1 /\ a = i /\ i # 0 /\ ring[a].now <= t /\ t < ring[b].now
    <3>1. b = a + 1 /\ a = i
      <4> HIDE DEF a, b, span, v, i
      <4> QED BY <1>2, <1>7
    <3>2. i # 0 /\ ring[i].now <= t /\ t < ring[b].now
      <4> HIDE DEF a, b, span, v, i
      <4> QED BY <1>1, <1>2, <3>1
    <3> HIDE DEF a, b, i
    <3> QED BY <3>1, <3>2
  <2>3. v1.s0 = a1 /\ v1.s1 \in {a1, b1} /\ v1.s1 >= a1
    <3> HIDE DEF a1, b1, v1, span1
    <3> QED BY <1>1, <1>3
  <2>4. v1.s1 >= b
    <3>1. CASE i1 = i
      <4>1. a1 = a /\ b1 = b /\ span1 = span
        <5> HIDE DEF i, i1
        <5> QED BY <3>1
      <4>2. v1.s1 = b
        <5> HIDE DEF a, b, a1, b1, v1, v, span, span1
        <5> QED BY <1>3, <1>7, <4>1
      <4> HIDE DEF a, b, v1
      <4> QED BY <1>1, <1>2, <4>2
    <3>2. CASE i1 # i
      <4> HIDE DEF i, i1
      <4>1. a1 = i1 /\ i1 >= i + 1
        BY <1>1, <1>2, <1>3, <1>4, <2>2, <3>2
      <4> HIDE DEF a, b, a1, b1, v1
      <4> QED BY <1>1, <1>2, <1>3, <2>2, <2>3, <4>1
    <3> QED BY <3>1, <3>2
  <2>5. ring[a].now \in Int /\ ring[b].now \in Int
    <3> HIDE DEF a, b, i
    <3> QED BY <1>1, <1>2
  <2>6. span = ring[b].now - ring[a].now
    OBVIOUS
  <2> HIDE DEF a, b, v, span, a1, b1, v1, span1, i, i1
  <2>7. 0 <= v.num /\ v.num <= v.span
    BY <1>1, <2>1, <2>2, <2>5, <2>6
  <2>8. v1.s0 >= v.s0 /\ v1.s1 >= v.s1
    BY <1>1, <1>2, <1>3, <1>5, <2>1, <2>3, <2>4
  <2> QED BY <2>1, <2>2, <2>7, <2>8 DEF View!Between, v, v1
<1> QED BY <1>6, <1>7

\* The newest snapshot gets through, the ring stays in order and current, and frames are
\* drawn between two of its snapshots, however the loop and the reader interleave
\* (pushSnap, Ring.Push, Ring.Interp).
THEOREM FeedIsFaithful == View!Spec => []View!FramesFaithful
<1>1. FeedInv => View!NewestDelivered
  <2> SUFFICES ASSUME FeedInv, feedPc = "read"
               PROVE  IF chan = <<>> THEN taken = Len(nows) ELSE View!Last(chan).n = Len(nows)
    BY DEF View!NewestDelivered
  <2>1. Len(nows) \in Nat /\ Len(chan) \in Nat /\ chan \in Seq(View!Snap)
    BY DEF FeedInv, View!TypeOK
  <2>2. CASE chan = <<>>
    BY <2>2 DEF FeedInv, ChanNewest, Newest
  <2>3. CASE chan # <<>>
    <3>1. Len(chan) \in 1..Len(chan)
      BY <2>1, <2>3
    <3> QED BY <2>1, <2>3, <3>1 DEF FeedInv, ChanNewest, Newest, View!Last
  <2> QED BY <2>2, <2>3
<1>2. FeedInv => View!FramesFaithful
  BY <1>1, FramesAreBetween DEF FeedInv, View!FramesFaithful
<1> QED BY <1>2, FeedInvariance, PTL

-----------------------------------------------------------------------------
(* SkelLink: paths *)

\* The names a path is put together from.
PathNames == UNION {Links!ToSet(p) : p \in Links!Paths}

\* What the constants of skel-link are, one fact each.
LEMMA LinkConstants ==
  /\ IsFiniteSet(Links!Paths) /\ Links!Paths \subseteq Seq(PathNames)
  /\ \A p \in Links!Paths : p # <<>> /\ Links!Above(p) \subseteq SkelDirs
  /\ SkelDirs \cap SkelFiles = {} /\ Own \cap (SkelDirs \cup SkelFiles) = {}
  /\ CopyPaths \subseteq SkelDirs \cup SkelFiles
  /\ Links!Paths = SkelDirs \cup SkelFiles \cup Own /\ Links!SkelPaths = SkelDirs \cup SkelFiles
  BY LocalAssumption DEF LocalAssumption, Links!SkelLinkAssumption, Links!IsFiniteSet, IsFiniteSet,
                         PathNames, Links!Paths, Links!SkelPaths

\* The kinds of things at a path are different from each other.
LEMMA LinkKinds ==
  /\ Missing \notin {Dir, Mine, Ours, Theirs, Broken} \cup Links!Versions
  /\ Dir \notin {Mine, Ours, Theirs, Broken} \cup Links!Versions
  /\ Mine \notin {Ours, Theirs, Broken} \cup Links!Versions
  /\ Ours \notin {Theirs, Broken} \cup Links!Versions /\ Theirs # Broken
  /\ Theirs \notin Links!Versions /\ Broken \notin Links!Versions
  /\ MaxImage \in Nat /\ MaxEdits \in Nat
  BY LocalAssumption DEF LocalAssumption, Links!SkelLinkAssumption, Links!Links

\* A path of the tree is a sequence, and so is what is above it.
LEMMA PathTyped ==
  ASSUME NEW p \in Links!Paths
  PROVE  /\ p \in Seq(PathNames) /\ Len(p) \in Nat /\ Len(p) >= 1
         /\ Links!Above(p) \subseteq SkelDirs /\ Links!Above(p) \subseteq Links!Paths
<1>1. p \in Seq(PathNames) /\ p # <<>> /\ Links!Above(p) \subseteq SkelDirs
  BY LinkConstants
<1>2. SkelDirs \subseteq Links!Paths
  BY LinkConstants
<1>3. Len(p) \in Nat /\ Len(p) >= 1
  BY <1>1
<1> QED BY <1>1, <1>2, <1>3

\* A tree holds the paths that begin with its root.
LEMMA TreeByPrefix ==
  ASSUME NEW p \in Links!Paths, NEW q \in Links!Paths
  PROVE  q \in Links!Tree(p) <=> Len(p) <= Len(q) /\ \A i \in 1..Len(p) : p[i] = q[i]
<1>1. /\ p \in Seq(PathNames) /\ Len(p) \in Nat /\ q \in Seq(PathNames) /\ Len(q) \in Nat
  BY PathTyped
<1>2. Len(p) <= Len(q) => (Links!IsPrefix(p, q) <=> \A i \in 1..Len(p) : p[i] = q[i])
  <2> SUFFICES ASSUME Len(p) <= Len(q) PROVE Links!IsPrefix(p, q) <=> \A i \in 1..Len(p) : p[i] = q[i]
    OBVIOUS
  <2> DEFINE a == SubSeq(p, 1, Len(p))
             b == SubSeq(q, 1, Len(p))
  <2>1. a \in Seq(PathNames) /\ Len(a) = Len(p) /\ \A i \in 1..Len(p) : a[i] = p[i]
    BY <1>1
  <2>2. b \in Seq(PathNames) /\ Len(b) = Len(p) /\ \A i \in 1..Len(p) : b[i] = q[i]
    BY <1>1
  <2>3. Links!IsPrefix(p, q) <=> a = b
    BY DEF Links!IsPrefix
  <2> HIDE DEF a, b
  <2>4. a = b <=> \A i \in 1..Len(p) : a[i] = b[i]
    BY <1>1, <2>1, <2>2
  <2> QED BY <2>1, <2>2, <2>3, <2>4
<1>3. Len(p) = Len(q) /\ (\A i \in 1..Len(p) : p[i] = q[i]) => p = q
  BY <1>1
<1>4. q \in Links!Tree(p) <=> q = p \/ (Len(q) > Len(p) /\ Links!IsPrefix(p, q))
  BY DEF Links!Tree, Links!Below
<1>5. CASE Len(q) > Len(p)
  BY <1>1, <1>2, <1>4, <1>5
<1>6. CASE Len(q) = Len(p)
  BY <1>1, <1>3, <1>4, <1>6
<1>7. CASE Len(q) < Len(p)
  BY <1>1, <1>4, <1>7
<1> QED BY <1>1, <1>5, <1>6, <1>7

\* The order of paths, which is all that the proofs below use of them.
LEMMA TreeOrder ==
  /\ \A p \in Links!Paths : p \in Links!Tree(p) /\ Links!Tree(p) \subseteq Links!Paths
  /\ \A p, q, r \in Links!Paths :
       q \in Links!Tree(p) /\ r \in Links!Tree(q) => r \in Links!Tree(p)
  /\ \A p, q \in Links!Paths : q \in Links!Tree(p) /\ p \in Links!Tree(q) => p = q
  /\ \A p, q, r \in Links!Paths :
       r \in Links!Tree(p) /\ r \in Links!Tree(q) => p \in Links!Tree(q) \/ q \in Links!Tree(p)
  /\ \A p, q \in Links!Paths : p \in Links!Above(q) <=> q \in Links!Tree(p) /\ p # q
<1> USE PathTyped, TreeByPrefix
<1>1. ASSUME NEW p \in Links!Paths PROVE p \in Links!Tree(p) /\ Links!Tree(p) \subseteq Links!Paths
  BY DEF Links!Tree, Links!Below
<1>2. ASSUME NEW p \in Links!Paths, NEW q \in Links!Paths, NEW r \in Links!Paths,
             q \in Links!Tree(p), r \in Links!Tree(q)
      PROVE  r \in Links!Tree(p)
  <2>1. Len(p) <= Len(q) /\ Len(q) <= Len(r) /\ (\A i \in 1..Len(p) : p[i] = q[i])
        /\ \A i \in 1..Len(q) : q[i] = r[i]
    BY <1>2
  <2>2. Len(p) \in Nat /\ Len(q) \in Nat /\ Len(r) \in Nat
    OBVIOUS
  <2>3. Len(p) <= Len(r) /\ \A i \in 1..Len(p) : p[i] = r[i]
    BY <2>1, <2>2
  <2> QED BY <2>3
<1>3. ASSUME NEW p \in Links!Paths, NEW q \in Links!Paths, q \in Links!Tree(p), p \in Links!Tree(q)
      PROVE  p = q
  <2>1. Len(p) <= Len(q) /\ Len(q) <= Len(p) /\ \A i \in 1..Len(p) : p[i] = q[i]
    BY <1>3
  <2>2. p \in Seq(PathNames) /\ q \in Seq(PathNames) /\ Len(p) \in Nat /\ Len(q) \in Nat
    OBVIOUS
  <2> QED BY <2>1, <2>2
<1>4. ASSUME NEW p \in Links!Paths, NEW q \in Links!Paths, NEW r \in Links!Paths,
             r \in Links!Tree(p), r \in Links!Tree(q)
      PROVE  p \in Links!Tree(q) \/ q \in Links!Tree(p)
  <2>1. Len(p) <= Len(r) /\ Len(q) <= Len(r) /\ (\A i \in 1..Len(p) : p[i] = r[i])
        /\ \A i \in 1..Len(q) : q[i] = r[i]
    BY <1>4
  <2>2. Len(p) \in Nat /\ Len(q) \in Nat
    OBVIOUS
  <2>3. CASE Len(p) <= Len(q)
    <3>1. \A i \in 1..Len(p) : p[i] = q[i]
      BY <2>1, <2>2, <2>3
    <3> QED BY <2>3, <3>1
  <2>4. CASE Len(q) <= Len(p)
    <3>1. \A i \in 1..Len(q) : q[i] = p[i]
      BY <2>1, <2>2, <2>4
    <3> QED BY <2>4, <3>1
  <2> QED BY <2>2, <2>3, <2>4
<1>5. ASSUME NEW p \in Links!Paths, NEW q \in Links!Paths
      PROVE  p \in Links!Above(q) <=> q \in Links!Tree(p) /\ p # q
  <2>0. /\ p \in Seq(PathNames) /\ q \in Seq(PathNames) /\ Len(p) \in Nat /\ Len(q) \in Nat
        /\ Len(p) >= 1 /\ Len(q) >= 1
    OBVIOUS
  <2>1. ASSUME p \in Links!Above(q) PROVE q \in Links!Tree(p) /\ p # q
    <3>1. PICK n \in 1..Len(q) - 1 : p = SubSeq(q, 1, n)
      BY <2>1 DEF Links!Above
    <3>2. Len(p) = n /\ \A i \in 1..n : p[i] = q[i]
      BY <2>0, <3>1
    <3>3. Len(p) < Len(q) /\ \A i \in 1..Len(p) : p[i] = q[i]
      BY <2>0, <3>2
    <3> QED BY <2>0, <3>3
  <2>2. ASSUME q \in Links!Tree(p), p # q PROVE p \in Links!Above(q)
    <3>1. Len(p) <= Len(q) /\ \A i \in 1..Len(p) : p[i] = q[i]
      BY <2>2
    <3>2. Len(p) # Len(q)
      BY <2>0, <2>2, <3>1
    <3> DEFINE a == SubSeq(q, 1, Len(p))
    <3>3. a \in Seq(PathNames) /\ Len(a) = Len(p) /\ \A i \in 1..Len(p) : a[i] = q[i]
      BY <2>0, <3>1
    <3> HIDE DEF a
    <3>4. a = p
      BY <2>0, <3>1, <3>3
    <3>5. Len(p) \in 1..Len(q) - 1
      BY <2>0, <3>1, <3>2
    <3> QED BY <3>4, <3>5 DEF a, Links!Above
  <2> QED BY <2>1, <2>2
<1> QED BY <1>1, <1>2, <1>3, <1>4, <1>5

\* Below a file there is nothing.
LEMMA FilesAreLeaves ==
  ASSUME NEW p \in Links!Paths, p \notin SkelDirs, NEW q \in Links!Tree(p)
  PROVE  q = p
<1>1. q \in Links!Paths
  BY TreeOrder
<1>2. q # p => p \in Links!Above(q)
  BY <1>1, TreeOrder
<1> QED BY <1>1, <1>2, PathTyped

\* The paths a run starts with, and those it goes on with below a directory: each file
\* is at or below exactly one of them.
Roots == {p \in Links!SkelPaths : Len(p) = 1}

\* Working through a level's paths reaches all that is below the level.
LEMMA LevelCovers ==
  ASSUME NEW f \in Links!SkelPaths, NEW n \in 1..Len(f)
  PROVE  \E c \in Links!SkelPaths : Len(c) = n /\ f \in Links!Tree(c)
<1>0. f \in Links!Paths /\ f \in Seq(PathNames) /\ Len(f) \in Nat
  BY PathTyped, LinkConstants
<1>1. CASE n = Len(f)
  BY <1>0, <1>1, TreeOrder
<1>2. CASE n \in 1..Len(f) - 1
  <2> DEFINE c == SubSeq(f, 1, n)
  <2>1. c \in Links!Above(f)
    BY <1>2 DEF Links!Above
  <2>2. Len(c) = n
    BY <1>0, <1>2
  <2> HIDE DEF c
  <2>3. c \in Links!SkelPaths /\ c \in Links!Paths
    BY <1>0, <2>1, PathTyped, LinkConstants
  <2> QED BY <1>0, <2>1, <2>2, <2>3, TreeOrder
<1> QED BY <1>0, <1>1, <1>2

\* Different paths of a level have nothing below in common.
LEMMA LevelApart ==
  ASSUME NEW c \in Links!Paths, NEW d \in Links!Paths, Len(c) = Len(d), c \in Links!Tree(d)
  PROVE  c = d
<1>1. c \in Seq(PathNames) /\ d \in Seq(PathNames) /\ Len(c) \in Nat
  BY PathTyped
<1>2. \A i \in 1..Len(d) : d[i] = c[i]
  BY TreeByPrefix
<1> QED BY <1>1, <1>2

\* The roots reach every path of the image.
LEMMA RootsCover ==
  /\ Roots \subseteq Links!SkelPaths
  /\ \A f \in Links!SkelPaths : \E c \in Roots : f \in Links!Tree(c)
  /\ \A c, d \in Roots : c \in Links!Tree(d) => c = d
  /\ \A c \in Roots : Links!Above(c) = {}
<1>1. \A p \in Links!SkelPaths : p \in Links!Paths
  BY LinkConstants
<1>2. ASSUME NEW f \in Links!SkelPaths PROVE \E c \in Roots : f \in Links!Tree(c)
  <2>1. 1 \in 1..Len(f)
    BY <1>1, PathTyped
  <2> QED BY <2>1, LevelCovers DEF Roots
<1>3. \A c, d \in Roots : c \in Links!Tree(d) => c = d
  BY <1>1, LevelApart DEF Roots
<1>4. \A c \in Roots : Links!Above(c) = {}
  BY DEF Roots, Links!Above
<1> QED BY <1>2, <1>3, <1>4 DEF Roots

\* A directory's children reach all that is below it.
LEMMA ChildrenCover ==
  ASSUME NEW p \in Links!Paths
  PROVE  /\ Links!Children(p) \subseteq Links!SkelPaths
         /\ \A c \in Links!Children(p) : c \in Links!Tree(p) /\ c # p
         /\ \A f \in Links!SkelPaths : f \in Links!Tree(p) /\ f # p =>
              \E c \in Links!Children(p) : f \in Links!Tree(c)
         /\ \A c, d \in Links!Children(p) : c \in Links!Tree(d) => c = d
         /\ \A c \in Links!Children(p) : Links!Above(c) \subseteq Links!Above(p) \cup {p}
<1>1. \A q \in Links!SkelPaths : q \in Links!Paths
  BY LinkConstants
<1>2. ASSUME NEW c \in Links!Children(p)
      PROVE  c \in Links!SkelPaths /\ c \in Links!Tree(p) /\ Len(c) = Len(p) + 1
  BY DEF Links!Children, Links!Tree
<1>3. Len(p) \in Nat
  BY PathTyped
<1>4. ASSUME NEW f \in Links!SkelPaths, f \in Links!Tree(p), f # p
      PROVE  \E c \in Links!Children(p) : f \in Links!Tree(c)
  <2>1. f \in Links!Paths /\ Len(f) \in Nat
    BY <1>1, PathTyped
  <2>2. Len(f) > Len(p)
    BY <1>4, <2>1 DEF Links!Tree, Links!Below
  <2> DEFINE n == Len(p) + 1
  <2>0. n \in 1..Len(f)
    BY <1>3, <2>1, <2>2
  <2> HIDE DEF n
  <2>9. \E c \in Links!SkelPaths : Len(c) = n /\ f \in Links!Tree(c)
    BY <2>0, LevelCovers
  <2>3. PICK c \in Links!SkelPaths : Len(c) = Len(p) + 1 /\ f \in Links!Tree(c)
    BY <2>9 DEF n
  <2>4. c \in Links!Paths /\ (c \in Links!Tree(p) \/ p \in Links!Tree(c))
    BY <1>1, <1>4, <2>1, <2>3, TreeOrder
  <2>5. ~(p \in Links!Tree(c))
    BY <1>3, <2>3, <2>4, TreeByPrefix
  <2>6. c \in Links!Children(p)
    BY <1>3, <2>3, <2>4, <2>5 DEF Links!Children, Links!Tree
  <2> QED BY <2>3, <2>6
<1>5. \A c, d \in Links!Children(p) : c \in Links!Tree(d) => c = d
  BY <1>1, <1>2, LevelApart
<1>6. ASSUME NEW c \in Links!Children(p), NEW a \in Links!Above(c)
      PROVE  a \in Links!Above(p) \cup {p}
  <2>1. c \in Links!Paths /\ a \in Links!Paths
    BY <1>1, <1>2, PathTyped
  <2>2. c \in Links!Tree(a) /\ a # c
    BY <2>1, TreeOrder
  <2>3. a \in Links!Tree(p) \/ p \in Links!Tree(a)
    BY <1>2, <2>1, <2>2, TreeOrder
  <2>4. CASE p \in Links!Tree(a)
    BY <2>1, <2>4, TreeOrder
  <2>5. CASE a \in Links!Tree(p) /\ a # p
    <3>1. Len(a) > Len(p)
      BY <2>5 DEF Links!Tree, Links!Below
    <3>2. Len(a) < Len(c)
      <4>1. Len(a) <= Len(c)
        BY <2>1, <2>2, TreeByPrefix
      <4>2. Len(a) # Len(c)
        BY <2>1, <2>2, LevelApart
      <4> QED BY <2>1, <4>1, <4>2, PathTyped
    <3> QED BY <1>2, <1>3, <2>1, <3>1, <3>2, PathTyped
  <2> QED BY <2>3, <2>4, <2>5
<1>7. ASSUME NEW c \in Links!Children(p) PROVE c # p
  BY <1>2, <1>3
<1> QED BY <1>2, <1>4, <1>5, <1>6, <1>7

\* A set as a list: everything, once.
LEMMA Listed ==
  ASSUME NEW S, IsFiniteSet(S), NEW s, s = Links!SetToSeq(S)
  PROVE  /\ s \in Seq(S) /\ Len(s) \in Nat
         /\ \A x \in S : \E i \in 1..Len(s) : s[i] = x
         /\ \A i, j \in 1..Len(s) : i # j => s[i] # s[j]
<1> DEFINE n == Cardinality(S)
<1>1. n \in Nat /\ ExistsBijection(1..n, S)
  BY FS_CardinalityType
<1>2. Links!Cardinality(S) = n
  BY DEF Links!Cardinality, Cardinality
<1> HIDE DEF n
<1>3. \E f \in [1..n -> S] : Links!IsInjective(f)
  BY <1>1 DEF ExistsBijection, Bijection, Injection, IsInjective, Links!IsInjective
<1>4. s \in [1..n -> S] /\ Links!IsInjective(s)
  BY <1>2, <1>3 DEF Links!SetToSeq
<1>5. s \in Injection(1..n, S)
  BY <1>4 DEF Injection, IsInjective, Links!IsInjective
<1>6. IsFiniteSet(1..n) /\ Cardinality(1..n) = n
  BY <1>1, FS_Interval
<1>7. s \in Surjection(1..n, S)
  BY <1>5, <1>6, FS_Injection DEF n
<1>8. s \in Seq(S) /\ Len(s) = n
  BY <1>1, <1>4
<1> QED BY <1>1, <1>4, <1>7, <1>8 DEF Surjection, Links!IsInjective

-----------------------------------------------------------------------------
(* SkelLink: the inductive invariant *)

\* What AllFollow asks for a file.
Settled(f) ==
  \/ Links!Followed(f) \/ Links!AtOrBelowCopy(f)
  \/ \E q \in Links!Above(f) \cup {f} : home[q] \in {Theirs, Mine}
  \/ home[f] \in Links!Versions \ {image[f]}

\* A file the run will still come to.
Waiting(f) ==
  \/ \E i \in 1..Len(todo) : f \in Links!Tree(todo[i])
  \/ op # <<>> /\ f \in Links!Tree(op.path)

\* Directories and versions of the image stand only where skel has such a thing.
Kinds ==
  \A p \in Links!Paths : /\ home[p] = Dir => p \in SkelDirs
                         /\ home[p] \in Links!Versions => p \in SkelFiles

\* What is to be handled, and what is being replaced, has no part in common, and is in
\* directories, which a dry run only thinks of.
Disjoint ==
  /\ \A i, j \in 1..Len(todo) : i # j => todo[i] \notin Links!Tree(todo[j])
  /\ op # <<>> => \A i \in 1..Len(todo) :
       todo[i] \notin Links!Tree(op.path) /\ op.path \notin Links!Tree(todo[i])

InDirectories ==
  /\ ~dry => \A i \in 1..Len(todo) : \A q \in Links!Above(todo[i]) : home[q] = Dir
  /\ op # <<>> => ~dry /\ \A q \in Links!Above(op.path) : home[q] = Dir

\* What is being replaced: all the user has in it was written after the comparison, but
\* for what --force may take.
Replacing ==
  /\ linkPc = "remove" =>
       \A q \in Links!Tree(op.path) : home[q] = Mine /\ q \notin op.late =>
         force /\ (q \notin Own \/ Links!AtOrBelowCopy(q))
  /\ linkPc = "put" =>
       home[op.path] # Dir /\ \A q \in Links!Tree(op.path) : home[q] # Missing => q \in op.late
  /\ op # <<>> /\ op.copy => op.path \in CopyPaths

\* Whatever the run has been to is settled, and stays so until something happens.
Following ==
  /\ clean /\ (linkPc = "idle" \/ dry) => \A f \in SkelFiles : Settled(f)
  /\ linkPc # "idle" /\ ~dry => \A f \in SkelFiles : Settled(f) \/ Waiting(f)

LinkInv == Links!TypeOK /\ Kinds /\ Disjoint /\ InDirectories /\ Replacing /\ Following

\* A home as it can be, of the right type, with every thing in directories.
Standing(h) ==
  /\ h \in [Links!Paths -> {Missing, Dir, Mine} \cup Links!Links \cup Links!Versions]
  /\ \A p \in Links!Paths : h[p] # Missing => \A q \in Links!Above(p) : h[q] = Dir
  /\ \A p \in Links!Paths : /\ h[p] = Dir => p \in SkelDirs
                            /\ h[p] \in Links!Versions => p \in SkelFiles

\* The invariant's home is one that can be.
LEMMA HomeStands == LinkInv => Standing(home)
  BY DEF LinkInv, Links!TypeOK, Kinds, Standing

\* Below what is no directory there is nothing.
LEMMA NothingBelow ==
  ASSUME Standing(home), NEW p \in Links!Paths, home[p] # Dir, NEW q \in Links!Tree(p), q # p
  PROVE  home[q] = Missing
<1>1. q \in Links!Paths /\ p \in Links!Above(q)
  BY TreeOrder
<1> QED BY <1>1 DEF Standing

\* What is outside a tree has the paths above it outside, too.
LEMMA AboveOutside ==
  ASSUME NEW p \in Links!Paths, NEW q \in Links!Paths, q \notin Links!Tree(p), NEW a \in Links!Above(q)
  PROVE  a \in Links!Paths /\ a \notin Links!Tree(p)
<1>1. a \in Links!Paths
  BY PathTyped
<1>2. q \in Links!Tree(a)
  BY <1>1, TreeOrder
<1> QED BY <1>1, <1>2, TreeOrder

\* What is above a path in a tree is in the tree or above its root.
LEMMA AboveInside ==
  ASSUME NEW p \in Links!Paths, NEW q \in Links!Tree(p), NEW a \in Links!Above(q)
  PROVE  a \in Links!Paths /\ (a \in Links!Tree(p) \/ a \in Links!Above(p))
<1>0. q \in Links!Paths
  BY TreeOrder
<1>1. a \in Links!Paths
  BY <1>0, PathTyped
<1>2. q \in Links!Tree(a)
  BY <1>0, <1>1, TreeOrder
<1>3. a \in Links!Tree(p) \/ p \in Links!Tree(a)
  BY <1>0, <1>1, <1>2, TreeOrder
<1>4. a = p => a \in Links!Tree(p)
  BY TreeOrder
<1> QED BY <1>1, <1>3, <1>4, TreeOrder

\* The root of a tree is above no path above it.
LEMMA AboveIsOutside ==
  ASSUME NEW p \in Links!Paths, NEW a \in Links!Above(p)
  PROVE  a \in Links!Paths /\ a \notin Links!Tree(p)
<1>1. a \in Links!Paths
  BY PathTyped
<1> QED BY <1>1, TreeOrder

\* What a removal leaves behind, whole or in part, is such a home.
LEMMA WithoutStands ==
  ASSUME Standing(home), NEW p \in Links!Paths, NEW S \in SUBSET Links!Tree(p),
         \A q \in S : Links!Above(q) \cap Links!Tree(p) \subseteq S
  PROVE  Standing(Links!Without(Links!Tree(p) \ S))
<1> DEFINE h == Links!Without(Links!Tree(p) \ S)
<1>1. \A q \in Links!Paths : h[q] = IF q \in Links!Tree(p) \ S THEN Missing ELSE home[q]
  BY DEF Links!Without
<1>2. h \in [Links!Paths -> {Missing, Dir, Mine} \cup Links!Links \cup Links!Versions]
  BY DEF Standing, Links!Without
<1> HIDE DEF h
<1>3. ASSUME NEW q \in Links!Paths, h[q] # Missing, NEW a \in Links!Above(q) PROVE h[a] = Dir
  <2>1. home[a] = Dir /\ a \in Links!Paths
    BY <1>1, <1>3, PathTyped DEF Standing
  <2>2. CASE q \in S
    BY <1>1, <2>1, <2>2
  <2>3. CASE q \notin Links!Tree(p)
    BY <1>1, <2>1, <2>3, AboveOutside
  <2> QED BY <1>1, <1>3, <2>2, <2>3
<1>4. \A q \in Links!Paths : /\ h[q] = Dir => q \in SkelDirs
                             /\ h[q] \in Links!Versions => q \in SkelFiles
  BY <1>1, LinkKinds DEF Standing
<1> QED BY <1>2, <1>3, <1>4 DEF h, Standing

\* So is what a copy leaves, whole or in part, in directories and where there is nothing.
LEMMA CopiedStands ==
  ASSUME Standing(home), NEW p \in Links!Paths, NEW S \in SUBSET Links!Tree(p),
         \A q \in S : Links!Above(q) \cap Links!Tree(p) \subseteq S,
         \A q \in Links!Above(p) : home[q] = Dir,
         image \in [SkelFiles -> Links!Versions]
  PROVE  Standing(Links!Copied(S))
<1> DEFINE h == Links!Copied(S)
<1>1. \A q \in Links!Paths : h[q] = IF q \in S \cap SkelFiles THEN image[q]
                                    ELSE IF q \in S \cap SkelDirs THEN Dir ELSE home[q]
  BY DEF Links!Copied
<1>2. h \in [Links!Paths -> {Missing, Dir, Mine} \cup Links!Links \cup Links!Versions]
  BY DEF Standing, Links!Copied
<1> HIDE DEF h
<1>5. \A q \in SkelFiles : image[q] \in Links!Versions
  OBVIOUS
<1>3. ASSUME NEW q \in Links!Paths, h[q] # Missing, NEW a \in Links!Above(q) PROVE h[a] = Dir
  <2>1. a \in Links!Paths /\ a \in SkelDirs /\ a \notin SkelFiles
    BY PathTyped, LinkConstants
  <2>2. home[a] = Dir => h[a] = Dir
    BY <1>1, <2>1
  <2>3. CASE q \in S
    <3>1. a \in Links!Tree(p) \/ a \in Links!Above(p)
      BY <2>3, AboveInside
    <3>2. CASE a \in Links!Tree(p)
      BY <1>1, <2>1, <2>3, <3>2
    <3> QED BY <2>2, <3>1, <3>2
  <2>4. CASE q \notin S
    BY <1>1, <1>3, <2>2, <2>4 DEF Standing
  <2> QED BY <2>3, <2>4
<1>4. \A q \in Links!Paths : /\ h[q] = Dir => q \in SkelDirs
                             /\ h[q] \in Links!Versions => q \in SkelFiles
  BY <1>1, <1>5, LinkKinds DEF Standing
<1> QED BY <1>2, <1>3, <1>4 DEF h, Standing

\* And one with one thing put in a directory, where there was none.
LEMMA OneStands ==
  ASSUME Standing(home), NEW p \in Links!Paths, home[p] # Dir,
         NEW x \in {Dir, Mine} \cup Links!Links, x = Dir => p \in SkelDirs,
         \A q \in Links!Above(p) : home[q] = Dir
  PROVE  Standing([home EXCEPT ![p] = x])
<1> DEFINE h == [home EXCEPT ![p] = x]
<1>0. home \in [Links!Paths -> {Missing, Dir, Mine} \cup Links!Links \cup Links!Versions]
  BY DEF Standing
<1>1. \A q \in Links!Paths : h[q] = IF q = p THEN x ELSE home[q]
  BY <1>0
<1>2. h \in [Links!Paths -> {Missing, Dir, Mine} \cup Links!Links \cup Links!Versions]
  BY <1>0
<1> HIDE DEF h
<1>3. ASSUME NEW q \in Links!Paths, h[q] # Missing, NEW a \in Links!Above(q) PROVE h[a] = Dir
  <2>1. a \in Links!Paths /\ home[a] = Dir
    BY <1>1, <1>3, PathTyped DEF Standing
  <2>2. a # p
    BY <2>1
  <2> QED BY <1>1, <2>1, <2>2
<1>4. x \notin Links!Versions
  BY LinkKinds DEF Links!Links
<1>5. \A q \in Links!Paths : /\ h[q] = Dir => q \in SkelDirs
                             /\ h[q] \in Links!Versions => q \in SkelFiles
  BY <1>1, <1>4 DEF Standing
<1> QED BY <1>2, <1>3, <1>5 DEF h, Standing

\* What is settled outside a tree stays so, whatever happens within.
LEMMA SettledOutside ==
  ASSUME NEW p \in Links!Paths, \A q \in Links!Paths : q \notin Links!Tree(p) => home'[q] = home[q],
         image' = image, NEW f \in SkelFiles, f \notin Links!Tree(p), Settled(f)
  PROVE  Settled(f)'
<1>1. f \in Links!Paths
  BY LinkConstants
<1>2. \A q \in Links!Above(f) \cup {f} : home'[q] = home[q]
  BY <1>1, AboveOutside
<1> QED BY <1>2 DEF Settled, Links!Followed, Links!AtOrBelowCopy, Links!Above, Links!Tree,
                    Links!Below, Links!Versions, Links!Paths, Links!SkelPaths

-----------------------------------------------------------------------------
(* SkelLink: a run *)

\* skel-link begins with a home of the user's own.
LEMMA LinkBegins == Links!Init => LinkInv
<1> SUFFICES ASSUME Links!Init PROVE LinkInv
  OBVIOUS
<1> USE DEF Links!Init
<1>1. 0 \in Links!Versions /\ edits \in 0..MaxEdits
  BY LinkKinds DEF Links!Versions
<1>2. Standing(home)
  <2>1. CASE home = [p \in Links!Paths |-> Missing]
    BY <2>1, LinkKinds DEF Standing
  <2>2. CASE home = [p \in Links!Paths |-> CASE p \in SkelDirs -> Dir [] p \in SkelFiles -> 0
                                             [] OTHER -> Missing]
    <3>1. \A p \in Links!Paths : home[p] = IF p \in SkelDirs THEN Dir
                                           ELSE IF p \in SkelFiles THEN 0 ELSE Missing
      BY <2>2, LinkConstants
    <3>2. home \in [Links!Paths -> {Missing, Dir, Mine} \cup Links!Links \cup Links!Versions]
      BY <1>1, <2>2, LinkConstants
    <3>3. \A p \in Links!Paths : \A q \in Links!Above(p) : home[q] = Dir
      BY <3>1, PathTyped
    <3>4. \A p \in Links!Paths : /\ home[p] = Dir => p \in SkelDirs
                                 /\ home[p] \in Links!Versions => p \in SkelFiles
      <4> HIDE DEF Links!Init
      <4> QED BY <1>1, <3>1, LinkKinds
    <3> HIDE DEF Links!Init
    <3> QED BY <3>2, <3>3, <3>4 DEF Standing
  <2> QED BY <2>1, <2>2
<1>3. image \in [SkelFiles -> Links!Versions]
  BY <1>1
<1>4. Links!TypeOK /\ Kinds
  <2>1. op = <<>> /\ linkPc = "idle" /\ todo = <<>> /\ todo \in Seq(Links!SkelPaths)
    OBVIOUS
  <2>2. dry \in BOOLEAN /\ force \in BOOLEAN /\ clean \in BOOLEAN
    OBVIOUS
  <2> QED BY <1>1, <1>2, <1>3, <2>1, <2>2, Zenon DEF Standing, Links!TypeOK, Kinds
<1> QED BY <1>4 DEF LinkInv, Disjoint, InDirectories, Replacing, Following

\* A run begins with all of the image before it.
LEMMA LinkStarts ==
  ASSUME LinkInv, NEW d \in BOOLEAN, NEW f \in BOOLEAN, Links!Start(d, f)
  PROVE  LinkInv'
<1> USE DEF Links!Start
<1>1. op = <<>> /\ op' = <<>>
  BY DEF LinkInv, Links!TypeOK
<1>2. todo' = Links!SetToSeq(Roots)
  BY DEF Roots
<1>3. IsFiniteSet(Roots)
  <2>1. Roots \subseteq Links!Paths
    BY RootsCover, LinkConstants
  <2> QED BY <2>1, LinkConstants, FS_Subset
<1>4. /\ todo' \in Seq(Roots) /\ Len(todo') \in Nat
      /\ \A x \in Roots : \E i \in 1..Len(todo') : todo'[i] = x
      /\ \A i, j \in 1..Len(todo') : i # j => todo'[i] # todo'[j]
  BY <1>2, <1>3, Listed
<1>5. \A i \in 1..Len(todo') : todo'[i] \in Roots
  BY <1>4
<1>6. todo' \in Seq(Links!SkelPaths)
  BY <1>4, <1>5, RootsCover
<1>7. Links!TypeOK'
  BY <1>1, <1>6 DEF LinkInv, Links!TypeOK, Links!Above, Links!Versions, Links!Paths, Links!SkelPaths,
                    Links!Links
<1>8. Kinds'
  BY DEF LinkInv, Kinds, Links!Versions, Links!Paths, Links!SkelPaths
<1>9. Disjoint'
  <2>1. \A i, j \in 1..Len(todo') : i # j => todo'[i] \notin Links!Tree(todo'[j])
    BY <1>4, <1>5, RootsCover
  <2> QED BY <1>1, <2>1 DEF Disjoint, Links!Tree, Links!Below, Links!Paths, Links!SkelPaths
<1>10. InDirectories'
  <2>1. \A i \in 1..Len(todo') : Links!Above(todo'[i]) = {}
    BY <1>5, RootsCover
  <2> QED BY <1>1, <2>1 DEF InDirectories, Links!Above
<1>11. Replacing'
  BY <1>1 DEF Replacing
<1>12. \A g \in SkelFiles : Settled(g)' <=> Settled(g)
  BY DEF Settled, Links!Followed, Links!AtOrBelowCopy, Links!Above, Links!Tree,
         Links!Below, Links!Versions, Links!Paths, Links!SkelPaths
<1>13. \A g \in SkelFiles : Waiting(g)'
  <2> SUFFICES ASSUME NEW g \in SkelFiles PROVE \E i \in 1..Len(todo') : g \in Links!Tree(todo'[i])
    BY DEF Waiting, Links!Tree, Links!Below, Links!Paths, Links!SkelPaths
  <2>1. g \in Links!SkelPaths
    BY LinkConstants
  <2>2. PICK x \in Roots : g \in Links!Tree(x)
    BY <2>1, RootsCover
  <2>3. PICK i \in 1..Len(todo') : todo'[i] = x
    BY <1>4
  <2> QED BY <2>2, <2>3
<1>14. Following'
  BY <1>12, <1>13 DEF LinkInv, Following
<1> QED BY <1>7, <1>8, <1>9, <1>10, <1>11, <1>14 DEF LinkInv

\* A run ends with nothing left to do.
LEMMA LinkFinishes == ASSUME LinkInv, Links!Finish PROVE LinkInv'
<1> USE DEF Links!Finish, Links!runVars
<1>1. op = <<>> /\ op' = <<>> /\ todo' = <<>> /\ home' = home /\ dry' = dry
  BY DEF LinkInv, Links!TypeOK
<1>2. Links!TypeOK'
  BY <1>1 DEF LinkInv, Links!TypeOK, Links!Above, Links!Versions, Links!Paths, Links!SkelPaths,
              Links!Links
<1>3. Kinds'
  BY DEF LinkInv, Kinds, Links!Versions, Links!Paths, Links!SkelPaths
<1>4. Disjoint' /\ InDirectories' /\ Replacing'
  BY <1>1 DEF Disjoint, InDirectories, Replacing
<1>5. \A g \in SkelFiles : Settled(g)' <=> Settled(g)
  BY DEF Settled, Links!Followed, Links!AtOrBelowCopy, Links!Above, Links!Tree,
         Links!Below, Links!Versions, Links!Paths, Links!SkelPaths
<1>6. \A g \in SkelFiles : ~Waiting(g)
  BY <1>1 DEF Waiting
<1>7. Following'
  <2>1. dry \in BOOLEAN /\ clean \in BOOLEAN
    BY DEF LinkInv, Links!TypeOK
  <2> QED BY <1>5, <1>6, <2>1, Zenon DEF LinkInv, Following
<1> QED BY <1>2, <1>3, <1>4, <1>7 DEF LinkInv

\* The path at hand and those after it.
LEMMA AtHand ==
  ASSUME LinkInv, NEW p, Links!At(p)
  PROVE  /\ p \in Links!SkelPaths /\ p \in Links!Paths /\ op = <<>>
         /\ ~dry => \A q \in Links!Above(p) : home[q] = Dir
         /\ Tail(todo) \in Seq(Links!SkelPaths) /\ Len(Tail(todo)) \in Nat
         /\ \A i \in 1..Len(Tail(todo)) :
              /\ Tail(todo)[i] \in Links!Paths
              /\ Tail(todo)[i] \notin Links!Tree(p) /\ p \notin Links!Tree(Tail(todo)[i])
              /\ ~dry => \A q \in Links!Above(Tail(todo)[i]) : home[q] = Dir
         /\ \A i, j \in 1..Len(Tail(todo)) :
              i # j => Tail(todo)[i] \notin Links!Tree(Tail(todo)[j])
         /\ \A f : Waiting(f) => f \in Links!Tree(p)
                                 \/ \E i \in 1..Len(Tail(todo)) : f \in Links!Tree(Tail(todo)[i])
<1> DEFINE rest == Tail(todo)
<1>1. todo \in Seq(Links!SkelPaths) /\ todo # <<>> /\ p = Head(todo) /\ linkPc = "handle"
  BY DEF LinkInv, Links!TypeOK, Links!At
<1>2. op = <<>>
  BY <1>1 DEF LinkInv, Links!TypeOK
<1>3. Len(todo) \in Nat /\ 1 \in 1..Len(todo) /\ p = todo[1]
  BY <1>1
<1>4. rest \in Seq(Links!SkelPaths) /\ Len(rest) = Len(todo) - 1
      /\ \A i \in 1..Len(rest) : rest[i] = todo[i + 1]
  BY <1>1
<1> HIDE DEF rest
<1>5. \A i \in 1..Len(rest) : i + 1 \in 1..Len(todo) /\ i + 1 # 1
  BY <1>3, <1>4
<1>6. \A i, j \in 1..Len(rest) : i # j => i + 1 # j + 1
  OBVIOUS
<1>7. \A i \in 1..Len(todo) : todo[i] \in Links!SkelPaths
  BY <1>1
<1>8. \A x \in Links!SkelPaths : x \in Links!Paths
  BY LinkConstants
<1>9. Disjoint /\ InDirectories
  BY DEF LinkInv
<1>10. \A i \in 1..Len(rest) :
              /\ rest[i] \in Links!Paths
              /\ rest[i] \notin Links!Tree(p) /\ p \notin Links!Tree(rest[i])
              /\ ~dry => \A q \in Links!Above(rest[i]) : home[q] = Dir
  BY <1>3, <1>4, <1>5, <1>7, <1>8, <1>9 DEF Disjoint, InDirectories
<1>11. \A i, j \in 1..Len(rest) : i # j => rest[i] \notin Links!Tree(rest[j])
  BY <1>4, <1>5, <1>6, <1>9 DEF Disjoint
<1>12. ~dry => \A q \in Links!Above(p) : home[q] = Dir
  BY <1>3, <1>9 DEF InDirectories
<1>13. ASSUME NEW f, Waiting(f)
       PROVE  f \in Links!Tree(p) \/ \E i \in 1..Len(rest) : f \in Links!Tree(rest[i])
  <2>1. PICK i \in 1..Len(todo) : f \in Links!Tree(todo[i])
    BY <1>2, <1>13 DEF Waiting
  <2>2. CASE i = 1
    BY <1>3, <2>1, <2>2
  <2>3. CASE i # 1
    <3>1. i - 1 \in 1..Len(rest) /\ (i - 1) + 1 = i
      BY <1>3, <1>4, <2>1, <2>3
    <3> QED BY <1>4, <2>1, <3>1
  <2> QED BY <2>2, <2>3
<1>14. Len(rest) \in Nat
  BY <1>3, <1>4
<1> QED BY <1>2, <1>3, <1>4, <1>7, <1>8, <1>10, <1>11, <1>12, <1>13, <1>14 DEF rest

\* What leaves the home as it is leaves what is settled settled.
LEMMA SettledStays ==
  ASSUME home' = home, image' = image, NEW f
  PROVE  Settled(f)' <=> Settled(f)
  BY DEF Settled, Links!Followed, Links!AtOrBelowCopy, Links!Above, Links!Tree,
         Links!Below, Links!Versions, Links!Paths, Links!SkelPaths

\* A path that is left as it is is settled if it has to be.
LEMMA LinkLeaves ==
  ASSUME LinkInv, NEW p, Links!At(p), Links!Leave,
         ~dry => \A f \in SkelFiles : f \in Links!Tree(p) => Settled(f)
  PROVE  LinkInv'
<1> DEFINE rest == Tail(todo)
<1>1. /\ todo' = rest /\ linkPc' = linkPc /\ linkPc = "handle" /\ op' = op /\ op = <<>> /\ dry' = dry
      /\ home' = home /\ image' = image /\ clean' = clean /\ force' = force /\ edits' = edits
  BY AtHand DEF Links!Leave, Links!At
<1>2. Links!TypeOK'
  BY <1>1, AtHand DEF LinkInv, Links!TypeOK, Links!Above, Links!Versions, Links!Paths,
                      Links!SkelPaths, Links!Links
<1>3. Kinds'
  BY <1>1 DEF LinkInv, Kinds, Links!Versions, Links!Paths, Links!SkelPaths
<1>4. Disjoint' /\ InDirectories' /\ Replacing'
  BY <1>1, AtHand DEF Disjoint, InDirectories, Replacing, Links!Above, Links!Tree, Links!Below,
                      Links!Paths, Links!SkelPaths
<1>5. \A f : Settled(f)' <=> Settled(f)
  BY <1>1, SettledStays
<1>6. ~dry => \A f \in SkelFiles : Settled(f) \/ Waiting(f)'
  <2> SUFFICES ASSUME ~dry, NEW f \in SkelFiles, ~Settled(f) PROVE Waiting(f)'
    OBVIOUS
  <2>1. Waiting(f)
    BY <1>1 DEF LinkInv, Following
  <2>2. \E i \in 1..Len(rest) : f \in Links!Tree(rest[i])
    BY <2>1, AtHand
  <2> QED BY <1>1, <2>2 DEF Waiting, Links!Tree, Links!Below, Links!Paths, Links!SkelPaths
<1>7. Following'
  BY <1>1, <1>5, <1>6 DEF LinkInv, Following
<1> QED BY <1>2, <1>3, <1>4, <1>7 DEF LinkInv

\* What is to be replaced was not the user's.
LEMMA LinkReplaces ==
  ASSUME LinkInv, NEW p, NEW exists \in BOOLEAN, NEW copy \in BOOLEAN,
         Links!At(p), Links!Replace(p, exists, copy),
         copy => p \in CopyPaths, ~exists => home[p] = Missing,
         exists /\ ~dry => \A q \in Links!Tree(p) :
           home[q] = Mine => force /\ (q \notin Own \/ Links!AtOrBelowCopy(q))
  PROVE  LinkInv'
<1> DEFINE rest == Tail(todo)
           job == [path |-> p, copy |-> copy, late |-> {}]
<1>1. /\ todo' = rest /\ linkPc = "handle" /\ op = <<>> /\ dry' = dry /\ dry \in BOOLEAN
      /\ home' = home /\ image' = image /\ clean' = clean /\ force' = force /\ edits' = edits
  BY AtHand DEF Links!Replace, Links!At, LinkInv, Links!TypeOK
<1>2. CASE dry
  <2>1. linkPc' = linkPc /\ op' = op
    BY <1>2 DEF Links!Replace
  <2>2. Links!Leave
    BY <1>1, <2>1 DEF Links!Leave
  <2> QED BY <1>2, <2>2, LinkLeaves
<1>3. CASE ~dry
  <2>1. op' = job /\ linkPc' = IF exists THEN "remove" ELSE "put"
    BY <1>3 DEF Links!Replace
  <2>2. /\ job \in [path: Links!SkelPaths, copy: BOOLEAN, late: SUBSET Links!Paths] /\ job # <<>>
        /\ job.path = p /\ job.copy = copy /\ job.late = {}
    BY AtHand
  <2> HIDE DEF job
  <2>3. op' # <<>> /\ op'.path = p /\ op'.copy = copy /\ op'.late = {}
    BY <2>1, <2>2
  <2>4. Links!TypeOK'
    <3>1. op' \in [path: Links!SkelPaths, copy: BOOLEAN, late: SUBSET Links!Paths]
      BY <2>1, <2>2
    <3>2. linkPc' \in {"remove", "put"}
      BY <2>1
    <3>3. todo' \in Seq(Links!SkelPaths)
      BY <1>1, AtHand
    <3> QED BY <1>1, <2>3, <3>1, <3>2, <3>3
         DEF LinkInv, Links!TypeOK, Links!Above, Links!Versions, Links!Paths,
             Links!SkelPaths, Links!Links
  <2>5. Kinds'
    BY <1>1 DEF LinkInv, Kinds, Links!Versions, Links!Paths, Links!SkelPaths
  <2>6. Disjoint' /\ InDirectories'
    <3>1. \A i, j \in 1..Len(rest) : i # j => rest[i] \notin Links!Tree(rest[j])
      BY AtHand
    <3>2. \A i \in 1..Len(rest) :
            rest[i] \notin Links!Tree(p) /\ p \notin Links!Tree(rest[i])
              /\ \A q \in Links!Above(rest[i]) : home[q] = Dir
      BY <1>3, AtHand
    <3>3. \A q \in Links!Above(p) : home[q] = Dir
      BY <1>3, AtHand
    <3> HIDE DEF rest
    <3>4. Disjoint'
      BY <1>1, <2>3, <3>1, <3>2 DEF Disjoint, Links!Tree, Links!Below, Links!Paths, Links!SkelPaths
    <3>5. InDirectories'
      BY <1>1, <1>3, <2>3, <3>2, <3>3 DEF InDirectories, Links!Above
    <3> QED BY <3>4, <3>5
  <2>7. Replacing'
    <3>1. CASE exists
      <4>1. linkPc' = "remove"
        BY <2>1, <3>1
      <4> QED BY <1>1, <1>3, <2>3, <3>1, <4>1
           DEF Replacing, Links!AtOrBelowCopy, Links!Tree, Links!Below, Links!Paths, Links!SkelPaths
    <3>2. CASE ~exists
      <4>1. linkPc' = "put" /\ home[p] = Missing /\ Missing # Dir
        BY <2>1, <3>2, LinkKinds
      <4>2. \A q \in Links!Tree(p) : home[q] = Missing
        BY <4>1, AtHand, HomeStands, NothingBelow
      <4> QED BY <1>1, <2>3, <4>1, <4>2
           DEF Replacing, Links!Tree, Links!Below, Links!Paths, Links!SkelPaths
    <3> QED BY <3>1, <3>2
  <2>8. \A f : Settled(f)' <=> Settled(f)
    BY <1>1, SettledStays
  <2>9. \A f \in SkelFiles : Settled(f) \/ Waiting(f)'
    <3> SUFFICES ASSUME NEW f \in SkelFiles, ~Settled(f) PROVE Waiting(f)'
      OBVIOUS
    <3>1. Waiting(f)
      BY <1>1, <1>3 DEF LinkInv, Following
    <3>2. f \in Links!Tree(p) \/ \E i \in 1..Len(rest) : f \in Links!Tree(rest[i])
      BY <3>1, AtHand
    <3> QED BY <1>1, <2>3, <3>2 DEF Waiting, Links!Tree, Links!Below, Links!Paths, Links!SkelPaths
  <2>10. Following'
    <3>1. linkPc' # "idle" /\ ~dry'
      BY <1>1, <1>3, <2>1
    <3> QED BY <2>8, <2>9, <3>1 DEF Following
  <2> QED BY <2>4, <2>5, <2>6, <2>7, <2>10 DEF LinkInv
<1> QED BY <1>2, <1>3

\* A directory is merged child by child.
LEMMA LinkMerges ==
  ASSUME LinkInv, NEW p, NEW create \in BOOLEAN, Links!At(p), Links!Merge(p, create),
         p \in SkelDirs, IF create THEN home[p] = Missing ELSE home[p] = Dir
  PROVE  LinkInv'
<1> DEFINE rest == Tail(todo)
           new == Links!SetToSeq(Links!Children(p))
           n == Len(new)
<1>1. /\ todo' = new \o rest /\ linkPc' = linkPc /\ linkPc = "handle" /\ op' = op /\ op = <<>>
      /\ dry' = dry /\ dry \in BOOLEAN /\ image' = image /\ clean' = clean /\ force' = force
      /\ edits' = edits /\ home' = IF create /\ ~dry THEN [home EXCEPT ![p] = Dir] ELSE home
  BY AtHand DEF Links!Merge, Links!At, LinkInv, Links!TypeOK
<1>2. IsFiniteSet(Links!Children(p)) /\ Links!Children(p) \subseteq Links!SkelPaths
  <2>1. Links!Children(p) \subseteq Links!Paths /\ Links!Children(p) \subseteq Links!SkelPaths
    BY AtHand, ChildrenCover, LinkConstants
  <2> QED BY <2>1, LinkConstants, FS_Subset
<1>3. /\ new \in Seq(Links!Children(p)) /\ n \in Nat
      /\ \A x \in Links!Children(p) : \E i \in 1..n : new[i] = x
      /\ \A i, j \in 1..n : i # j => new[i] # new[j]
  BY <1>2, Listed
<1> HIDE DEF new
<1>4. new \in Seq(Links!SkelPaths) /\ \A i \in 1..n : new[i] \in Links!Children(p)
  BY <1>2, <1>3
<1>5. rest \in Seq(Links!SkelPaths) /\ Len(rest) \in Nat
  BY AtHand
<1> HIDE DEF rest
<1>6. /\ todo' \in Seq(Links!SkelPaths) /\ Len(todo') = n + Len(rest)
      /\ \A i \in 1..Len(todo') : todo'[i] = IF i <= n THEN new[i] ELSE rest[i - n]
  BY <1>1, <1>3, <1>4, <1>5
<1>7. Standing(home') /\ \A q \in Links!Paths : home'[q] = Dir <=> home[q] = Dir \/ (q = p /\ ~dry)
  <2>1. Standing(home)
    BY HomeStands
  <2>2. CASE create /\ ~dry
    <3>1. home' = [home EXCEPT ![p] = Dir] /\ home[p] # Dir
      BY <1>1, <2>2, LinkKinds
    <3>2. Standing(home')
      BY <2>1, <2>2, <3>1, AtHand, OneStands
    <3> QED BY <2>1, <2>2, <3>1, <3>2 DEF Standing
  <2>3. CASE create /\ dry
    BY <1>1, <2>1, <2>3
  <2>4. CASE ~create
    BY <1>1, <2>1, <2>4
  <2> QED BY <2>2, <2>3, <2>4
<1>8. \A q \in Links!Paths : home'[q] # home[q] => q = p /\ home[q] = Missing
  BY <1>1, LinkKinds DEF LinkInv, Links!TypeOK
<1>9. \A i \in 1..Len(rest) : /\ rest[i] \in Links!Paths
                              /\ rest[i] \notin Links!Tree(p) /\ p \notin Links!Tree(rest[i])
                              /\ ~dry => \A q \in Links!Above(rest[i]) : home[q] = Dir
  BY AtHand DEF rest
<1>10. \A i, j \in 1..Len(rest) : i # j => rest[i] \notin Links!Tree(rest[j])
  BY AtHand DEF rest
<1>11. ASSUME NEW i \in 1..n
       PROVE  new[i] \in Links!Paths /\ new[i] \in Links!Tree(p) /\ new[i] # p
  BY <1>4, AtHand, ChildrenCover, LinkConstants
<1>12. ASSUME NEW i \in 1..n, NEW j \in 1..Len(rest)
       PROVE  new[i] \notin Links!Tree(rest[j]) /\ rest[j] \notin Links!Tree(new[i])
  <2>1. new[i] \in Links!Paths /\ rest[j] \in Links!Paths /\ p \in Links!Paths
        /\ new[i] \in Links!Tree(p)
    BY <1>9, <1>11, AtHand
  <2>2. rest[j] \notin Links!Tree(p) /\ p \notin Links!Tree(rest[j])
    BY <1>9
  <2>3. rest[j] \notin Links!Tree(new[i])
    BY <2>1, <2>2, TreeOrder
  <2>4. new[i] \notin Links!Tree(rest[j])
    BY <2>1, <2>2, TreeOrder
  <2> QED BY <2>3, <2>4
<1>13. ASSUME NEW i \in 1..n, NEW j \in 1..n, i # j PROVE new[i] \notin Links!Tree(new[j])
  <2>1. new[i] \in Links!Children(p) /\ new[j] \in Links!Children(p) /\ new[i] # new[j]
    BY <1>3, <1>4, <1>13
  <2> QED BY <2>1, AtHand, ChildrenCover
<1>14. Links!TypeOK' /\ Kinds'
  BY <1>1, <1>6, <1>7 DEF Standing, LinkInv, Kinds, Links!TypeOK, Links!Above, Links!Versions,
       Links!Paths, Links!SkelPaths, Links!Links
<1>15. Disjoint'
  <2>1. ASSUME NEW i \in 1..Len(todo'), NEW j \in 1..Len(todo'), i # j
        PROVE  todo'[i] \notin Links!Tree(todo'[j])
    <3>0. /\ i \in Nat /\ j \in Nat /\ n \in Nat /\ Len(rest) \in Nat
          /\ i <= n => i \in 1..n
          /\ j <= n => j \in 1..n
          /\ i > n => i - n \in 1..Len(rest)
          /\ j > n => j - n \in 1..Len(rest)
          /\ i - n # j - n
      BY <1>3, <1>5, <1>6, <2>1
    <3>1. CASE i <= n /\ j <= n
      BY <1>6, <1>13, <2>1, <3>0, <3>1
    <3>2. CASE i <= n /\ j > n
      BY <1>6, <1>12, <3>0, <3>2
    <3>3. CASE i > n /\ j <= n
      BY <1>6, <1>12, <3>0, <3>3
    <3>4. CASE i > n /\ j > n
      BY <1>6, <1>10, <3>0, <3>4
    <3> QED BY <3>0, <3>1, <3>2, <3>3, <3>4
  <2> QED BY <1>1, <2>1 DEF Disjoint, Links!Tree, Links!Below, Links!Paths, Links!SkelPaths
<1>16. InDirectories'
  <2>1. ASSUME ~dry, NEW i \in 1..Len(todo'), NEW q \in Links!Above(todo'[i])
        PROVE  home'[q] = Dir
    <3>0. i \in Nat /\ n \in Nat /\ (i <= n => i \in 1..n) /\ (i > n => i - n \in 1..Len(rest))
      BY <1>3, <1>5, <1>6
    <3>1. CASE i <= n
      <4>1. new[i] \in Links!Children(p) /\ q \in Links!Above(new[i])
        BY <1>4, <1>6, <3>0, <3>1, <2>1
      <4>2. q \in Links!Above(p) \cup {p} /\ q \in Links!Paths
        BY <4>1, AtHand, ChildrenCover, PathTyped
      <4>3. q = p \/ home[q] = Dir
        BY <2>1, <4>2, AtHand
      <4>4. p \in Links!Paths /\ (home[p] = Dir \/ ~dry)
        BY <2>1, AtHand
      <4> QED BY <1>7, <2>1, <4>2, <4>3
    <3>2. CASE i > n
      <4>1. q \in Links!Above(rest[i - n]) /\ i - n \in 1..Len(rest)
        BY <1>6, <3>0, <3>2
      <4>2. home[q] = Dir /\ q \in Links!Paths
        BY <1>9, <2>1, <4>1, PathTyped
      <4> QED BY <1>7, <4>2
    <3> QED BY <3>0, <3>1, <3>2
  <2> QED BY <1>1, <2>1 DEF InDirectories, Links!Above
<1>17. Replacing'
  BY <1>1 DEF Replacing
<1>18. ASSUME NEW f \in SkelFiles PROVE Settled(f) => Settled(f)'
  <2>1. f \in Links!Paths /\ f # p /\ Links!Above(f) \subseteq Links!Paths
    BY LinkConstants, PathTyped
  <2>2. \A q \in Links!Above(f) \cup {f} : home[q] # Missing => home'[q] = home[q]
    BY <1>8, <2>1
  <2>3. home'[f] = home[f]
    BY <1>8, <2>1
  <2>4. Missing \notin {Ours, Theirs, Mine}
    BY LinkKinds
  <2>5. image' = image
    BY <1>1
  <2> HIDE DEF rest
  <2> QED BY <2>2, <2>3, <2>4, <2>5
       DEF Settled, Links!Followed, Links!AtOrBelowCopy, Links!Above, Links!Tree,
           Links!Below, Links!Versions, Links!Paths, Links!SkelPaths
<1>19. ~dry => \A f \in SkelFiles : Settled(f) \/ Waiting(f)'
  <2> SUFFICES ASSUME ~dry, NEW f \in SkelFiles, ~Settled(f) PROVE Waiting(f)'
    OBVIOUS
  <2>1. Waiting(f)
    BY <1>1 DEF LinkInv, Following
  <2>2. f \in Links!Tree(p) \/ \E i \in 1..Len(rest) : f \in Links!Tree(rest[i])
    BY <2>1, AtHand DEF rest
  <2>3. f \in Links!SkelPaths /\ f # p
    BY LinkConstants
  <2>4. \E i \in 1..Len(todo') : f \in Links!Tree(todo'[i])
    <3>1. CASE f \in Links!Tree(p)
      <4>1. PICK c \in Links!Children(p) : f \in Links!Tree(c)
        BY <2>3, <3>1, AtHand, ChildrenCover
      <4>2. PICK i \in 1..n : new[i] = c
        BY <1>3
      <4>3. i \in 1..Len(todo') /\ todo'[i] = c
        BY <1>3, <1>5, <1>6, <4>2
      <4> QED BY <4>1, <4>3
    <3>2. CASE \E i \in 1..Len(rest) : f \in Links!Tree(rest[i])
      <4>1. PICK i \in 1..Len(rest) : f \in Links!Tree(rest[i])
        BY <3>2
      <4>2. i + n \in 1..Len(todo') /\ ~(i + n <= n) /\ (i + n) - n = i
        BY <1>3, <1>5, <1>6
      <4>3. todo'[i + n] = rest[i]
        BY <1>6, <4>2
      <4> QED BY <4>1, <4>2, <4>3
    <3> QED BY <2>2, <3>1, <3>2
  <2> QED BY <2>4 DEF Waiting, Links!Tree, Links!Below, Links!Paths, Links!SkelPaths
<1>20. Following'
  <2>1. linkPc' # "idle" /\ dry' = dry /\ clean' = clean /\ linkPc # "idle" /\ dry \in BOOLEAN
    BY <1>1
  <2>2. CASE dry
    BY <1>18, <2>1, <2>2 DEF LinkInv, Following
  <2>3. CASE ~dry
    BY <1>18, <1>19, <2>1, <2>3 DEF Following
  <2> QED BY <2>1, <2>2, <2>3
<1> QED BY <1>14, <1>15, <1>16, <1>17, <1>20 DEF LinkInv

\* The path at hand is left, replaced or gone into, and each for a reason.
LEMMA LinkHandles == ASSUME LinkInv, Links!Handle PROVE LinkInv'
<1>0. PICK p \in Links!SkelPaths :
        Links!At(p) /\ (Links!HandleLink(p) \/ Links!HandleCopyPath(p)
                        \/ Links!HandleExisting(p) \/ Links!HandleMissing(p))
  BY DEF Links!Handle
<1>1. p \in Links!Paths /\ p \notin Own /\ p \in Links!Tree(p)
  BY AtHand, LinkConstants, TreeOrder
<1>2. Standing(home)
  BY HomeStands
<1>3. \A f \in SkelFiles : f \in Links!Tree(p) => p \in Links!Above(f) \cup {f}
  BY <1>1, TreeOrder, LinkConstants
<1>4. ASSUME home[p] # Dir, home[p] # Mine, NEW q \in Links!Tree(p) PROVE home[q] # Mine
  <2>1. Missing # Mine
    BY LinkKinds
  <2> QED BY <1>1, <1>2, <1>4, <2>1, NothingBelow
<1>5. CASE Links!HandleLink(p)
  <2>1. CASE home[p] = Broken
    <3>1. Links!Replace(p, TRUE, FALSE)
      BY <1>5, <2>1 DEF Links!HandleLink
    <3>2. home[p] # Dir /\ home[p] # Mine
      BY <2>1, LinkKinds
    <3>3. \A q \in Links!Tree(p) : home[q] # Mine
      BY <1>4, <3>2
    <3>4. TRUE \in BOOLEAN /\ FALSE \in BOOLEAN
      OBVIOUS
    <3> QED BY <1>0, <3>1, <3>3, <3>4, LinkReplaces
  <2>2. CASE home[p] # Broken
    <3>1. Links!Leave /\ home[p] \in {Ours, Theirs}
      BY <1>5, <2>2 DEF Links!HandleLink, Links!Links
    <3>2. \A f \in SkelFiles : f \in Links!Tree(p) => Settled(f)
      BY <1>3, <3>1 DEF Settled, Links!Followed
    <3> QED BY <1>0, <3>1, <3>2, LinkLeaves
  <2> QED BY <2>1, <2>2
<1>6. CASE Links!HandleCopyPath(p)
  <2>0. p \in CopyPaths
    BY <1>6 DEF Links!HandleCopyPath, Links!IsCopyPath
  <2>1. \A q \in Links!Tree(p) : Links!AtOrBelowCopy(q)
    BY <2>0 DEF Links!AtOrBelowCopy
  <2>2. CASE Links!Leave
    BY <1>0, <2>1, <2>2, LinkLeaves DEF Settled
  <2>3. CASE home[p] = Missing /\ Links!Replace(p, FALSE, TRUE)
    BY <1>0, <2>0, <2>3, LinkReplaces
  <2>4. CASE force /\ Links!Replace(p, TRUE, TRUE)
    BY <1>0, <2>0, <2>1, <2>4, LinkReplaces
  <2> QED BY <1>6, <2>2, <2>3, <2>4 DEF Links!HandleCopyPath
<1>7. CASE Links!HandleExisting(p)
  <2>0. home[p] \notin Links!Links /\ home[p] # Missing
    BY <1>7 DEF Links!HandleExisting
  <2>1. CASE home[p] = Dir /\ p \in SkelDirs
    <3>1. CASE Links!Merge(p, FALSE)
      BY <1>0, <2>1, <3>1, LinkMerges
    <3>2. CASE Links!Identical(p) /\ Links!Replace(p, TRUE, FALSE)
      <4>1. /\ \A q \in Links!Below(p) \cap SkelFiles : Links!SameThrough(q)
            /\ \A q \in Links!Below(p) \cap SkelDirs :
                 home[q] = Dir \/ \E a \in Links!Above(q) \cup {q} : home[a] = Ours
            /\ \A q \in Links!Below(p) \cap Own : home[q] = Missing
        BY <2>1, <3>2 DEF Links!Identical
      <4>2. ASSUME NEW q \in Links!Tree(p), home[q] = Mine PROVE FALSE
        <5>1. q \in Links!Paths /\ q \in Links!Below(p)
          BY <1>1, <2>1, <4>2, TreeOrder, LinkKinds DEF Links!Tree
        <5>2. \A a \in Links!Above(q) : home[a] = Dir
          BY <1>2, <4>2, <5>1, LinkKinds DEF Standing
        <5>3. Mine # Missing /\ Mine # Dir /\ Mine # Ours /\ Dir # Ours /\ Mine \notin Links!Versions
          BY LinkKinds
        <5>4. CASE q \in SkelFiles
          <6>1. image[q] \in Links!Versions
            BY <5>4 DEF LinkInv, Links!TypeOK
          <6>2. ~Links!SameFile(q)
            BY <4>2, <5>3, <5>4, <6>1 DEF Links!SameFile
          <6> QED BY <4>1, <5>1, <5>2, <5>3, <5>4, <6>2 DEF Links!SameThrough
        <5>5. CASE q \in SkelDirs
          BY <4>1, <4>2, <5>1, <5>2, <5>3, <5>5
        <5>6. CASE q \in Own
          BY <4>1, <4>2, <5>1, <5>3, <5>6
        <5> QED BY <5>1, <5>4, <5>5, <5>6, LinkConstants
      <4> QED BY <1>0, <3>2, <4>2, LinkReplaces
    <3> QED BY <1>7, <2>1, <3>1, <3>2 DEF Links!HandleExisting
  <2>2. CASE ~(home[p] = Dir /\ p \in SkelDirs)
    <3>1. home[p] # Dir
      BY <1>1, <1>2, <2>2 DEF Standing
    <3>2. \A q \in Links!Tree(p) : q # p => home[q] # Mine
      BY <1>1, <1>2, <3>1, NothingBelow, LinkKinds
    <3>3. Links!Identical(p) => Links!SameFile(p)
      BY <3>1 DEF Links!Identical
    <3>4. Links!SameFile(p) => home[p] # Mine
      <4>1. p \in SkelFiles => image[p] \in Links!Versions
        BY DEF LinkInv, Links!TypeOK
      <4> QED BY <4>1, LinkKinds DEF Links!SameFile
    <3>5. CASE (Links!Identical(p) \/ force) /\ Links!Replace(p, TRUE, FALSE)
      <4>1. \A q \in Links!Tree(p) : home[q] = Mine => force /\ q \notin Own
        BY <1>1, <3>2, <3>3, <3>4, <3>5
      <4> QED BY <1>0, <3>5, <4>1, LinkReplaces
    <3>6. CASE ~Links!Identical(p) /\ Links!Leave
      <4>1. CASE home[p] = Mine
        <5>1. \A f \in SkelFiles : f \in Links!Tree(p) => Settled(f)
          BY <1>3, <4>1 DEF Settled
        <5> QED BY <1>0, <3>6, <5>1, LinkLeaves
      <4>2. CASE home[p] # Mine
        <5>1. home[p] \in Links!Versions /\ p \in SkelFiles
          BY <1>1, <1>2, <2>0, <3>1, <4>2 DEF Standing
        <5>2. p \notin SkelDirs
          BY <5>1, LinkConstants
        <5>3. home[p] # image[p]
          BY <3>6, <5>1, <5>2 DEF Links!Identical, Links!SameFile
        <5>4. Settled(p)
          BY <5>1, <5>3 DEF Settled
        <5>5. \A f \in SkelFiles : f \in Links!Tree(p) => Settled(f)
          BY <1>1, <5>2, <5>4, FilesAreLeaves
        <5> QED BY <1>0, <3>6, <5>5, LinkLeaves
      <4> QED BY <4>1, <4>2
    <3> QED BY <1>7, <2>2, <3>5, <3>6 DEF Links!HandleExisting
  <2> QED BY <2>1, <2>2
<1>8. CASE Links!HandleMissing(p)
  <2>1. home[p] = Missing
    BY <1>8 DEF Links!HandleMissing
  <2>2. CASE p \in SkelDirs /\ Links!Merge(p, TRUE)
    BY <1>0, <2>1, <2>2, LinkMerges
  <2>3. CASE Links!Replace(p, FALSE, FALSE)
    BY <1>0, <2>1, <2>3, LinkReplaces
  <2> QED BY <1>8, <2>2, <2>3 DEF Links!HandleMissing
<1> QED BY <1>0, <1>5, <1>6, <1>7, <1>8

\* While something is being replaced.
LEMMA AtWork ==
  ASSUME LinkInv, op # <<>>
  PROVE  /\ op \in [path: Links!SkelPaths, copy: BOOLEAN, late: SUBSET Links!Paths]
         /\ op.path \in Links!Paths /\ ~dry /\ linkPc \in {"remove", "put"}
         /\ \A q \in Links!Above(op.path) : home[q] = Dir
         /\ \A i \in 1..Len(todo) :
              todo[i] \in Links!Paths /\ todo[i] \notin Links!Tree(op.path)
                /\ \A q \in Links!Above(todo[i]) : home[q] = Dir
         /\ \A i, j \in 1..Len(todo) : i # j => todo[i] \notin Links!Tree(todo[j])
         /\ \A f \in SkelFiles : f \notin Links!Tree(op.path) =>
              Settled(f) \/ \E i \in 1..Len(todo) : f \in Links!Tree(todo[i])
<1>1. op \in [path: Links!SkelPaths, copy: BOOLEAN, late: SUBSET Links!Paths]
      /\ linkPc \in {"remove", "put"} /\ todo \in Seq(Links!SkelPaths)
  BY DEF LinkInv, Links!TypeOK
<1>2. op.path \in Links!Paths /\ \A i \in 1..Len(todo) : todo[i] \in Links!Paths
  BY <1>1, LinkConstants
<1>3. ~dry /\ \A q \in Links!Above(op.path) : home[q] = Dir
  BY DEF LinkInv, InDirectories
<1>4. /\ \A i \in 1..Len(todo) : \A q \in Links!Above(todo[i]) : home[q] = Dir
      /\ \A i \in 1..Len(todo) : todo[i] \notin Links!Tree(op.path)
      /\ \A i, j \in 1..Len(todo) : i # j => todo[i] \notin Links!Tree(todo[j])
  BY <1>3 DEF LinkInv, InDirectories, Disjoint
<1>5. \A f \in SkelFiles : f \notin Links!Tree(op.path) =>
        Settled(f) \/ \E i \in 1..Len(todo) : f \in Links!Tree(todo[i])
  BY <1>1, <1>3 DEF LinkInv, Following, Waiting
<1> QED BY <1>1, <1>2, <1>3, <1>4, <1>5

\* Removing what is replaced takes nothing of the user's.
LEMMA LinkRemoves == ASSUME LinkInv, Links!RemoveTree PROVE LinkInv'
<1> DEFINE P == op.path
<1>0. op # <<>> /\ linkPc' = "put" /\ home' = Links!Without(Links!Tree(P))
      /\ op' = op /\ todo' = todo /\ dry' = dry /\ force' = force /\ image' = image
      /\ edits' = edits /\ clean' = clean
  BY DEF LinkInv, Links!TypeOK, Links!RemoveTree, Links!runVars
<1>1. P \in Links!Paths /\ P \in Links!Tree(P) /\ Links!Tree(P) \subseteq Links!Paths
  BY <1>0, AtWork, TreeOrder
<1>2. \A q \in Links!Paths : home'[q] = IF q \in Links!Tree(P) THEN Missing ELSE home[q]
  BY <1>0 DEF Links!Without
<1>3. Standing(home')
  <2>1. Links!Tree(P) \ {} = Links!Tree(P) /\ {} \in SUBSET Links!Tree(P)
    OBVIOUS
  <2> QED BY <1>0, <1>1, <2>1, HomeStands, WithoutStands
<1>4. Links!TypeOK' /\ Kinds'
  BY <1>0, <1>3 DEF Standing, LinkInv, Kinds, Links!TypeOK, Links!Above, Links!Versions,
       Links!Paths, Links!SkelPaths, Links!Links
<1>5. Disjoint'
  BY <1>0 DEF LinkInv, Disjoint, Links!Tree, Links!Below, Links!Paths, Links!SkelPaths
<1>6. \A q \in Links!Above(P) : home'[q] = Dir
  BY <1>0, <1>1, <1>2, AtWork, AboveIsOutside
<1>7. \A i \in 1..Len(todo) : \A q \in Links!Above(todo[i]) : home'[q] = Dir
  <2> TAKE i \in 1..Len(todo)
  <2> TAKE q \in Links!Above(todo[i])
  <2>1. todo[i] \in Links!Paths /\ todo[i] \notin Links!Tree(P) /\ home[q] = Dir
    BY <1>0, AtWork
  <2>2. q \in Links!Paths /\ q \notin Links!Tree(P)
    BY <1>1, <2>1, AboveOutside
  <2> QED BY <1>2, <2>1, <2>2
<1>8. InDirectories'
  BY <1>0, <1>6, <1>7, AtWork DEF InDirectories, Links!Above
<1>9. Replacing'
  <2>1. op.copy => P \in CopyPaths
    BY <1>0 DEF LinkInv, Replacing
  <2>2. \A q \in Links!Tree(P) : home'[q] = Missing
    BY <1>1, <1>2
  <2> QED BY <1>0, <1>1, <2>1, <2>2, LinkKinds
       DEF Replacing, Links!Tree, Links!Below, Links!Paths, Links!SkelPaths
<1>10. \A f \in SkelFiles : Settled(f)' \/ Waiting(f)'
  <2> SUFFICES ASSUME NEW f \in SkelFiles PROVE Settled(f)' \/ Waiting(f)'
    OBVIOUS
  <2>1. CASE f \in Links!Tree(P)
    BY <1>0, <2>1 DEF Waiting, Links!Tree, Links!Below, Links!Paths, Links!SkelPaths
  <2>2. CASE f \notin Links!Tree(P) /\ \E i \in 1..Len(todo) : f \in Links!Tree(todo[i])
    BY <1>0, <2>2 DEF Waiting, Links!Tree, Links!Below, Links!Paths, Links!SkelPaths
  <2>3. CASE f \notin Links!Tree(P) /\ Settled(f)
    BY <1>0, <1>1, <1>2, <2>3, SettledOutside
  <2> QED BY <1>0, <2>1, <2>2, <2>3, AtWork
<1>11. Following'
  BY <1>0, <1>10, AtWork DEF Following
<1> QED BY <1>4, <1>5, <1>8, <1>9, <1>11 DEF LinkInv

\* What is put in place of it is what the image has.
LEMMA LinkPuts == ASSUME LinkInv, Links!Put PROVE LinkInv'
<1> DEFINE P == op.path
<1>0. op # <<>> /\ linkPc' = "handle" /\ op' = <<>> /\ todo' = todo /\ dry' = dry /\ force' = force
      /\ image' = image /\ edits' = edits /\ clean' = clean
      /\ home[P] \in {Missing, Dir} /\ (\A q \in Links!Above(P) : home[q] = Dir)
  BY DEF LinkInv, Links!TypeOK, Links!Put
<1>1. P \in Links!Paths /\ P \in Links!Tree(P) /\ Links!Tree(P) \subseteq Links!Paths
  BY <1>0, AtWork, TreeOrder
<1>2. home[P] = Missing /\ home[P] # Dir
  BY <1>0 DEF LinkInv, Replacing, Links!Put
<1>3. home' = IF op.copy THEN Links!Copied(Links!Tree(P)) ELSE [home EXCEPT ![P] = Ours]
  BY <1>2 DEF Links!Put
<1>4. image \in [SkelFiles -> Links!Versions]
      /\ home \in [Links!Paths -> {Missing, Dir, Mine} \cup Links!Links \cup Links!Versions]
  BY DEF LinkInv, Links!TypeOK
<1>5. Standing(home')
  <2>1. CASE op.copy
    <3>1. Links!Tree(P) \in SUBSET Links!Tree(P)
          /\ \A q \in Links!Tree(P) : Links!Above(q) \cap Links!Tree(P) \subseteq Links!Tree(P)
      OBVIOUS
    <3> QED BY <1>0, <1>1, <1>3, <1>4, <2>1, <3>1, HomeStands, CopiedStands
  <2>2. CASE ~op.copy
    <3>1. Ours \in Links!Links /\ Ours # Dir
      BY LinkKinds DEF Links!Links
    <3> QED BY <1>0, <1>1, <1>2, <1>3, <2>2, <3>1, HomeStands, OneStands
  <2> QED BY <2>1, <2>2
<1>6. \A q \in Links!Paths : q \notin Links!Tree(P) => home'[q] = home[q]
  BY <1>1, <1>3, <1>4 DEF Links!Copied
<1>7. Links!TypeOK' /\ Kinds'
  BY <1>0, <1>5 DEF Standing, LinkInv, Kinds, Links!TypeOK, Links!Above, Links!Versions,
       Links!Paths, Links!SkelPaths, Links!Links
<1>8. \A i \in 1..Len(todo) : \A q \in Links!Above(todo[i]) : home'[q] = Dir
  <2> TAKE i \in 1..Len(todo)
  <2> TAKE q \in Links!Above(todo[i])
  <2>1. todo[i] \in Links!Paths /\ todo[i] \notin Links!Tree(P) /\ home[q] = Dir
    BY <1>0, AtWork
  <2>2. q \in Links!Paths /\ q \notin Links!Tree(P)
    BY <1>1, <2>1, AboveOutside
  <2> QED BY <1>6, <2>1, <2>2
<1>9. Disjoint' /\ InDirectories' /\ Replacing'
  <2>1. \A i, j \in 1..Len(todo) : i # j => todo[i] \notin Links!Tree(todo[j])
    BY <1>0, AtWork
  <2>2. Disjoint'
    BY <1>0, <2>1 DEF Disjoint, Links!Tree, Links!Below, Links!Paths, Links!SkelPaths
  <2>3. InDirectories'
    BY <1>0, <1>8 DEF InDirectories, Links!Above
  <2>4. Replacing'
    BY <1>0 DEF Replacing
  <2> QED BY <2>2, <2>3, <2>4
<1>10. \A f \in SkelFiles : Settled(f)' \/ Waiting(f)'
  <2> SUFFICES ASSUME NEW f \in SkelFiles PROVE Settled(f)' \/ Waiting(f)'
    OBVIOUS
  <2>1. CASE f \in Links!Tree(P) /\ op.copy
    <3>1. P \in CopyPaths
      BY <1>0, <2>1 DEF LinkInv, Replacing
    <3>2. Links!AtOrBelowCopy(f)
      BY <2>1, <3>1 DEF Links!AtOrBelowCopy
    <3> QED BY <3>2 DEF Settled, Links!AtOrBelowCopy, Links!Tree, Links!Below, Links!Paths,
                        Links!SkelPaths
  <2>2. CASE f \in Links!Tree(P) /\ ~op.copy
    <3>1. home'[P] = Ours
      BY <1>1, <1>3, <1>4, <2>2
    <3>2. P \in Links!Above(f) \cup {f}
      BY <1>1, <2>2, TreeOrder, LinkConstants
    <3> QED BY <3>1, <3>2 DEF Settled, Links!Followed, Links!Above
  <2>3. CASE f \notin Links!Tree(P) /\ \E i \in 1..Len(todo) : f \in Links!Tree(todo[i])
    BY <1>0, <2>3 DEF Waiting, Links!Tree, Links!Below, Links!Paths, Links!SkelPaths
  <2>4. CASE f \notin Links!Tree(P) /\ Settled(f)
    BY <1>0, <1>1, <1>6, <2>4, SettledOutside
  <2> QED BY <1>0, <2>1, <2>2, <2>3, <2>4, AtWork
<1>11. Following'
  BY <1>0, <1>10, AtWork DEF Following
<1> QED BY <1>7, <1>9, <1>11 DEF LinkInv

\* A run that is killed in the middle leaves a home that can be.
LEMMA LinkKilled == ASSUME LinkInv, Links!Killed PROVE LinkInv'
<1>0. linkPc' = "idle" /\ op' = <<>> /\ todo' = <<>> /\ clean' = FALSE /\ dry' = dry /\ force' = force
      /\ image' = image /\ edits' = edits
  BY DEF Links!Killed
<1>1. image \in [SkelFiles -> Links!Versions]
  BY DEF LinkInv, Links!TypeOK
<1>2. Standing(home')
  <2>1. CASE UNCHANGED home
    BY <2>1, HomeStands
  <2>2. CASE linkPc = "remove" /\ \E S \in Links!Remains(op.path) :
                                    home' = Links!Without(Links!Tree(op.path) \ S)
    <3>1. op # <<>>
      BY <2>2 DEF LinkInv, Links!TypeOK
    <3>2. PICK S \in Links!Remains(op.path) : home' = Links!Without(Links!Tree(op.path) \ S)
      BY <2>2
    <3>3. S \in SUBSET Links!Tree(op.path)
          /\ \A q \in S : Links!Above(q) \cap Links!Tree(op.path) \subseteq S
      BY DEF Links!Remains
    <3> QED BY <3>1, <3>2, <3>3, AtWork, HomeStands, WithoutStands
  <2>3. CASE linkPc = "put" /\ \E S \in Links!Remains(op.path) : home' = Links!Copied(S)
    <3>1. op # <<>>
      BY <2>3 DEF LinkInv, Links!TypeOK
    <3>2. PICK S \in Links!Remains(op.path) : home' = Links!Copied(S)
      BY <2>3
    <3>3. S \in SUBSET Links!Tree(op.path)
          /\ \A q \in S : Links!Above(q) \cap Links!Tree(op.path) \subseteq S
      BY DEF Links!Remains
    <3> QED BY <1>1, <3>1, <3>2, <3>3, AtWork, HomeStands, CopiedStands
  <2> QED BY <2>1, <2>2, <2>3 DEF Links!Killed
<1>5. <<>> \in Seq(Links!SkelPaths) /\ FALSE \in BOOLEAN
  OBVIOUS
<1>3. Links!TypeOK' /\ Kinds'
  BY <1>0, <1>2, <1>5 DEF Standing, LinkInv, Kinds, Links!TypeOK, Links!Above, Links!Versions,
       Links!Paths, Links!SkelPaths, Links!Links
<1>4. Disjoint' /\ InDirectories' /\ Replacing' /\ Following'
  BY <1>0 DEF Disjoint, InDirectories, Replacing, Following
<1> QED BY <1>3, <1>4 DEF LinkInv

\* The user changes one tree: what is being replaced, if it is in it, is changed late.
LEMMA LinkEdits == ASSUME LinkInv, NEW p \in Links!Paths, Links!Edit(p) PROVE LinkInv'
<1>0. /\ linkPc' = linkPc /\ todo' = todo /\ dry' = dry /\ force' = force /\ image' = image
      /\ clean' = FALSE
      /\ linkPc = "idle" \/ (op # <<>> /\ p \in Links!Tree(op.path))
      /\ \A q \in Links!Above(p) : home[q] = Dir
  BY DEF Links!Edit
<1>1. edits' \in 0..MaxEdits
  <2>1. edits \in 0..MaxEdits /\ edits < MaxEdits /\ edits' = edits + 1 /\ MaxEdits \in Nat
    BY LinkKinds DEF LinkInv, Links!TypeOK, Links!Edit
  <2> QED BY <2>1
<1>2. /\ home \in [Links!Paths -> {Missing, Dir, Mine} \cup Links!Links \cup Links!Versions]
      /\ linkPc \in {"idle", "handle", "remove", "put"} /\ Standing(home)
      /\ (op # <<>>) <=> (linkPc \in {"remove", "put"})
      /\ linkPc = "idle" => todo = <<>>
  BY HomeStands DEF LinkInv, Links!TypeOK
<1>3. p \in Links!Tree(p)
  BY TreeOrder
<1>4. /\ Standing(home')
      /\ \A q \in Links!Paths : q \notin Links!Tree(p) => home'[q] = home[q]
      /\ \A q \in Links!Paths : q # p => home'[q] \in {home[q], Missing}
      /\ home'[p] # Dir
  <2>1. CASE home[p] \notin {Mine, Theirs, Ours, Broken, Dir} /\ home' = [home EXCEPT ![p] = Mine]
    <3>1. Standing(home')
      BY <1>0, <1>2, <2>1, LinkKinds, OneStands
    <3>2. \A q \in Links!Paths : home'[q] = IF q = p THEN Mine ELSE home[q]
      BY <1>2, <2>1
    <3>3. Mine # Dir
      BY LinkKinds
    <3> QED BY <1>3, <3>1, <3>2, <3>3
  <2>2. CASE home[p] # Missing /\ home' = Links!Without(Links!Tree(p))
    <3>1. \A q \in Links!Paths : home'[q] = IF q \in Links!Tree(p) THEN Missing ELSE home[q]
      BY <2>2 DEF Links!Without
    <3>2. Links!Tree(p) \ {} = Links!Tree(p) /\ {} \in SUBSET Links!Tree(p)
      OBVIOUS
    <3>3. Standing(home')
      BY <1>2, <2>2, <3>2, WithoutStands
    <3>4. Missing # Dir
      BY LinkKinds
    <3> QED BY <1>3, <3>1, <3>3, <3>4
  <2>3. CASE \E l \in {Theirs, Broken} : home[p] \in {Missing, Theirs} /\ home' = [home EXCEPT ![p] = l]
    <3>1. PICK l \in {Theirs, Broken} : home[p] \in {Missing, Theirs} /\ home' = [home EXCEPT ![p] = l]
      BY <2>3
    <3>2. home[p] # Dir /\ l # Dir /\ l \in Links!Links
      BY <3>1, LinkKinds DEF Links!Links
    <3>3. Standing(home')
      BY <1>0, <1>2, <3>1, <3>2, OneStands
    <3>4. \A q \in Links!Paths : home'[q] = IF q = p THEN l ELSE home[q]
      BY <1>2, <3>1
    <3> QED BY <1>3, <3>2, <3>3, <3>4
  <2>4. CASE home[p] = Theirs /\ home' = [home EXCEPT ![p] = Broken]
    BY <2>3, <2>4
  <2>5. CASE home[p] = Missing /\ \E l \in {Theirs, Broken} : home' = [home EXCEPT ![p] = l]
    BY <2>3, <2>5
  <2> QED BY <2>1, <2>2, <2>4, <2>5 DEF Links!Edit
<1>5. CASE op = <<>>
  <2>1. op' = <<>> /\ linkPc = "idle" /\ todo = <<>>
    BY <1>0, <1>2, <1>5 DEF Links!Edit
  <2>2. Links!TypeOK' /\ Kinds'
    BY <1>0, <1>1, <1>4, <1>5, <2>1 DEF Standing, LinkInv, Kinds, Links!TypeOK, Links!Above,
         Links!Versions, Links!Paths, Links!SkelPaths, Links!Links
  <2>3. Disjoint' /\ InDirectories' /\ Replacing' /\ Following'
    BY <1>0, <2>1 DEF Disjoint, InDirectories, Replacing, Following
  <2> QED BY <2>2, <2>3 DEF LinkInv
<1>6. CASE op # <<>>
  <2> DEFINE P == op.path
             t == Links!Tree(p)
  <2>0. op \in [path: Links!SkelPaths, copy: BOOLEAN, late: SUBSET Links!Paths] /\ ~dry
        /\ P \in Links!Paths
    BY <1>6, AtWork
  <2>1. p \in Links!Tree(P)
    BY <1>0, <1>2, <1>6
  <2>2. op' = [op EXCEPT !.late = @ \cup t]
    BY <1>6, <2>1 DEF Links!Edit
  <2>3. /\ op' \in [path: Links!SkelPaths, copy: BOOLEAN, late: SUBSET Links!Paths] /\ op' # <<>>
        /\ op'.path = P /\ op'.copy = op.copy /\ op'.late = op.late \cup t
    <3>1. t \subseteq Links!Paths
      BY TreeOrder
    <3> HIDE DEF t
    <3>2. op' \in [path: Links!SkelPaths, copy: BOOLEAN, late: SUBSET Links!Paths]
          /\ op'.path = P /\ op'.copy = op.copy /\ op'.late = op.late \cup t
      BY <2>0, <2>2, <3>1
    <3>3. op' # <<>>
      BY <2>0, <2>2
    <3> QED BY <3>2, <3>3
  <2>4. t \subseteq Links!Tree(P)
    BY <2>0, <2>1, TreeOrder
  <2>5. \A q \in Links!Paths : q \notin Links!Tree(P) => home'[q] = home[q]
    BY <1>4, <2>4
  <2>6. Links!TypeOK' /\ Kinds'
    BY <1>0, <1>1, <1>2, <1>4, <1>6, <2>3 DEF Standing, LinkInv, Kinds, Links!TypeOK, Links!Above,
         Links!Versions, Links!Paths, Links!SkelPaths, Links!Links
  <2>7. Disjoint'
    BY <1>0, <1>6, <2>3 DEF LinkInv, Disjoint, Links!Tree, Links!Below, Links!Paths, Links!SkelPaths
  <2>8. InDirectories'
    <3>1. \A q \in Links!Above(P) : home'[q] = Dir
      BY <1>6, <2>0, <2>5, AtWork, AboveIsOutside
    <3>2. \A i \in 1..Len(todo) : \A q \in Links!Above(todo[i]) : home'[q] = Dir
      <4> TAKE i \in 1..Len(todo)
      <4> TAKE q \in Links!Above(todo[i])
      <4>1. todo[i] \in Links!Paths /\ todo[i] \notin Links!Tree(P) /\ home[q] = Dir
        BY <1>6, AtWork
      <4>2. q \in Links!Paths /\ q \notin Links!Tree(P)
        BY <2>0, <4>1, AboveOutside
      <4> QED BY <2>5, <4>1, <4>2
    <3> QED BY <1>0, <2>0, <2>3, <3>1, <3>2 DEF InDirectories, Links!Above
  <2>9. Replacing'
    <3>1. Links!Tree(P) \subseteq Links!Paths /\ P \in Links!Tree(P)
      BY <2>0, TreeOrder
    <3>2. ASSUME linkPc = "remove", NEW q \in Links!Tree(P), home'[q] = Mine, q \notin op'.late
          PROVE  force /\ (q \notin Own \/ Links!AtOrBelowCopy(q))
      <4>1. q # p /\ q \notin op.late /\ q \in Links!Paths
        BY <1>3, <2>3, <3>1, <3>2
      <4>2. home[q] = Mine
        BY <1>4, <3>2, <4>1, LinkKinds
      <4> QED BY <1>6, <3>2, <4>1, <4>2 DEF LinkInv, Replacing
    <3>3. ASSUME linkPc = "put"
          PROVE  home'[P] # Dir /\ \A q \in Links!Tree(P) : home'[q] # Missing => q \in op'.late
      <4>1. home[P] # Dir /\ \A q \in Links!Tree(P) : home[q] # Missing => q \in op.late
        BY <3>3 DEF LinkInv, Replacing
      <4>2. home'[P] # Dir
        BY <1>4, <2>0, <4>1, LinkKinds
      <4>3. ASSUME NEW q \in Links!Tree(P), home'[q] # Missing PROVE q \in op'.late
        BY <1>3, <1>4, <2>3, <3>1, <4>1, <4>3
      <4> QED BY <4>2, <4>3
    <3>4. op.copy => P \in CopyPaths
      BY <1>6 DEF LinkInv, Replacing
    <3> HIDE DEF t
    <3> QED BY <1>0, <2>3, <3>2, <3>3, <3>4
         DEF Replacing, Links!AtOrBelowCopy, Links!Tree, Links!Below, Links!Paths, Links!SkelPaths
  <2>10. \A f \in SkelFiles : Settled(f)' \/ Waiting(f)'
    <3> SUFFICES ASSUME NEW f \in SkelFiles PROVE Settled(f)' \/ Waiting(f)'
      OBVIOUS
    <3> HIDE DEF t
    <3>1. CASE f \in Links!Tree(P)
      BY <2>3, <3>1 DEF Waiting, Links!Tree, Links!Below, Links!Paths, Links!SkelPaths
    <3>2. CASE f \notin Links!Tree(P) /\ \E i \in 1..Len(todo) : f \in Links!Tree(todo[i])
      BY <1>0, <3>2 DEF Waiting, Links!Tree, Links!Below, Links!Paths, Links!SkelPaths
    <3>3. CASE f \notin Links!Tree(P) /\ Settled(f)
      BY <1>0, <2>0, <2>5, <3>3, SettledOutside
    <3> QED BY <1>6, <3>1, <3>2, <3>3, AtWork
  <2>11. Following'
    BY <1>0, <1>2, <1>6, <2>0, <2>10 DEF Following
  <2> QED BY <2>6, <2>7, <2>8, <2>9, <2>11 DEF LinkInv
<1> QED BY <1>5, <1>6

\* A new image changes what its links lead to and no path of the home.
LEMMA LinkUpdates == ASSUME LinkInv, NEW p \in SkelFiles, Links!UpdateImage(p) PROVE LinkInv'
<1>1. /\ linkPc' = "idle" /\ op = <<>> /\ op' = <<>> /\ todo = <<>> /\ todo' = <<>> /\ clean' = FALSE
      /\ home' = home /\ dry' = dry /\ force' = force /\ edits' = edits
  BY DEF LinkInv, Links!TypeOK, Links!UpdateImage, Links!runVars
<1>2. image' \in [SkelFiles -> Links!Versions]
  <2>1. image \in [SkelFiles -> 0..MaxImage] /\ MaxImage \in Nat /\ image[p] < MaxImage
        /\ image' = [image EXCEPT ![p] = @ + 1]
    BY LinkKinds DEF LinkInv, Links!TypeOK, Links!UpdateImage, Links!Versions
  <2>2. image[p] + 1 \in 0..MaxImage
    BY <2>1
  <2> QED BY <2>1, <2>2 DEF Links!Versions
<1>3. Links!TypeOK'
  BY <1>1, <1>2 DEF LinkInv, Links!TypeOK, Links!Above, Links!Versions, Links!Paths, Links!SkelPaths,
                    Links!Links
<1>4. Kinds'
  BY <1>1 DEF LinkInv, Kinds, Links!Versions, Links!Paths, Links!SkelPaths
<1>5. Disjoint' /\ InDirectories' /\ Replacing' /\ Following'
  BY <1>1 DEF Disjoint, InDirectories, Replacing, Following
<1> QED BY <1>3, <1>4, <1>5 DEF LinkInv

\* Every step of skel-link and of the user keeps the invariant.
LEMMA LinkNext == LinkInv /\ [Links!Next]_(Links!vars) => LinkInv'
<1> SUFFICES ASSUME LinkInv, [Links!Next]_(Links!vars) PROVE LinkInv'
  OBVIOUS
<1>1. CASE UNCHANGED Links!vars
  <2>1. /\ linkPc' = linkPc /\ op' = op /\ todo' = todo /\ dry' = dry /\ force' = force
        /\ home' = home /\ image' = image /\ edits' = edits /\ clean' = clean
    BY <1>1 DEF Links!vars
  <2>2. Links!TypeOK' <=> Links!TypeOK
    BY <2>1 DEF Links!TypeOK, Links!Above, Links!Versions, Links!Paths, Links!SkelPaths, Links!Links
  <2>3. (Kinds' <=> Kinds) /\ (Disjoint' <=> Disjoint) /\ (InDirectories' <=> InDirectories)
        /\ (Replacing' <=> Replacing)
    BY <2>1 DEF Kinds, Disjoint, InDirectories, Replacing, Links!AtOrBelowCopy, Links!Above, Links!Tree,
                Links!Below, Links!Versions, Links!Paths, Links!SkelPaths
  <2>4. \A f : (Settled(f)' <=> Settled(f)) /\ (Waiting(f)' <=> Waiting(f))
    BY <2>1, SettledStays DEF Waiting, Links!Tree, Links!Below, Links!Paths, Links!SkelPaths
  <2>5. Following' <=> Following
    BY <2>1, <2>4 DEF Following
  <2> QED BY <2>2, <2>3, <2>5 DEF LinkInv
<1> QED BY <1>1, LinkStarts, LinkHandles, LinkRemoves, LinkPuts, LinkFinishes, LinkKilled, LinkEdits,
           LinkUpdates DEF Links!Next, Links!User

\* The invariant of the home holds in every behaviour of skel-link.
LEMMA LinkInvariance == Links!Spec => []LinkInv
  BY LinkBegins, LinkNext, PTL DEF Links!Spec

\* To handle a path touches the home only to make a directory, where there was nothing.
LEMMA HandleAdds ==
  ASSUME LinkInv, Links!Handle
  PROVE  (dry => home' = home)
         /\ \A q \in Links!Paths : home'[q] # home[q] => home[q] = Missing
<1>1. home \in [Links!Paths -> {Missing, Dir, Mine} \cup Links!Links \cup Links!Versions]
  BY DEF LinkInv, Links!TypeOK
<1>2. PICK p \in Links!SkelPaths :
        Links!At(p) /\ (Links!HandleLink(p) \/ Links!HandleCopyPath(p)
                        \/ Links!HandleExisting(p) \/ Links!HandleMissing(p))
  BY DEF Links!Handle
<1>3. home' = home \/ (home[p] = Missing /\ ~dry /\ home' = [home EXCEPT ![p] = Dir])
  BY <1>2 DEF Links!HandleLink, Links!HandleCopyPath, Links!HandleExisting, Links!HandleMissing,
       Links!Leave, Links!Replace, Links!Merge
<1> QED BY <1>1, <1>3

\* A run without --force takes away nothing that had the user's contents when it was
\* compared, and one with it only what skel has a file for, or what lies in a tree of
\* COPY_PATHS; a dry run changes nothing; and after a run that went through, each file
\* outside COPY_PATHS follows the image but for what is the user's (handle_entry, replace).
THEOREM SkelLinkKeepsOrFollows == Links!Spec => Links!KeptOrFollowed
<1>1. LinkInv /\ [Links!Next]_(Links!vars) =>
        [~Links!User =>
           \A p \in Links!Paths :
             (home[p] = Mine /\ ~Links!Late(p) /\ (~force \/ (p \in Own /\ ~Links!AtOrBelowCopy(p))))
               => home'[p] = Mine]_(Links!vars)
  <2> SUFFICES ASSUME LinkInv, Links!Next, ~Links!User, NEW p \in Links!Paths, home[p] = Mine,
                      ~Links!Late(p), ~force \/ (p \in Own /\ ~Links!AtOrBelowCopy(p))
               PROVE  home'[p] = Mine
    OBVIOUS
  <2>1. Mine # Missing /\ Missing # Dir
    BY LinkKinds
  <2>2. CASE Links!Handle
    BY <2>1, <2>2, HandleAdds
  <2>3. op # <<>> => p \notin op.late
    BY DEF Links!Late
  <2>4. ASSUME linkPc = "remove" PROVE op # <<>> /\ p \notin Links!Tree(op.path)
    <3>1. op # <<>>
      BY <2>4 DEF LinkInv, Links!TypeOK
    <3> QED BY <2>3, <2>4, <3>1 DEF LinkInv, Replacing
  <2>5. ASSUME linkPc = "put" PROVE op # <<>> /\ home[op.path] # Dir /\ p \notin Links!Tree(op.path)
    <3>1. op # <<>>
      BY <2>5 DEF LinkInv, Links!TypeOK
    <3> QED BY <2>1, <2>3, <2>5, <3>1 DEF LinkInv, Replacing
  <2>6. CASE Links!RemoveTree
    BY <2>4, <2>6 DEF Links!RemoveTree, Links!Without
  <2>7. CASE Links!Put
    <3>1. op # <<>> /\ home[op.path] # Dir /\ p \notin Links!Tree(op.path)
      BY <2>5, <2>7 DEF Links!Put
    <3>2. op.path \in Links!Tree(op.path)
      BY <3>1, AtWork, TreeOrder
    <3>3. p # op.path /\ home \in [Links!Paths -> {Missing, Dir, Mine} \cup Links!Links \cup Links!Versions]
      BY <3>1, <3>2 DEF LinkInv, Links!TypeOK
    <3> QED BY <2>7, <3>1, <3>3 DEF Links!Put, Links!Copied
  <2>8. CASE Links!Killed
    <3>1. CASE UNCHANGED home
      BY <3>1
    <3>2. CASE linkPc = "remove" /\ \E S \in Links!Remains(op.path) :
                                      home' = Links!Without(Links!Tree(op.path) \ S)
      BY <2>4, <3>2 DEF Links!Without
    <3>3. CASE linkPc = "put" /\ \E S \in Links!Remains(op.path) : home' = Links!Copied(S)
      <4>1. PICK S \in Links!Remains(op.path) : home' = Links!Copied(S)
        BY <3>3
      <4>2. S \subseteq Links!Tree(op.path)
        BY DEF Links!Remains
      <4> QED BY <2>5, <3>3, <4>1, <4>2 DEF Links!Copied
    <3> QED BY <2>8, <3>1, <3>2, <3>3 DEF Links!Killed
  <2>9. CASE Links!Finish \/ (\E d, f \in BOOLEAN : Links!Start(d, f))
             \/ \E f \in SkelFiles : Links!UpdateImage(f)
    BY <2>9 DEF Links!Finish, Links!Start, Links!UpdateImage
  <2> QED BY <2>2, <2>6, <2>7, <2>8, <2>9 DEF Links!Next
<1>2. LinkInv /\ [Links!Next]_(Links!vars) =>
        [linkPc # "idle" /\ dry /\ ~Links!User => UNCHANGED home]_(Links!vars)
  <2> SUFFICES ASSUME LinkInv, Links!Next, dry, ~Links!User, linkPc # "idle" PROVE home' = home
    OBVIOUS
  <2>1. op = <<>>
    BY DEF LinkInv, InDirectories
  <2>2. linkPc \notin {"remove", "put"}
    BY <2>1 DEF LinkInv, Links!TypeOK
  <2> QED BY <2>2, HandleAdds DEF Links!Next, Links!RemoveTree, Links!Put, Links!Killed, Links!Finish,
             Links!Start, Links!UpdateImage
<1>3. LinkInv => Links!AllFollow
  BY DEF LinkInv, Following, Settled, Links!AllFollow
<1>4. Links!Spec => Links!MineKept
  BY <1>1, LinkInvariance, PTL DEF Links!Spec, Links!MineKept
<1>5. Links!Spec => Links!DryChangesNothing
  BY <1>2, LinkInvariance, PTL DEF Links!Spec, Links!DryChangesNothing
<1> QED BY <1>3, <1>4, <1>5, LinkInvariance, PTL DEF Links!KeptOrFollowed

-----------------------------------------------------------------------------
(* Side by side *)

\* What each part keeps by itself it keeps in the composition: the types of the part
\* that runs.
THEOREM LocalTyped == Spec => []TypeOK
<1>1. StoreInv /\ WorldInv /\ FeedInv /\ LinkInv => TypeOK
  BY RaceTyped DEF TypeOK, StoreInv, FeedInv, LinkInv
<1> QED BY <1>1, EachPartByItself, StoreInvariance, WorldInvariance, FeedInvariance, LinkInvariance, PTL

\* Between operations the list in memory, the page and the file agree but for saves that
\* failed, which the next one makes up for (Store.persist).
THEOREM LocalFileCurrent == Spec => []FileCurrent
<1>1. Board!FileCurrent => FileCurrent
  BY DEF FileCurrent
<1> QED BY <1>1, EachPartByItself, StoreStaysCurrent, PTL

\* Birds are ranked by how long they lived, and the overlay of a race under way is borne
\* out by its results (Results, DeriveHUD).
THEOREM LocalRanksFairly == Spec => []FairRanking
<1>1. Race!FairRanking => FairRanking
  BY DEF FairRanking
<1> QED BY <1>1, EachPartByItself, BirdsAreRankedFairly, PTL

\* The newest snapshot reaches the ring, in order, and no frame is drawn beyond what was
\* received (pushSnap, Ring.Push, Ring.Interp).
THEOREM LocalFeedFaithful == Spec => []FramesFaithful
<1>1. View!FramesFaithful => FramesFaithful
  BY DEF FramesFaithful
<1> QED BY <1>1, EachPartByItself, FeedIsFaithful, PTL

\* No text of a toot is cut beyond its summary's end (composeToot).
THEOREM LocalCutsInside == Spec => []CutsInside
<1>1. Text!CutsInside => CutsInside
  BY DEF CutsInside
<1> QED BY <1>1, EachPartByItself, TootsAreCutInside, PTL

\* The state file is only ever replaced by a whole state of the memory, and never by one
\* that lost what the file held (Store.save).
THEOREM LocalImplementsAtomicStore == Spec => ImplementsAtomicStore
  BY EachPartByItself, StoreNeverForgets, StoreImplementsAtomicStore, PTL DEF ImplementsAtomicStore

\* Every pipe is counted once by who passed it, no pipe is flown through, and every gap
\* can be reached from the one before it, at every speed of the ramp (World.Step).
THEOREM LocalCourseIsFair == Spec => FairCourse
  BY EachPartByItself, CourseIsFair, PTL DEF FairCourse

\* skel-link takes nothing of the user's away, writes nothing in a dry run, and leaves
\* nothing behind the image that is not the user's (process, handleFile, handleDir).
THEOREM LocalKeepsOrFollows == Spec => KeptOrFollowed
  BY EachPartByItself, SkelLinkKeepsOrFollows, PTL DEF KeptOrFollowed

=============================================================================
