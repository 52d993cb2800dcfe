---------------------------- MODULE OrderLemmas ----------------------------
(***************************************************************************)
(* Lists without repetition, as the hub's join order is one, and what the  *)
(* operators that RaceHub and Transport change their lists with do.        *)
(***************************************************************************)
EXTENDS Integers, SequencesExt, FiniteSetTheorems, WellFoundedInduction, Sorting, TLAPS

\* Deleting one element of a list without repetition takes it, and nothing else, from
\* the set of those listed (RemoveBird).
LEMMA RemoveAtOnce ==
  ASSUME NEW S, NEW s \in Seq(S), IsInjective(s), NEW i \in 1 .. Len(s), NEW e, s[i] = e
  PROVE  /\ RemoveAt(s, i) \in Seq(S) /\ Len(RemoveAt(s, i)) = Len(s) - 1
         /\ IsInjective(RemoveAt(s, i))
         /\ Range(RemoveAt(s, i)) = Range(s) \ {e}
<1> DEFINE t == RemoveAt(s, i)
<1>1. /\ t \in Seq(S)
      /\ Len(t) = Len(s) - 1
      /\ \A k \in 1 .. Len(t) : t[k] = IF k < i THEN s[k] ELSE s[k + 1]
  <2> DEFINE a == SubSeq(s, 1, i - 1)
             b == SubSeq(s, i + 1, Len(s))
  <2>1. /\ a \in Seq(S) /\ Len(a) = i - 1
        /\ \A k \in 1 .. i - 1 : a[k] = s[k]
    OBVIOUS
  <2>2. /\ b \in Seq(S) /\ Len(b) = Len(s) - i
        /\ \A k \in 1 .. Len(s) - i : b[k] = s[i + k]
    OBVIOUS
  <2>3. t = a \o b
    BY DEF RemoveAt
  <2> HIDE DEF a, b, t
  <2>4. t \in Seq(S) /\ Len(t) = Len(s) - 1
    BY <2>1, <2>2, <2>3
  <2>5. ASSUME NEW k \in 1 .. Len(t) PROVE t[k] = IF k < i THEN s[k] ELSE s[k + 1]
    <3>1. t[k] = IF k <= Len(a) THEN a[k] ELSE b[k - Len(a)]
      BY <2>1, <2>2, <2>3, <2>4
    <3>2. CASE k < i
      BY <2>1, <3>1, <3>2
    <3>3. CASE k >= i
      <4>1. k - (i - 1) \in 1 .. Len(s) - i /\ i + (k - (i - 1)) = k + 1
        BY <2>4, <3>3
      <4>2. b[k - (i - 1)] = s[i + (k - (i - 1))]
        BY <2>2, <4>1
      <4>. QED BY <2>1, <3>1, <3>3, <4>1, <4>2
    <3>. QED BY <3>2, <3>3
  <2>. QED BY <2>4, <2>5
<1>2. IsInjective(t)
  <2> DEFINE from(k) == IF k < i THEN k ELSE k + 1
  <2>1. ASSUME NEW k \in 1 .. Len(t)
        PROVE  from(k) \in 1 .. Len(s) /\ t[k] = s[from(k)]
    BY <1>1
  <2>2. \A k, l \in 1 .. Len(s) : s[k] = s[l] => k = l
    BY DEF IsInjective
  <2> HIDE DEF t
  <2>3. ASSUME NEW k \in 1 .. Len(t), NEW l \in 1 .. Len(t), t[k] = t[l] PROVE k = l
    <3>1. from(k) = from(l)
      BY <2>1, <2>2, <2>3
    <3>. QED BY <1>1, <3>1
  <2>4. DOMAIN t = 1 .. Len(t)
    BY <1>1
  <2>. QED BY <2>3, <2>4, Zenon DEF IsInjective
<1>3. Range(t) = Range(s) \ {e}
  <2>1. ASSUME NEW k \in 1 .. Len(s), k # i PROVE s[k] \in Range(t)
    <3>1. CASE k < i
      BY <3>1, <1>1 DEF Range
    <3>2. CASE k > i
      <4>1. k - 1 \in 1 .. Len(t) /\ t[k - 1] = s[k]
        BY <3>2, <1>1
      <4>. QED BY <4>1, <1>1 DEF Range
    <3>. QED BY <2>1, <3>1, <3>2
  <2>2. ASSUME NEW k \in 1 .. Len(t) PROVE t[k] \in Range(s) \ {e}
    <3>1. PICK j \in 1 .. Len(s) : j # i /\ t[k] = s[j]
      BY <1>1
    <3>. QED BY <3>1 DEF Range, IsInjective
  <2>3. DOMAIN s = 1 .. Len(s) /\ DOMAIN t = 1 .. Len(t)
    BY <1>1
  <2>4. Range(s) \ {e} \subseteq Range(t)
    BY <2>1, <2>3 DEF Range
  <2>. QED BY <2>2, <2>3, <2>4 DEF Range
<1>. QED BY <1>1, <1>2, <1>3

\* Deleting an element that occurs once from the join order deletes it from
\* the set of listed ids and from nothing else (handleLeave's loop).
LEMMA RemoveFirstOnce ==
  ASSUME NEW S, NEW s \in Seq(S), IsInjective(s), NEW e \in Range(s)
  PROVE  /\ RemoveFirst(s, e) \in Seq(S) /\ Len(RemoveFirst(s, e)) = Len(s) - 1
         /\ IsInjective(RemoveFirst(s, e))
         /\ Range(RemoveFirst(s, e)) = Range(s) \ {e}
<1>1. PICK i \in 1 .. Len(s) : s[i] = e
  BY DEF Range
<1>2. SelectInSeq(s, LAMBDA v : v = e) = i
  <2>1. {k \in 1 .. Len(s) : s[k] = e} = {i}
    BY <1>1 DEF IsInjective
  <2>2. Min({i}) = i
    BY DEF Min
  <2>. QED BY <2>1, <2>2 DEF SelectInSeq
<1>3. RemoveFirst(s, e) = RemoveAt(s, i)
  BY <1>1, <1>2 DEF RemoveFirst
<1>. QED BY <1>1, <1>3, RemoveAtOnce

\* A new element at the end is the only one more (handleJoin).
LEMMA AppendNew ==
  ASSUME NEW S, NEW s \in Seq(S), IsInjective(s), NEW e \in S, e \notin Range(s)
  PROVE  /\ Append(s, e) \in Seq(S)
         /\ IsInjective(Append(s, e))
         /\ Range(Append(s, e)) = Range(s) \cup {e}
BY DEF IsInjective, Range

\* Taking the first element off a queue moves the others up by one.
LEMMA TailShifts ==
  ASSUME NEW S, NEW s \in Seq(S), s # <<>>
  PROVE  /\ Tail(s) \in Seq(S) /\ Len(Tail(s)) = Len(s) - 1
         /\ Len(s) \in Nat \ {0} /\ Head(s) = s[1] /\ s[1] \in S
         /\ \A i \in 1 .. Len(s) - 1 : Tail(s)[i] = s[i + 1]
OBVIOUS

\* Another element in the place of the first.
LEMMA HeadReplaced ==
  ASSUME NEW S, NEW s \in Seq(S), s # <<>>, NEW x \in S
  PROVE  /\ <<x>> \o Tail(s) \in Seq(S) /\ Len(<<x>> \o Tail(s)) = Len(s)
         /\ (<<x>> \o Tail(s))[1] = x
         /\ \A i \in 2 .. Len(s) : (<<x>> \o Tail(s))[i] = s[i]
<1> DEFINE t == Tail(s)
<1>1. /\ t \in Seq(S) /\ Len(t) = Len(s) - 1
      /\ \A i \in 1 .. Len(s) - 1 : t[i] = s[i + 1]
  BY TailShifts
<1> HIDE DEF t
<1>. QED BY <1>1

\* A set of naturals has a least element: what Min chooses (a run's next post).
LEMMA Least ==
  ASSUME NEW T, T \subseteq Nat, T # {}
  PROVE  \E x \in T : \A y \in T : x <= y
<1> DEFINE Less == {ss \in Nat \X Nat : ss[1] < ss[2]}
<1>1. IsWellFoundedOn(Less, Nat)
  BY NatLessThanWellFounded DEF OpToRel
<1>2. PICK x \in T : \A y \in T : ~(<<y, x>> \in Less)
  <2> HIDE DEF Less
  <2> QED BY <1>1, WFMin
<1>3. ASSUME NEW y \in T PROVE x <= y
  <2>1. ~(y < x)
    BY <1>2
  <2> QED BY <2>1
<1> QED BY <1>3

\* A bounded one has a greatest: what Max chooses (the newest of the toots found).
LEMMA Greatest ==
  ASSUME NEW n \in Nat, NEW T, T \subseteq 0..n, T # {}
  PROVE  \E x \in T : \A y \in T : x >= y
<1> DEFINE U == {n - x : x \in T}
<1>1. U \subseteq Nat /\ U # {}
  OBVIOUS
<1>2. PICK u \in U : \A v \in U : u <= v
  <2> HIDE DEF U
  <2> QED BY <1>1, Least
<1>3. PICK x \in T : u = n - x
  OBVIOUS
<1>4. ASSUME NEW y \in T PROVE x >= y
  <2>1. n - y \in U
    OBVIOUS
  <2> QED BY <1>2, <1>3, <2>1
<1> QED BY <1>4

-----------------------------------------------------------------------------
(* Sorting *)

IsOrder(S, R) ==
  /\ \A x \in S : <<x, x>> \notin R
  /\ \A x, y, z \in S : <<x, y>> \in R /\ <<y, z>> \in R => <<x, z>> \in R
  /\ \A x, y \in S : x = y \/ <<x, y>> \in R \/ <<y, x>> \in R

Ahead(S, R, x) == {y \in S : <<y, x>> \in R}

\* As many are ahead of one as its place says, and fewer ahead of one before it.
LEMMA AheadCounts ==
  ASSUME NEW S, IsFiniteSet(S), NEW R, IsOrder(S, R)
  PROVE  /\ \A x \in S : IsFiniteSet(Ahead(S, R, x)) /\ Cardinality(Ahead(S, R, x)) \in 0..Cardinality(S) - 1
         /\ \A x, y \in S : <<x, y>> \in R => Cardinality(Ahead(S, R, x)) < Cardinality(Ahead(S, R, y))
<1>1. ASSUME NEW x \in S
      PROVE  IsFiniteSet(Ahead(S, R, x)) /\ Cardinality(Ahead(S, R, x)) \in 0..Cardinality(S) - 1
  <2>1. Ahead(S, R, x) \in SUBSET (S \ {x})
    BY DEF Ahead, IsOrder
  <2>2. IsFiniteSet(S \ {x}) /\ Cardinality(S \ {x}) = Cardinality(S) - 1
    BY FS_RemoveElement
  <2>3. IsFiniteSet(Ahead(S, R, x)) /\ Cardinality(Ahead(S, R, x)) <= Cardinality(S \ {x})
    BY <2>1, <2>2, FS_Subset
  <2>4. Cardinality(Ahead(S, R, x)) \in Nat /\ Cardinality(S) \in Nat
    BY <2>3, FS_CardinalityType
  <2> QED BY <2>2, <2>3, <2>4
<1>2. ASSUME NEW x \in S, NEW y \in S, <<x, y>> \in R
      PROVE  Cardinality(Ahead(S, R, x)) < Cardinality(Ahead(S, R, y))
  <2>1. Ahead(S, R, x) \cup {x} \in SUBSET Ahead(S, R, y)
    BY <1>2 DEF Ahead, IsOrder
  <2>2. x \notin Ahead(S, R, x)
    BY DEF Ahead, IsOrder
  <2>3. /\ Cardinality(Ahead(S, R, x) \cup {x}) = Cardinality(Ahead(S, R, x)) + 1
        /\ Cardinality(Ahead(S, R, x) \cup {x}) <= Cardinality(Ahead(S, R, y))
    <3>1. Cardinality(Ahead(S, R, x) \cup {x}) = Cardinality(Ahead(S, R, x)) + 1
      BY <1>1, <2>2, FS_AddElement
    <3>2. Cardinality(Ahead(S, R, x) \cup {x}) <= Cardinality(Ahead(S, R, y))
      BY <1>1, <2>1, FS_Subset
    <3> QED BY <3>1, <3>2
  <2>4. Cardinality(Ahead(S, R, x)) \in Nat /\ Cardinality(Ahead(S, R, y)) \in Nat
    BY <1>1, FS_CardinalityType
  <2> QED BY <2>3, <2>4
<1> QED BY <1>1, <1>2

\* There is a sorted list: each thing at the place after those ahead of it.
LEMMA SortExists ==
  ASSUME NEW S, IsFiniteSet(S), NEW R, IsOrder(S, R)
  PROVE  \E s \in [1..Cardinality(S) -> S] :
           \A i, j \in 1..Cardinality(S) : i < j => <<s[i], s[j]>> \in R
<1> DEFINE n == Cardinality(S)
           count(x) == Cardinality(Ahead(S, R, x))
           rank == [x \in S |-> count(x) + 1]
<1>1. n \in Nat
  BY FS_CardinalityType
<1>2. \A x \in S : count(x) \in 0..n - 1
  BY AheadCounts
<1>3. \A x, y \in S : <<x, y>> \in R => count(x) < count(y)
  BY AheadCounts
<1> HIDE DEF n, count
<1>4. rank \in [S -> 1..n]
  BY <1>1, <1>2
<1>5. \A x, y \in S : x # y => rank[x] # rank[y]
  <2> SUFFICES ASSUME NEW x \in S, NEW y \in S, x # y PROVE count(x) + 1 # count(y) + 1
    OBVIOUS
  <2>1. count(x) < count(y) \/ count(y) < count(x)
    BY <1>3 DEF IsOrder
  <2> QED BY <1>1, <1>2, <2>1
<1> HIDE DEF rank
<1>6. rank \in Injection(S, 1..n)
  BY <1>4, <1>5 DEF Injection, IsInjective
<1>7. IsFiniteSet(1..n) /\ Cardinality(1..n) = n
  BY <1>1, FS_Interval
<1>8. rank \in Surjection(S, 1..n)
  BY <1>6, <1>7, FS_Injection DEF n
<1> DEFINE s == [i \in 1..n |-> CHOOSE x \in S : rank[x] = i]
<1>9. \A i \in 1..n : s[i] \in S /\ rank[s[i]] = i
  BY <1>8 DEF Surjection
<1>10. s \in [1..n -> S]
  BY <1>9
<1>11. ASSUME NEW i \in 1..n, NEW j \in 1..n, i < j PROVE <<s[i], s[j]>> \in R
  <2> HIDE DEF s
  <2>1. /\ s[i] \in S /\ s[j] \in S /\ rank[s[i]] = i /\ rank[s[j]] = j
    BY <1>9
  <2>2. count(s[i]) + 1 = i /\ count(s[j]) + 1 = j
    BY <2>1 DEF rank
  <2>3. s[i] # s[j]
    BY <1>11, <2>1
  <2>4. ~(<<s[j], s[i]>> \in R)
    <3>1. SUFFICES ASSUME <<s[j], s[i]>> \in R PROVE FALSE
      OBVIOUS
    <3>2. count(s[j]) < count(s[i])
      BY <1>3, <2>1, <3>1
    <3>3. count(s[i]) \in Int /\ count(s[j]) \in Int
      BY <1>2, <2>1
    <3> QED BY <1>11, <2>2, <3>2, <3>3
  <2> QED BY <2>1, <2>3, <2>4 DEF IsOrder
<1> HIDE DEF s
<1>12. \E t \in [1..n -> S] : \A i, j \in 1..n : i < j => <<t[i], t[j]>> \in R
  BY <1>10, <1>11
<1> QED BY <1>12 DEF n

\* What Sorted returns: everything, in order, each thing after as many as are ahead of it.
LEMMA SortedSorts ==
  ASSUME NEW S, IsFiniteSet(S), NEW R, IsOrder(S, R), NEW s, s = Sorted(S, R)
  PROVE  /\ Cardinality(S) \in Nat
         /\ s \in [1..Cardinality(S) -> S]
         /\ \A i, j \in 1..Cardinality(S) : i < j => <<s[i], s[j]>> \in R
         /\ \A x \in S : \E i \in 1..Cardinality(S) : s[i] = x
         /\ \A k \in 1..Cardinality(S) : Cardinality(Ahead(S, R, s[k])) = k - 1
<1> DEFINE n == Cardinality(S)
<1>1. n \in Nat
  BY FS_CardinalityType
<1>2. s \in [1..n -> S] /\ \A i, j \in 1..n : i < j => <<s[i], s[j]>> \in R
  BY SortExists DEF Sorted
<1>7. IsFiniteSet(1..n) /\ Cardinality(1..n) = Cardinality(S)
  <2> HIDE DEF n
  <2>1. IsFiniteSet(1..n) /\ Cardinality(1..n) = n
    BY <1>1, FS_Interval
  <2> QED BY <2>1 DEF n
<1> HIDE DEF n
<1>3. \A i, j \in 1..n : i # j => s[i] # s[j]
  <2> SUFFICES ASSUME NEW i \in 1..n, NEW j \in 1..n, i # j PROVE s[i] # s[j]
    OBVIOUS
  <2>1. <<s[i], s[j]>> \in R \/ <<s[j], s[i]>> \in R
    BY <1>1, <1>2
  <2>2. s[i] \in S
    BY <1>2
  <2> QED BY <2>1, <2>2 DEF IsOrder
<1>4. s \in Injection(1..n, S)
  BY <1>2, <1>3 DEF Injection, IsInjective
<1>5. s \in Surjection(1..n, S)
  BY <1>4, <1>7, FS_Injection
<1>6. ASSUME NEW k \in 1..n PROVE Cardinality(Ahead(S, R, s[k])) = k - 1
  <2> DEFINE t == [j \in 1..k - 1 |-> s[j]]
             A == Ahead(S, R, s[k])
  <2>1. t \in [1..k - 1 -> A]
    BY <1>1, <1>2 DEF Ahead
  <2>2. \A i, j \in 1..k - 1 : i # j => t[i] # t[j]
    BY <1>1, <1>3
  <2>3. ASSUME NEW x \in A PROVE \E j \in 1..k - 1 : t[j] = x
    <3>1. PICK j \in 1..n : s[j] = x
      BY <1>5 DEF Surjection, Ahead
    <3>2. <<s[j], s[k]>> \in R /\ s[j] \in S /\ s[k] \in S
      BY <1>2, <3>1 DEF Ahead
    <3>3. j # k
      BY <3>2 DEF IsOrder
    <3>4. ~(k < j)
      <4>1. SUFFICES ASSUME k < j PROVE FALSE
        OBVIOUS
      <4>2. <<s[k], s[j]>> \in R
        BY <1>2, <4>1
      <4> QED BY <3>2, <4>2 DEF IsOrder
    <3>5. j \in 1..k - 1
      BY <1>1, <3>3, <3>4
    <3> QED BY <3>1, <3>5
  <2> HIDE DEF t, A
  <2>4. t \in Injection(1..k - 1, A)
    BY <2>1, <2>2 DEF Injection, IsInjective
  <2>5. t \in Bijection(1..k - 1, A)
    BY <2>1, <2>3, <2>4 DEF Bijection, Surjection
  <2>6. ExistsBijection(1..k - 1, A)
    BY <2>5 DEF ExistsBijection
  <2>7. k - 1 \in Nat
    BY <1>1
  <2> QED BY <2>6, <2>7, FS_CountingElements DEF A
<1> QED BY <1>1, <1>2, <1>5, <1>6 DEF n, Surjection

=============================================================================
