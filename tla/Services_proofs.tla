--------------------------- MODULE Services_proofs ---------------------------
(***************************************************************************)
(* Proofs about the programs of Services, for any number of requests,      *)
(* threads, groups, tools, messages and posts.                             *)
(***************************************************************************)
EXTENDS Services, OrderLemmas, TLAPS

-----------------------------------------------------------------------------
(* Conversations: the inductive invariant *)

ConvSafety == Conv!Init /\ [][Conv!Next]_(Conv!vars)

USE DEF Conv!Saving

\* What a request holds was started for its own thread; who is about to record or to
\* save has a thread and a conversation; who saves has it in the map; nobody is served
\* while the proxy is down.
HoldsOwn(r) ==
  /\ inject[r] # Conv!NoConv => owner[inject[r]] = key[r]
  /\ resp[r].id # Conv!NoConv => owner[resp[r].id] = key[r]
  /\ convPc[r] = "lookup" => key[r] \in Thread
  /\ convPc[r] \in {"record", "write", "rename"} => key[r] \in Thread /\ resp[r].id # Conv!NoConv
  /\ convPc[r] \in {"write", "rename"} => entries[key[r]] = resp[r].id
  /\ convPc[r] # "idle" => up

Held == \A r \in Req : HoldsOwn(r)

\* One request at a time saves, for the mutex is held over a save.
OneSaver == \A q, r \in Req : convPc[q] \in {"write", "rename"} /\ convPc[r] \in {"write", "rename"} => q = r

\* What is about to be renamed is the whole of the map as it is: nobody has changed it
\* since it was written.
TmpWhole == \A r \in Req : convPc[r] = "rename" => tmp = entries

ConvInv == Conv!TypeOK /\ Conv!Isolation /\ Held /\ OneSaver /\ TmpWhole

ConvSteps == {"idle", "lookup", "forward", "retry", "record", "write", "rename"}
Keys == Thread \cup {NoThread}

\* The proxy begins with whatever it loads and no request under way.
LEMMA ConvBegins == Conv!Init => ConvInv
<1> SUFFICES ASSUME Conv!Init PROVE ConvInv
  OBVIOUS
<1> USE DEF Conv!Init, Conv!NoEntries, Conv!NoConv, Conv!Convs, Conv!Answer
<1>1. /\ entries \in [Thread -> Conv!Convs] /\ file \in [Thread -> Conv!Convs]
      /\ inject \in [Req -> Conv!Convs] /\ sent \in [Req -> Conv!Convs]
  OBVIOUS
<1>2. resp \in [Req -> [ok: BOOLEAN, id: Conv!Convs]]
  OBVIOUS
<1>3. convPc \in [Req -> ConvSteps] /\ mutex = {r \in Req : convPc[r] \in {"write", "rename"}}
  BY DEF ConvSteps
<1>4. owner \in Seq(Keys) /\ Len(owner) <= MaxConv
  BY ServicesAssumption DEF ServicesAssumption, Conv!ConversationsAssumption
<1>5. key \in [Req -> Keys] /\ excused \subseteq Keys /\ up \in BOOLEAN
  BY DEF Keys
<1>6. Conv!TypeOK
  BY <1>1, <1>2, <1>3, <1>4, <1>5 DEF Conv!TypeOK, Keys, ConvSteps
<1> QED BY <1>6 DEF ConvInv, Conv!Isolation, Held, HoldsOwn, OneSaver, TmpWhole

\* The gateway's answer names no conversation or one of the thread that asked, and
\* conversations are only ever added (Gateway under the header of the thread's own).
LEMMA GatewayAnswers ==
  ASSUME owner \in Seq(Keys), Len(owner) <= MaxConv, NEW k \in Keys, NEW header \in 0..Len(owner),
         header # 0 => owner[header] = k,
         NEW ok \in BOOLEAN, NEW i \in 0..MaxConv + 1, Conv!Gateway(k, header, Conv!Answer(ok, i))
  PROVE  /\ owner' \in Seq(Keys) /\ Len(owner') <= MaxConv /\ Len(owner) <= Len(owner')
         /\ \A c \in 1..Len(owner) : owner'[c] = owner[c]
         /\ \A c \in 1..Len(owner') : c \notin 1..Len(owner) => owner'[c] = k /\ header = 0 /\ c = i
         /\ \/ Conv!Answer(ok, i) = Conv!Breaks /\ owner' = owner
            \/ /\ Conv!Answer(ok, i) # Conv!Breaks
               /\ i \in 0..Len(owner') /\ (i # 0 => owner'[i] = k)
               /\ i = 0 \/ i = header \/ header = 0
<1> DEFINE a == Conv!Answer(ok, i)
<1> USE DEF Conv!NoConv
<1>0. MaxConv \in Nat /\ Len(owner) \in Nat /\ \A c \in 1..Len(owner) : owner[c] \in Keys
  BY ServicesAssumption DEF ServicesAssumption, Conv!ConversationsAssumption
<1>1. CASE a = Conv!Breaks /\ UNCHANGED owner
  BY <1>0, <1>1
<1>2. CASE a \in {Conv!Answer(o, j) : o \in BOOLEAN, j \in {0, header}} /\ UNCHANGED owner
  <2> PICK o \in BOOLEAN, j \in {0, header} : a = Conv!Answer(o, j)
    BY <1>2
  <2>1. i \in {0, header}
    <3>1. a.id = i /\ Conv!Answer(o, j).id = j
      BY DEF Conv!Answer
    <3> QED BY <3>1
  <2>2. i # MaxConv + 1
    BY <1>0, <2>1
  <2>3. a # Conv!Breaks
    BY <2>2 DEF Conv!Answer, Conv!Breaks
  <2> QED BY <1>0, <1>2, <2>1, <2>3
<1>3. CASE header = 0 /\ Len(owner) < MaxConv /\ owner' = Append(owner, k)
           /\ a \in {Conv!Answer(o, Len(owner) + 1) : o \in BOOLEAN}
  <2>1. i = Len(owner) + 1
    BY <1>3 DEF Conv!Answer
  <2>2. i # MaxConv + 1
    BY <1>0, <1>3, <2>1
  <2>3. a # Conv!Breaks
    BY <2>2 DEF Conv!Answer, Conv!Breaks
  <2>4. /\ owner' \in Seq(Keys) /\ Len(owner') = Len(owner) + 1
        /\ \A c \in 1..Len(owner) : owner'[c] = owner[c]
        /\ owner'[Len(owner) + 1] = k
    BY <1>0, <1>3
  <2> QED BY <1>0, <1>3, <2>1, <2>3, <2>4
<1> QED BY <1>1, <1>2, <1>3 DEF Conv!Gateway

-----------------------------------------------------------------------------
(* Conversations: each step keeps the invariant *)

\* The parts of the type invariant, for what they are used for.
LEMMA ConvTyped ==
  ASSUME Conv!TypeOK
  PROVE  /\ entries \in [Thread -> Conv!Convs] /\ file \in [Thread -> Conv!Convs]
         /\ tmp \in [Thread -> Conv!Convs] \cup {Torn}
         /\ convPc \in [Req -> ConvSteps] /\ key \in [Req -> Keys]
         /\ mutex = {r \in Req : convPc[r] \in {"write", "rename"}}
         /\ inject \in [Req -> Conv!Convs] /\ sent \in [Req -> Conv!Convs]
         /\ resp \in [Req -> [ok: BOOLEAN, id: Conv!Convs]]
         /\ owner \in Seq(Keys) /\ Len(owner) \in Nat /\ Len(owner) <= MaxConv
         /\ \A c \in 1..Len(owner) : owner[c] \in Keys
         /\ Conv!Convs = 0..Len(owner)
         /\ MaxConv \in Nat /\ NoThread \notin Thread
  BY ServicesAssumption
     DEF ServicesAssumption, Conv!ConversationsAssumption, Conv!TypeOK, ConvSteps, Keys, Conv!Convs

\* What a request holds, of a step that keeps it or of one after which it is served.
LEMMA ConvReturns ==
  ASSUME Conv!TypeOK, NEW r \in Req, Conv!Return(r) \/ UNCHANGED <<key, inject, sent, resp>>,
         UNCHANGED owner
  PROVE  /\ key' \in [Req -> Keys] /\ inject' \in [Req -> Conv!Convs] /\ sent' \in [Req -> Conv!Convs]
         /\ resp' \in [Req -> [ok: BOOLEAN, id: Conv!Convs]] /\ Conv!Convs' = Conv!Convs
         /\ \A q \in Req :
              \/ /\ key'[q] = key[q] /\ inject'[q] = inject[q]
                 /\ sent'[q] = sent[q] /\ resp'[q] = resp[q]
              \/ /\ q = r /\ convPc'[q] = "idle" /\ key'[q] = NoThread
                 /\ inject'[q] = 0 /\ sent'[q] = 0 /\ resp'[q].id = 0
<1>1. Conv!Convs' = Conv!Convs /\ 0 \in Conv!Convs
  BY ConvTyped DEF Conv!Convs
<1>2. CASE UNCHANGED <<key, inject, sent, resp>>
  BY <1>1, <1>2, ConvTyped
<1>3. CASE Conv!Return(r)
  <2>1. /\ convPc' = [convPc EXCEPT ![r] = "idle"] /\ key' = [key EXCEPT ![r] = NoThread]
        /\ inject' = [inject EXCEPT ![r] = 0] /\ sent' = [sent EXCEPT ![r] = 0]
        /\ resp' = [resp EXCEPT ![r] = [ok |-> FALSE, id |-> 0]]
    BY <1>3 DEF Conv!Return, Conv!NoConv, Conv!Answer
  <2>2. NoThread \in Keys
    BY DEF Keys
  <2> QED BY <1>1, <2>1, <2>2, ConvTyped
<1> QED BY <1>2, <1>3

\* A request that arrives brings a conversation header or none, and no lock.
LEMMA ConvArrives ==
  ASSUME ConvInv, NEW r \in Req, NEW k \in Keys, Conv!Arrive(r, k)
  PROVE  ConvInv'
<1> USE DEF ConvInv, Conv!NoConv
<1>1. /\ convPc' = [convPc EXCEPT ![r] = IF k = NoThread THEN "forward" ELSE "lookup"]
      /\ key' = [key EXCEPT ![r] = k] /\ inject' = [inject EXCEPT ![r] = 0]
      /\ sent' = [sent EXCEPT ![r] = 0] /\ resp' = [resp EXCEPT ![r] = Conv!Answer(FALSE, 0)]
      /\ excused' \subseteq excused \cup {k}
      /\ UNCHANGED <<up, entries, file, tmp, mutex, owner>>
      /\ up /\ convPc[r] = "idle"
  BY DEF Conv!Arrive, Conv!store
<1>2. Conv!TypeOK'
  <2>1. /\ inject' \in [Req -> Conv!Convs'] /\ sent' \in [Req -> Conv!Convs']
        /\ entries' \in [Thread -> Conv!Convs'] /\ file' \in [Thread -> Conv!Convs']
        /\ tmp' \in [Thread -> Conv!Convs'] \cup {Torn}
    BY <1>1, ConvTyped DEF Conv!Convs
  <2>2. resp' \in [Req -> [ok: BOOLEAN, id: Conv!Convs']]
    <3>1. Conv!Answer(FALSE, 0) \in [ok: BOOLEAN, id: Conv!Convs']
      BY <1>1, ConvTyped DEF Conv!Answer, Conv!Convs
    <3>2. Conv!Convs' = Conv!Convs
      BY <1>1 DEF Conv!Convs
    <3> QED BY <1>1, <3>1, <3>2, ConvTyped
  <2>3. convPc' \in [Req -> ConvSteps] /\ mutex' = {q \in Req : convPc'[q] \in {"write", "rename"}}
    BY <1>1, ConvTyped DEF ConvSteps
  <2>4. key' \in [Req -> Keys] /\ excused' \subseteq Keys
    BY <1>1, ConvTyped DEF Conv!TypeOK, Keys
  <2>5. owner' \in Seq(Keys) /\ Len(owner') <= MaxConv /\ up' \in BOOLEAN
    BY <1>1, ConvTyped DEF Conv!TypeOK
  <2> QED BY <2>1, <2>2, <2>3, <2>4, <2>5 DEF Conv!TypeOK, ConvSteps, Keys
<1>3. Conv!Isolation'
  BY <1>1, ConvTyped DEF Conv!Isolation
<1>4. Held'
  BY <1>1, ConvTyped DEF Held, HoldsOwn, Conv!Answer, Keys
<1>5. OneSaver' /\ TmpWhole'
  BY <1>1, ConvTyped DEF OneSaver, TmpWhole
<1> QED BY <1>2, <1>3, <1>4, <1>5

\* A request that looks its thread up finds that thread's own conversation, or none.
LEMMA ConvLookup ==
  ASSUME ConvInv, NEW r \in Req, Conv!Lookup(r)
  PROVE  ConvInv'
<1> USE DEF ConvInv, Conv!NoConv
<1>1. /\ convPc' = [convPc EXCEPT ![r] = "forward"] /\ convPc[r] = "lookup"
      /\ inject' = [inject EXCEPT ![r] = entries[key[r]]]
      /\ UNCHANGED <<up, entries, file, tmp, mutex, key, sent, resp, owner, excused>>
  BY DEF Conv!Lookup, Conv!store
<1>2. key[r] \in Thread /\ up
  BY <1>1 DEF Held, HoldsOwn
<1>3. Conv!TypeOK'
  <2>1. inject' \in [Req -> Conv!Convs']
    BY <1>1, <1>2, ConvTyped DEF Conv!Convs
  <2>2. convPc' \in [Req -> ConvSteps] /\ mutex' = {q \in Req : convPc'[q] \in {"write", "rename"}}
    BY <1>1, ConvTyped DEF ConvSteps
  <2>3. Conv!Convs' = Conv!Convs
    BY <1>1 DEF Conv!Convs
  <2> QED BY <1>1, <2>1, <2>2, <2>3 DEF Conv!TypeOK, ConvSteps
<1>4. Conv!Isolation'
  BY <1>1 DEF Conv!Isolation
<1>5. Held'
  BY <1>1, <1>2, ConvTyped DEF Held, HoldsOwn, Conv!Isolation
<1>6. OneSaver' /\ TmpWhole'
  BY <1>1, ConvTyped DEF OneSaver, TmpWhole
<1> QED BY <1>3, <1>4, <1>5, <1>6

\* What an attempt does: sent, resp and the next step of one request, and the gateway's
\* conversations (Forward and Retry).
LEMMA ConvAttempt ==
  ASSUME ConvInv, NEW r \in Req, NEW header \in Conv!Convs,
         header # 0 => owner[header] = key[r],
         NEW ok \in BOOLEAN, NEW i \in 0..MaxConv + 1, NEW kept, NEW next \in ConvSteps,
         Conv!Gateway(key[r], header, Conv!Answer(ok, i)), Conv!Excuse(key[r], Conv!Answer(ok, i)),
         kept = IF Conv!Answer(ok, i) = Conv!Breaks THEN resp[r] ELSE Conv!Answer(ok, i),
         convPc[r] \in {"forward", "retry"}, next \in {"idle", "retry", "record"},
         next = "record" => key[r] # NoThread /\ kept.id # 0,
         resp' = [resp EXCEPT ![r] = kept], sent' = [sent EXCEPT ![r] = header],
         convPc' = [convPc EXCEPT ![r] = next],
         UNCHANGED <<up, entries, file, tmp, mutex, key, inject>>
  PROVE  ConvInv'
<1> USE DEF ConvInv, Conv!NoConv
<1> DEFINE a == Conv!Answer(ok, i)
<1>0. key[r] \in Keys /\ resp[r] \in [ok: BOOLEAN, id: Conv!Convs]
  BY ConvTyped
<1>1. /\ owner' \in Seq(Keys) /\ Len(owner') <= MaxConv /\ Len(owner) <= Len(owner')
      /\ Len(owner) \in Nat /\ Len(owner') \in Nat
      /\ \A c \in 1..Len(owner) : owner'[c] = owner[c]
      /\ a = Conv!Breaks \/ (i \in 0..Len(owner') /\ (i # 0 => owner'[i] = key[r]))
  BY <1>0, GatewayAnswers, ConvTyped
<1>2. /\ Conv!Convs \subseteq Conv!Convs'
      /\ \A c \in Conv!Convs : c # 0 => owner'[c] = owner[c]
  BY <1>1 DEF Conv!Convs
<1>3. /\ kept \in [ok: BOOLEAN, id: Conv!Convs'] /\ (kept.id # 0 => owner'[kept.id] = key[r])
  <2>1. CASE a = Conv!Breaks
    <3>1. kept = resp[r]
      BY <2>1
    <3>2. resp[r].id \in Conv!Convs /\ (resp[r].id # 0 => owner[resp[r].id] = key[r])
      BY <1>0 DEF Held, HoldsOwn
    <3> QED BY <1>0, <1>2, <3>1, <3>2
  <2>2. CASE a # Conv!Breaks
    <3>1. kept = a /\ a.id = i
      BY <2>2 DEF Conv!Answer
    <3>2. a \in [ok: BOOLEAN, id: Conv!Convs']
      BY <1>1, <2>2 DEF Conv!Convs, Conv!Answer
    <3> QED BY <1>1, <2>2, <3>1, <3>2
  <2> QED BY <2>1, <2>2
<1>4. Conv!TypeOK'
  <2>1. /\ inject' \in [Req -> Conv!Convs'] /\ sent' \in [Req -> Conv!Convs']
        /\ entries' \in [Thread -> Conv!Convs'] /\ file' \in [Thread -> Conv!Convs']
        /\ tmp' \in [Thread -> Conv!Convs'] \cup {Torn}
    BY <1>2, ConvTyped
  <2>2. resp' \in [Req -> [ok: BOOLEAN, id: Conv!Convs']]
    BY <1>2, <1>3, ConvTyped
  <2>3. convPc' \in [Req -> ConvSteps] /\ mutex' = {q \in Req : convPc'[q] \in {"write", "rename"}}
    BY ConvTyped DEF ConvSteps
  <2>4. excused' \subseteq Keys
    BY <1>0 DEF Conv!Excuse, Conv!TypeOK, Keys
  <2> QED BY <1>1, <2>1, <2>2, <2>3, <2>4 DEF Conv!TypeOK, ConvSteps, Keys
<1>5. Conv!Isolation'
  <2>1. ASSUME NEW q \in Req PROVE sent'[q] # 0 => owner'[sent'[q]] = key'[q]
    BY <1>2, ConvTyped DEF Conv!Isolation
  <2>2. ASSUME NEW k \in Thread
        PROVE  /\ entries'[k] # 0 => owner'[entries'[k]] = k
               /\ file'[k] # 0 => owner'[file'[k]] = k
    BY <1>2, ConvTyped DEF Conv!Isolation
  <2> QED BY <2>1, <2>2 DEF Conv!Isolation
<1>6. Held'
  <2>1. ASSUME NEW q \in Req PROVE HoldsOwn(q)'
    <3>1. HoldsOwn(q)
      BY DEF Held
    <3>2. CASE q = r
      <4>1. inject'[q] # 0 => owner'[inject'[q]] = key'[q]
        BY <3>1, <1>2, ConvTyped DEF HoldsOwn
      <4>2. resp'[q] = kept /\ convPc'[q] = next /\ up'
        BY <3>1, <3>2, ConvTyped DEF HoldsOwn
      <4> QED BY <4>1, <4>2, <3>2, <1>0, <1>3 DEF HoldsOwn, Keys
    <3>3. CASE q # r
      <4>1. inject[q] \in Conv!Convs /\ resp[q].id \in Conv!Convs
        BY ConvTyped
      <4>2. resp'[q] = resp[q] /\ convPc'[q] = convPc[q]
        BY <3>3, ConvTyped
      <4> QED BY <4>1, <4>2, <3>1, <1>2 DEF HoldsOwn
    <3> QED BY <3>2, <3>3
  <2> QED BY <2>1 DEF Held
<1>7. OneSaver' /\ TmpWhole'
  BY ConvTyped DEF OneSaver, TmpWhole
<1> QED BY <1>4, <1>5, <1>6, <1>7

\* What a forwarded request learns is the conversation it was answered in.
LEMMA ConvForward ==
  ASSUME ConvInv, NEW r \in Req, Conv!Forward(r)
  PROVE  ConvInv'
<1> USE DEF Conv!NoConv
<1>1. PICK ok \in BOOLEAN, i \in 0..MaxConv + 1 :
        LET a == Conv!Answer(ok, i) IN
          /\ Conv!Gateway(key[r], inject[r], a) /\ Conv!Excuse(key[r], a)
          /\ sent' = [sent EXCEPT ![r] = inject[r]]
          /\ resp' = [resp EXCEPT ![r] = IF a = Conv!Breaks THEN resp[r] ELSE a]
          /\ convPc' = [convPc EXCEPT ![r] =
                          IF a = Conv!Breaks THEN "idle"
                          ELSE IF inject[r] # 0 /\ ~ok THEN "retry" ELSE Conv!AfterAnswer(r, a)]
  BY DEF Conv!Forward, Conv!Header
<1>2. convPc[r] = "forward" /\ UNCHANGED <<up, entries, file, tmp, mutex, key, inject>>
  BY DEF Conv!Forward, Conv!store
<1>3. inject[r] \in Conv!Convs /\ (inject[r] # 0 => owner[inject[r]] = key[r])
  BY ConvTyped DEF ConvInv, Held, HoldsOwn
<1> DEFINE a == Conv!Answer(ok, i)
           kept == IF a = Conv!Breaks THEN resp[r] ELSE a
           next == IF a = Conv!Breaks THEN "idle"
                   ELSE IF inject[r] # 0 /\ ~ok THEN "retry" ELSE Conv!AfterAnswer(r, a)
<1>4. /\ next \in ConvSteps /\ next \in {"idle", "retry", "record"}
      /\ next = "record" => key[r] # NoThread /\ kept.id # 0
  BY DEF Conv!AfterAnswer, ConvSteps
<1> HIDE DEF next
<1> QED
  BY <1>1, <1>2, <1>3, <1>4, ConvAttempt DEF next

\* A conversation that turned out to be gone is not put back by its retry.
LEMMA ConvRetry ==
  ASSUME ConvInv, NEW r \in Req, Conv!Retry(r)
  PROVE  ConvInv'
<1> USE DEF Conv!NoConv
<1>1. PICK ok \in BOOLEAN, i \in 0..MaxConv + 1 :
        LET a == Conv!Answer(ok, i)
            kept == IF a = Conv!Breaks THEN resp[r] ELSE a
        IN  /\ Conv!Gateway(key[r], 0, a) /\ Conv!Excuse(key[r], a)
            /\ resp' = [resp EXCEPT ![r] = kept]
            /\ convPc' = [convPc EXCEPT ![r] = Conv!AfterAnswer(r, kept)]
  BY DEF Conv!Retry
<1>2. /\ convPc[r] = "retry" /\ sent' = [sent EXCEPT ![r] = 0]
      /\ UNCHANGED <<up, entries, file, tmp, mutex, key, inject>>
  BY DEF Conv!Retry, Conv!store
<1>3. 0 \in Conv!Convs
  BY ConvTyped DEF ConvInv
<1> DEFINE a == Conv!Answer(ok, i)
           kept == IF a = Conv!Breaks THEN resp[r] ELSE a
           next == Conv!AfterAnswer(r, kept)
<1>4. /\ next \in ConvSteps /\ next \in {"idle", "retry", "record"}
      /\ next = "record" => key[r] # NoThread /\ kept.id # 0
  BY DEF Conv!AfterAnswer, ConvSteps
<1> HIDE DEF next
<1> QED
  BY <1>1, <1>2, <1>3, <1>4, ConvAttempt DEF next

\* A request records its own conversation, under its own thread, and takes the save lock.
LEMMA ConvRecord ==
  ASSUME ConvInv, NEW r \in Req, Conv!Record(r)
  PROVE  ConvInv'
<1> USE DEF ConvInv, Conv!NoConv
<1> DEFINE k == key[r]
           c == resp[r].id
<1>1. /\ convPc[r] = "record" /\ mutex = {}
      /\ UNCHANGED <<up, file, tmp, owner, excused>>
      /\ Conv!Return(r) \/ UNCHANGED <<key, inject, sent, resp>>
      /\ \/ convPc' = [convPc EXCEPT ![r] = "idle"] /\ UNCHANGED <<entries, mutex>>
         \/ /\ convPc' = [convPc EXCEPT ![r] = "write"]
            /\ entries' = [entries EXCEPT ![k] = c] /\ mutex' = {r}
  BY DEF Conv!Record, Conv!Return, Conv!store
<1>2. /\ k \in Thread /\ c \in Conv!Convs /\ c # 0 /\ owner[c] = k /\ up
  BY <1>1, ConvTyped DEF Held, HoldsOwn
<1>3. Conv!Convs' = Conv!Convs
  BY <1>1, ConvReturns
<1>4. Conv!TypeOK'
  <2>1. entries' \in [Thread -> Conv!Convs'] /\ tmp' \in [Thread -> Conv!Convs'] \cup {Torn}
    BY <1>1, <1>2, <1>3, ConvTyped
  <2>2. convPc' \in [Req -> ConvSteps]
    BY <1>1, ConvTyped DEF ConvSteps
  <2>3. \A q \in Req : convPc[q] \notin {"write", "rename"}
    BY <1>1, ConvTyped
  <2>4. mutex' = {q \in Req : convPc'[q] \in {"write", "rename"}}
    BY <1>1, <2>3, ConvTyped
  <2> QED BY <1>1, <1>3, <2>1, <2>2, <2>4, ConvReturns DEF Conv!TypeOK, ConvSteps, Keys
<1>5. Conv!Isolation'
  <2>1. \A j \in Thread : entries'[j] # 0 => owner[entries'[j]] = j
    BY <1>1, <1>2, ConvTyped DEF Conv!Isolation
  <2>2. \A q \in Req : sent'[q] # 0 => owner[sent'[q]] = key'[q]
    BY <1>1, ConvReturns DEF Conv!Isolation
  <2> QED BY <1>1, <2>1, <2>2 DEF Conv!Isolation
<1>6. ASSUME NEW q \in Req PROVE HoldsOwn(q)'
  <2>1. HoldsOwn(q) /\ convPc[q] \notin {"write", "rename"}
    BY <1>1, ConvTyped DEF Held
  <2>2. convPc'[q] \in {"write", "rename"} => q = r
    BY <1>1, <2>1, ConvTyped
  <2>3. CASE /\ key'[q] = key[q] /\ inject'[q] = inject[q]
             /\ sent'[q] = sent[q] /\ resp'[q] = resp[q]
    BY <1>1, <1>2, <2>1, <2>2, <2>3, ConvTyped DEF HoldsOwn
  <2>4. CASE convPc'[q] = "idle" /\ inject'[q] = 0 /\ resp'[q].id = 0
    BY <2>4 DEF HoldsOwn
  <2> QED BY <1>1, <2>3, <2>4, ConvReturns
<1>7. OneSaver' /\ TmpWhole'
  BY <1>1, ConvTyped DEF OneSaver, TmpWhole
<1> QED BY <1>4, <1>5, <1>6, <1>7 DEF Held

\* The temporary file is written under the lock.
LEMMA ConvWriteTmp ==
  ASSUME ConvInv, NEW r \in Req, Conv!WriteTmp(r)
  PROVE  ConvInv'
<1> USE DEF ConvInv, Conv!NoConv
<1>1. /\ convPc[r] = "write"
      /\ UNCHANGED <<up, entries, file, owner, excused>>
      /\ Conv!Return(r) \/ UNCHANGED <<key, inject, sent, resp>>
      /\ \/ convPc' = [convPc EXCEPT ![r] = "rename"] /\ tmp' = entries /\ mutex' = mutex
         \/ convPc' = [convPc EXCEPT ![r] = "idle"] /\ tmp' = Torn /\ mutex' = {}
  BY DEF Conv!WriteTmp, Conv!Unlock, Conv!Return
<1>2. \A q \in Req : convPc[q] \in {"write", "rename"} <=> q = r
  BY <1>1 DEF OneSaver
<1>3. Conv!TypeOK'
  <2>1. tmp' \in [Thread -> Conv!Convs'] \cup {Torn} /\ Conv!Convs' = Conv!Convs
    BY <1>1, ConvTyped, ConvReturns
  <2>2. convPc' \in [Req -> ConvSteps]
    BY <1>1, ConvTyped DEF ConvSteps
  <2>3. mutex' = {q \in Req : convPc'[q] \in {"write", "rename"}}
    BY <1>1, <1>2, ConvTyped
  <2> QED BY <1>1, <2>1, <2>2, <2>3, ConvReturns DEF Conv!TypeOK, ConvSteps, Keys
<1>4. Conv!Isolation'
  BY <1>1, ConvReturns DEF Conv!Isolation
<1>5. ASSUME NEW q \in Req PROVE HoldsOwn(q)'
  <2>1. CASE /\ key'[q] = key[q] /\ inject'[q] = inject[q] /\ resp'[q] = resp[q]
    BY <1>1, <2>1, ConvTyped DEF Held, HoldsOwn
  <2>2. CASE convPc'[q] = "idle" /\ inject'[q] = 0 /\ resp'[q].id = 0
    BY <2>2 DEF HoldsOwn
  <2> QED BY <1>1, <2>1, <2>2, ConvReturns
<1>6. OneSaver' /\ TmpWhole'
  BY <1>1, <1>2, ConvTyped DEF OneSaver, TmpWhole
<1> QED BY <1>3, <1>4, <1>5, <1>6 DEF Held

\* What is renamed was recorded before.
LEMMA ConvRename ==
  ASSUME ConvInv, NEW r \in Req, Conv!Rename(r)
  PROVE  ConvInv'
<1> USE DEF ConvInv, Conv!NoConv
<1>1. /\ convPc[r] = "rename" /\ convPc' = [convPc EXCEPT ![r] = "idle"]
      /\ file' \in {file, entries} /\ tmp' = Torn /\ mutex' = {}
      /\ Conv!Return(r) /\ UNCHANGED <<up, entries, owner, excused>>
  BY DEF Conv!Rename, Conv!Unlock, Conv!Return, TmpWhole
<1>2. Conv!Convs' = Conv!Convs
  BY <1>1, ConvReturns
<1>3. Conv!TypeOK'
  <2>1. file' \in [Thread -> Conv!Convs']
    BY <1>1, <1>2, ConvTyped
  <2>2. \A q \in Req : convPc[q] \in {"write", "rename"} => q = r
    BY <1>1 DEF OneSaver
  <2>3. convPc' \in [Req -> ConvSteps] /\ mutex' = {q \in Req : convPc'[q] \in {"write", "rename"}}
    BY <1>1, <2>2, ConvTyped DEF ConvSteps
  <2> QED BY <1>1, <1>2, <2>1, <2>3, ConvReturns DEF Conv!TypeOK, ConvSteps, Keys
<1>4. Conv!Isolation'
  <2>1. \A q \in Req : sent'[q] # 0 => owner[sent'[q]] = key'[q]
    BY <1>1, ConvReturns DEF Conv!Isolation
  <2> QED BY <1>1, <2>1, ConvTyped DEF Conv!Isolation
<1>5. ASSUME NEW q \in Req PROVE HoldsOwn(q)'
  <2>1. CASE /\ key'[q] = key[q] /\ inject'[q] = inject[q] /\ resp'[q] = resp[q]
    BY <1>1, <2>1, ConvTyped DEF Held, HoldsOwn
  <2>2. CASE convPc'[q] = "idle" /\ inject'[q] = 0 /\ resp'[q].id = 0
    BY <2>2 DEF HoldsOwn
  <2> QED BY <1>1, <2>1, <2>2, ConvReturns
<1>6. OneSaver' /\ TmpWhole'
  <2>1. \A q \in Req : convPc'[q] \notin {"write", "rename"}
    BY <1>1, ConvTyped DEF OneSaver
  <2> QED BY <2>1 DEF OneSaver, TmpWhole
<1> QED BY <1>3, <1>4, <1>5, <1>6 DEF Held

\* A crash loses the memory and every request, and leaves the file as it is.
LEMMA ConvCrash ==
  ASSUME ConvInv, Conv!Crash
  PROVE  ConvInv'
<1> USE DEF ConvInv, Conv!NoConv
<1>1. /\ up' = FALSE /\ entries' = Conv!NoEntries /\ mutex' = {} /\ tmp' = Torn
      /\ convPc' = [r \in Req |-> "idle"] /\ key' = [r \in Req |-> NoThread]
      /\ inject' = [r \in Req |-> 0] /\ sent' = [r \in Req |-> 0]
      /\ resp' = [r \in Req |-> Conv!Answer(FALSE, 0)]
      /\ excused' \subseteq excused \cup Thread /\ UNCHANGED <<file, owner>>
  BY DEF Conv!Crash
<1>2. Conv!Convs' = Conv!Convs /\ 0 \in Conv!Convs
  BY <1>1, ConvTyped DEF Conv!Convs
<1>3. Conv!TypeOK'
  <2>1. /\ inject' \in [Req -> Conv!Convs'] /\ sent' \in [Req -> Conv!Convs']
        /\ entries' \in [Thread -> Conv!Convs'] /\ file' \in [Thread -> Conv!Convs']
    BY <1>1, <1>2, ConvTyped DEF Conv!NoEntries
  <2>2. resp' \in [Req -> [ok: BOOLEAN, id: Conv!Convs']]
    BY <1>1, <1>2 DEF Conv!Answer
  <2>3. convPc' \in [Req -> ConvSteps] /\ mutex' = {q \in Req : convPc'[q] \in {"write", "rename"}}
    BY <1>1 DEF ConvSteps
  <2>4. key' \in [Req -> Keys] /\ excused' \subseteq Keys /\ up' \in BOOLEAN
    BY <1>1 DEF Keys, Conv!TypeOK
  <2> QED BY <1>1, <2>1, <2>2, <2>3, <2>4 DEF Conv!TypeOK, ConvSteps, Keys
<1>4. Conv!Isolation'
  BY <1>1 DEF Conv!Isolation, Conv!NoEntries
<1>5. Held' /\ OneSaver' /\ TmpWhole'
  BY <1>1 DEF Held, HoldsOwn, OneSaver, TmpWhole, Conv!Answer
<1> QED BY <1>3, <1>4, <1>5

\* A restart reads back what the file holds.
LEMMA ConvStart ==
  ASSUME ConvInv, Conv!Start
  PROVE  ConvInv'
<1> USE DEF ConvInv, Conv!NoConv
<1>1. /\ up' = TRUE /\ ~up /\ entries' \in {file, Conv!NoEntries}
      /\ excused' \subseteq excused \cup Thread
      /\ UNCHANGED <<file, tmp, mutex, convPc, key, inject, sent, resp, owner>>
  BY DEF Conv!Start, Conv!requests
<1>2. Conv!Convs' = Conv!Convs /\ 0 \in Conv!Convs
  BY <1>1, ConvTyped DEF Conv!Convs
<1>3. Conv!TypeOK'
  <2>1. entries' \in [Thread -> Conv!Convs'] /\ up' \in BOOLEAN
    BY <1>1, <1>2, ConvTyped DEF Conv!NoEntries
  <2>2. excused' \subseteq Keys
    BY <1>1 DEF Keys, Conv!TypeOK
  <2> QED BY <1>1, <1>2, <2>1, <2>2 DEF Conv!TypeOK, Keys
<1>4. Conv!Isolation'
  BY <1>1 DEF Conv!Isolation, Conv!NoEntries
<1>5. Held' /\ OneSaver' /\ TmpWhole'
  BY <1>1 DEF Held, HoldsOwn, OneSaver, TmpWhole
<1> QED BY <1>3, <1>4, <1>5

\* Nothing changes while the proxy stutters.
LEMMA ConvStays ==
  ASSUME ConvInv, UNCHANGED Conv!vars
  PROVE  ConvInv'
BY DEF ConvInv, Conv!vars, Conv!store, Conv!requests, Conv!TypeOK, Conv!Isolation, Held,
       HoldsOwn, OneSaver, TmpWhole, Conv!Convs

\* Every step of the proxy keeps the invariant.
LEMMA ConvNext ==
  ASSUME ConvInv, [Conv!Next]_(Conv!vars)
  PROVE  ConvInv'
<1>1. ASSUME NEW r \in Req, NEW k \in Thread \cup {NoThread}, Conv!Arrive(r, k) PROVE ConvInv'
  BY <1>1, ConvArrives DEF Keys
<1>2. ASSUME NEW r \in Req, Conv!Step(r) PROVE ConvInv'
  BY <1>2, ConvLookup, ConvForward, ConvRetry, ConvRecord, ConvWriteTmp, ConvRename DEF Conv!Step
<1>3. CASE Conv!Crash \/ Conv!Start
  BY <1>3, ConvCrash, ConvStart
<1>4. CASE UNCHANGED Conv!vars
  BY <1>4, ConvStays
<1> QED BY <1>1, <1>2, <1>3, <1>4 DEF Conv!Next

\* The invariant of the mapping holds in every behaviour of the proxy.
LEMMA ConvInvariance == ConvSafety => []ConvInv
<1>1. ConvInv /\ [Conv!Next]_(Conv!vars) => ConvInv'
  BY ConvNext
<1> QED BY <1>1, ConvBegins, PTL DEF ConvSafety

\* No two threads ever share a conversation, in memory or in the file (store.entries and
\* the file).
THEOREM ConversationsStayApart == ConvSafety => []Conv!Isolation
<1>1. ConvInv => Conv!Isolation
  BY DEF ConvInv
<1> QED BY <1>1, ConvInvariance, PTL

\* A turn that was given a conversation leaves its thread with that one (the mutex that is
\* held over the save).
THEOREM TurnsDecideTheirThread == ConvSafety => Conv!TurnsDecide
<1>1. ASSUME ConvInv, [Conv!Next]_(Conv!vars)
      PROVE  [\A r \in Req : convPc[r] \in {"record"} \cup Conv!Saving /\ convPc'[r] = "idle" /\ up'
                 => entries'[key[r]] = resp[r].id]_(Conv!vars)
  <2> SUFFICES ASSUME NEW r \in Req, convPc[r] \in {"record", "write", "rename"}, convPc'[r] = "idle", up'
               PROVE  entries'[key[r]] = resp[r].id
    BY DEF Conv!vars
  <2>1. convPc \in [Req -> ConvSteps]
    BY <1>1, ConvTyped DEF ConvInv
  <2>2. HoldsOwn(r)
    BY <1>1 DEF ConvInv, Held
  <2>3. convPc'[r] # convPc[r]
    OBVIOUS
  <2>4. ASSUME NEW q \in Req, NEW k \in Thread \cup {NoThread}, Conv!Arrive(q, k) PROVE FALSE
    BY <2>1, <2>3, <2>4 DEF Conv!Arrive
  <2>5. ASSUME NEW q \in Req, Conv!Lookup(q) \/ Conv!Forward(q) \/ Conv!Retry(q) PROVE FALSE
    BY <2>1, <2>3, <2>5 DEF Conv!Lookup, Conv!Forward, Conv!Retry
  <2>6. ASSUME NEW q \in Req, Conv!Record(q) PROVE entries'[key[r]] = resp[r].id
    BY <2>1, <1>1, <2>2, <2>3, <2>6, ConvTyped DEF ConvInv, Conv!Record, Conv!Return, Conv!store, HoldsOwn
  <2>7. ASSUME NEW q \in Req, Conv!WriteTmp(q) \/ Conv!Rename(q)
        PROVE  entries'[key[r]] = resp[r].id
    <3>1. UNCHANGED entries /\ convPc[q] \in {"write", "rename"}
          /\ \E x \in {"rename", "idle"} : convPc' = [convPc EXCEPT ![q] = x]
      BY <2>7 DEF Conv!WriteTmp, Conv!Rename, Conv!Unlock, Conv!Return
    <3> QED BY <2>1, <2>2, <2>3, <3>1 DEF HoldsOwn
  <2>8. ~Conv!Crash /\ ~Conv!Start
    BY <2>3 DEF Conv!Crash, Conv!Start, Conv!requests
  <2>9. ~UNCHANGED Conv!vars
    BY <2>3 DEF Conv!vars, Conv!requests
  <2> QED
    BY <1>1, <2>4, <2>5, <2>6, <2>7, <2>8, <2>9 DEF Conv!Next, Conv!Step
<1> QED BY <1>1, ConvInvariance, PTL DEF ConvSafety, Conv!TurnsDecide

-----------------------------------------------------------------------------
(* Conversations: a thread keeps its conversation *)

\* Conversation c of thread k is found by the next turn: it is in the file while the
\* proxy is down, then in the map, or about to be recorded; a turn under way goes on
\* with it.
Found(k, c) ==
  /\ ~up => file[k] = c
  /\ up => entries[k] = c \/ \E r \in Req : key[r] = k /\ convPc[r] = "record"
  /\ \A r \in Req : key[r] = k =>
       /\ convPc[r] \in {"record", "write", "rename"} => resp[r].id = c
       /\ convPc[r] = "forward" => inject[r] = c

Busy(r, k) == convPc[r] # "idle" /\ key[r] = k

\* A thread without an excuse has one turn at a time, none of them refused, and each
\* conversation started for it is found by the next one.
Steady(k) ==
  /\ \A q, r \in Req : Busy(q, k) /\ Busy(r, k) => q = r
  /\ \A r \in Req : Busy(r, k) => convPc[r] # "retry"
  /\ \A c \in 1..Len(owner) : owner[c] = k => Found(k, c)

AllSteady == \A k \in Thread \ excused : Steady(k)

\* A request that arrives leaves a thread without lost saves or overlapping turns as it was.
LEMMA SteadyArrives ==
  ASSUME ConvInv, NEW k \in Thread \ excused', Steady(k), NEW r \in Req, NEW j \in Keys,
         Conv!Arrive(r, j)
  PROVE  Steady(k)'
<1> USE DEF ConvInv
<1>1. /\ convPc' = [convPc EXCEPT ![r] = IF j = NoThread THEN "forward" ELSE "lookup"]
      /\ key' = [key EXCEPT ![r] = j] /\ convPc[r] = "idle" /\ up
      /\ \A q \in Req : q # r => inject'[q] = inject[q] /\ resp'[q] = resp[q]
      /\ UNCHANGED <<up, entries, file, owner>>
  BY ConvTyped DEF Conv!Arrive, Conv!store
<1>2. \A q \in Req : q # r => convPc'[q] = convPc[q] /\ key'[q] = key[q]
  BY <1>1, ConvTyped
<1>3. key'[r] = j /\ convPc'[r] = IF j = NoThread THEN "forward" ELSE "lookup"
  BY <1>1, ConvTyped
<1>4. j = k => convPc'[r] = "lookup" /\ \A q \in Req : ~Busy(q, k)
  <2> SUFFICES ASSUME j = k PROVE convPc'[r] = "lookup" /\ \A q \in Req : ~Busy(q, k)
    OBVIOUS
  <2>1. Conv!Active(k) = {}
    BY DEF Conv!Arrive
  <2> QED BY <1>3, <2>1, ConvTyped DEF Conv!Active, Busy
<1>5. \A q \in Req : Busy(q, k)' => (q # r /\ Busy(q, k)) \/ (q = r /\ j = k)
  BY <1>2, <1>3 DEF Busy
<1>6. ASSUME NEW c \in 1..Len(owner), owner[c] = k PROVE Found(k, c)'
  <2>1. Found(k, c)
    BY <1>6 DEF Steady
  <2>2. ASSUME NEW q \in Req, key'[q] = k
        PROVE  /\ convPc'[q] \in {"record", "write", "rename"} => resp'[q].id = c
               /\ convPc'[q] = "forward" => inject'[q] = c
    <3>1. CASE q = r
      BY <2>2, <3>1, <1>3, <1>4
    <3>2. CASE q # r
      BY <2>1, <2>2, <3>2, <1>1, <1>2 DEF Found
    <3> QED BY <3>1, <3>2
  <2>3. entries[k] = c \/ \E q \in Req : key'[q] = k /\ convPc'[q] = "record"
    BY <1>1, <1>2, <2>1 DEF Found
  <2> QED BY <1>1, <2>2, <2>3 DEF Found
<1>7. \A q \in Req : Busy(q, k)' => convPc'[q] # "retry"
  BY <1>2, <1>3, <1>4, <1>5 DEF Steady, Busy
<1>8. \A p, q \in Req : Busy(p, k)' /\ Busy(q, k)' => p = q
  BY <1>4, <1>5 DEF Steady
<1> QED BY <1>1, <1>6, <1>7, <1>8 DEF Steady

\* Looking up changes no thread's conversation.
LEMMA SteadyLookup ==
  ASSUME ConvInv, NEW k \in Thread \ excused', Steady(k), NEW r \in Req, Conv!Lookup(r)
  PROVE  Steady(k)'
<1> USE DEF ConvInv
<1>1. /\ convPc' = [convPc EXCEPT ![r] = "forward"] /\ convPc[r] = "lookup"
      /\ inject' = [inject EXCEPT ![r] = entries[key[r]]]
      /\ UNCHANGED <<up, entries, file, key, resp, owner>>
  BY DEF Conv!Lookup, Conv!store
<1>2. \A q \in Req : Busy(q, k)' <=> Busy(q, k)
  BY <1>1, ConvTyped DEF Busy
<1>3. up
  BY <1>1 DEF Held, HoldsOwn
<1>4. ASSUME NEW c \in 1..Len(owner), owner[c] = k PROVE Found(k, c)'
  <2>1. Found(k, c)
    BY <1>4 DEF Steady
  <2>2. key[r] = k => entries[k] = c
    <3> SUFFICES ASSUME key[r] = k PROVE entries[k] = c
      OBVIOUS
    <3>1. \A q \in Req : Busy(q, k) => q = r
      BY <1>1 DEF Steady, Busy
    <3> QED BY <1>1, <1>3, <2>1, <3>1 DEF Found, Busy
  <2>3. \A q \in Req : key'[q] = k =>
          /\ convPc'[q] \in {"record", "write", "rename"} => resp'[q].id = c
          /\ convPc'[q] = "forward" => inject'[q] = c
    BY <1>1, <2>1, <2>2, ConvTyped DEF Found
  <2>4. entries[k] = c \/ \E q \in Req : key'[q] = k /\ convPc'[q] = "record"
    BY <1>1, <1>3, <2>1, ConvTyped DEF Found
  <2> QED BY <1>1, <1>3, <2>3, <2>4 DEF Found
<1>5. \A q \in Req : Busy(q, k)' => convPc'[q] # "retry"
  BY <1>1, <1>2, ConvTyped DEF Steady
<1> QED BY <1>1, <1>2, <1>4, <1>5 DEF Steady

\* An attempt of another thread's request changes nothing for this one (Forward, Retry).
LEMMA SteadyOther ==
  ASSUME ConvInv, NEW k \in Thread, Steady(k), NEW r \in Req, key[r] # k,
         NEW header \in Conv!Convs, header # 0 => owner[header] = key[r],
         NEW ok \in BOOLEAN, NEW i \in 0..MaxConv + 1,
         Conv!Gateway(key[r], header, Conv!Answer(ok, i)),
         \A q \in Req : q # r => convPc'[q] = convPc[q] /\ resp'[q] = resp[q],
         UNCHANGED <<up, entries, file, key, inject>>
  PROVE  Steady(k)'
<1> USE DEF ConvInv
<1>1. /\ Len(owner) <= Len(owner') /\ Len(owner) \in Nat
      /\ \A c \in 1..Len(owner) : owner'[c] = owner[c]
      /\ \A c \in 1..Len(owner') : c \notin 1..Len(owner) => owner'[c] = key[r]
  BY ConvTyped, GatewayAnswers
<1>2. \A q \in Req : key[q] = k => q # r
  OBVIOUS
<1>3. \A q \in Req : Busy(q, k)' <=> Busy(q, k)
  BY <1>2 DEF Busy
<1>4. ASSUME NEW c \in 1..Len(owner'), owner'[c] = k PROVE Found(k, c)'
  <2>1. Found(k, c)
    BY <1>1, <1>4 DEF Steady
  <2>2. \A q \in Req : key'[q] = k =>
          /\ convPc'[q] \in {"record", "write", "rename"} => resp'[q].id = c
          /\ convPc'[q] = "forward" => inject'[q] = c
    BY <1>2, <2>1 DEF Found
  <2>3. up => entries[k] = c \/ \E q \in Req : key'[q] = k /\ convPc'[q] = "record"
    BY <1>2, <2>1 DEF Found
  <2> QED BY <2>1, <2>2, <2>3 DEF Found
<1>5. \A q \in Req : Busy(q, k)' => convPc'[q] # "retry"
  BY <1>2, <1>3 DEF Steady, Busy
<1> QED BY <1>3, <1>4, <1>5 DEF Steady

\* A turn continues the conversation found for its thread.
LEMMA SteadyForward ==
  ASSUME ConvInv, NEW k \in Thread \ excused', Steady(k), NEW r \in Req, Conv!Forward(r)
  PROVE  Steady(k)'
<1> USE DEF ConvInv, Conv!NoConv
<1>1. PICK ok \in BOOLEAN, i \in 0..MaxConv + 1 :
        LET a == Conv!Answer(ok, i) IN
          /\ Conv!Gateway(key[r], inject[r], a) /\ Conv!Excuse(key[r], a)
          /\ resp' = [resp EXCEPT ![r] = IF a = Conv!Breaks THEN resp[r] ELSE a]
          /\ convPc' = [convPc EXCEPT ![r] =
                          IF a = Conv!Breaks THEN "idle"
                          ELSE IF inject[r] # 0 /\ ~ok THEN "retry" ELSE Conv!AfterAnswer(r, a)]
  BY DEF Conv!Forward, Conv!Header
<1>2. convPc[r] = "forward" /\ UNCHANGED <<up, entries, file, key, inject>>
  BY DEF Conv!Forward, Conv!store
<1>3. inject[r] \in Conv!Convs /\ (inject[r] # 0 => owner[inject[r]] = key[r]) /\ up
  BY <1>2, ConvTyped DEF Held, HoldsOwn
<1>4. \A q \in Req : q # r => convPc'[q] = convPc[q] /\ resp'[q] = resp[q]
  BY <1>1, ConvTyped
<1>5. CASE key[r] # k
  BY <1>1, <1>2, <1>3, <1>4, <1>5, SteadyOther
<1>6. CASE key[r] = k
  <2> DEFINE a == Conv!Answer(ok, i)
  <2>1. a.ok = ok /\ a.id = i
    BY DEF Conv!Answer
  <2>2. ok /\ i # 0
    BY <1>1, <1>6, <2>1 DEF Conv!Excuse
  <2>3. a # Conv!Breaks
    BY <2>1, <2>2 DEF Conv!Answer, Conv!Breaks
  <2>4. resp'[r] = a /\ convPc'[r] = "record"
    BY <1>1, <1>6, <2>1, <2>2, <2>3, ConvTyped DEF Conv!AfterAnswer
  <2>5. /\ Len(owner) <= Len(owner') /\ Len(owner) \in Nat
        /\ \A c \in 1..Len(owner) : owner'[c] = owner[c]
        /\ \A c \in 1..Len(owner') : c \notin 1..Len(owner) => inject[r] = 0 /\ c = i
        /\ i = inject[r] \/ inject[r] = 0
    <3>1. Conv!Gateway(key[r], inject[r], Conv!Answer(ok, i))
      BY <1>1
    <3>2. key[r] \in Keys /\ inject[r] \in 0..Len(owner) /\ owner \in Seq(Keys) /\ Len(owner) <= MaxConv
      BY <1>3, ConvTyped DEF Conv!Convs
    <3>3. Len(owner) \in Nat
      BY ConvTyped
    <3>4. /\ Len(owner) <= Len(owner') /\ \A c \in 1..Len(owner) : owner'[c] = owner[c]
          /\ \A c \in 1..Len(owner') : c \notin 1..Len(owner) => inject[r] = 0 /\ c = i
      BY <1>3, <3>1, <3>2, GatewayAnswers
    <3>5. i = 0 \/ i = inject[r] \/ inject[r] = 0
      BY <1>3, <2>3, <3>1, <3>2, GatewayAnswers
    <3> QED BY <2>2, <3>3, <3>4, <3>5
  <2>6. \A q \in Req : Busy(q, k) => q = r
    BY <1>2, <1>6 DEF Steady, Busy
  <2>7. ASSUME NEW c \in 1..Len(owner'), owner'[c] = k PROVE c = i
    <3>1. CASE c \in 1..Len(owner)
      <4>1. Found(k, c)
        BY <2>5, <2>7, <3>1 DEF Steady
      <4>2. inject[r] = c /\ c # 0
        BY <1>2, <1>6, <2>5, <3>1, <4>1 DEF Found
      <4> QED BY <2>5, <4>2
    <3>2. CASE c \notin 1..Len(owner)
      BY <2>5, <3>2
    <3> QED BY <3>1, <3>2
  <2>8. \A q \in Req : Busy(q, k)' => q = r
    BY <1>2, <1>4, <2>6 DEF Busy
  <2>9. ASSUME NEW c \in 1..Len(owner'), owner'[c] = k PROVE Found(k, c)'
    <3>1. \A q \in Req : key'[q] = k /\ convPc'[q] # "idle" => q = r
      BY <2>8 DEF Busy
    <3> QED BY <1>2, <1>3, <1>6, <2>1, <2>4, <2>7, <2>9, <3>1 DEF Found
  <2> QED BY <2>4, <2>8, <2>9 DEF Steady
<1> QED BY <1>5, <1>6

\* A retry excuses its own thread only.
LEMMA SteadyRetry ==
  ASSUME ConvInv, NEW k \in Thread \ excused', Steady(k), NEW r \in Req, Conv!Retry(r)
  PROVE  Steady(k)'
<1> USE DEF ConvInv, Conv!NoConv
<1>1. PICK ok \in BOOLEAN, i \in 0..MaxConv + 1 :
        LET a == Conv!Answer(ok, i)
            kept == IF a = Conv!Breaks THEN resp[r] ELSE a
        IN  /\ Conv!Gateway(key[r], 0, a)
            /\ resp' = [resp EXCEPT ![r] = kept]
            /\ convPc' = [convPc EXCEPT ![r] = Conv!AfterAnswer(r, kept)]
  BY DEF Conv!Retry
<1>2. convPc[r] = "retry" /\ UNCHANGED <<up, entries, file, key, inject>>
  BY DEF Conv!Retry, Conv!store
<1>3. key[r] # k
  BY <1>2 DEF Steady, Busy
<1>4. \A q \in Req : q # r => convPc'[q] = convPc[q] /\ resp'[q] = resp[q]
  BY <1>1, ConvTyped
<1>5. 0 \in Conv!Convs
  BY ConvTyped
<1> QED BY <1>1, <1>2, <1>3, <1>4, <1>5, SteadyOther

\* What a turn records is what was found for its thread, unless that was gone.
LEMMA SteadyRecord ==
  ASSUME ConvInv, NEW k \in Thread \ excused', Steady(k), NEW r \in Req, Conv!Record(r)
  PROVE  Steady(k)'
<1> USE DEF ConvInv, Conv!NoConv
<1>1. /\ convPc[r] = "record" /\ convPc'[r] \in {"idle", "write"}
      /\ \A q \in Req : q # r => convPc'[q] = convPc[q]
      /\ Conv!Return(r) \/ UNCHANGED <<key, inject, sent, resp>>
      /\ UNCHANGED <<up, file, owner>>
  BY ConvTyped DEF Conv!Record, Conv!Return, Conv!store
<1>0. \A q \in Req : key'[q] = k => key[q] = k /\ inject'[q] = inject[q] /\ resp'[q] = resp[q]
  BY <1>1, ConvTyped, ConvReturns
<1>2. key[r] \in Thread /\ up
  BY <1>1 DEF Held, HoldsOwn
<1>3. /\ entries'[key[r]] = resp[r].id
      /\ \A j \in Thread : j # key[r] => entries'[j] = entries[j]
  BY <1>2, ConvTyped DEF Conv!Record, Conv!store
<1>4. \A q \in Req : Busy(q, k)' => Busy(q, k)
  BY <1>0, <1>1 DEF Busy
<1>5. ASSUME NEW c \in 1..Len(owner), owner[c] = k PROVE Found(k, c)'
  <2>1. Found(k, c)
    BY <1>5 DEF Steady
  <2>2. \A q \in Req : key'[q] = k =>
          /\ convPc'[q] \in {"record", "write", "rename"} => resp'[q].id = c
          /\ convPc'[q] = "forward" => inject'[q] = c
    BY <1>0, <1>1, <2>1 DEF Found
  <2>3. entries'[k] = c \/ \E q \in Req : key'[q] = k /\ convPc'[q] = "record"
    <3>1. CASE key[r] = k
      BY <1>1, <1>3, <2>1, <3>1 DEF Found
    <3>2. CASE key[r] # k
      <4>1. \A q \in Req : q # r => key'[q] = key[q]
        BY <1>1, ConvReturns
      <4> QED BY <1>1, <1>2, <1>3, <2>1, <3>2, <4>1 DEF Found
    <3> QED BY <3>1, <3>2
  <2> QED BY <1>1, <1>2, <2>2, <2>3 DEF Found
<1>6. \A q \in Req : Busy(q, k)' => convPc'[q] # "retry"
  BY <1>1, <1>4 DEF Steady
<1> QED BY <1>1, <1>4, <1>5, <1>6 DEF Steady

\* A save, each of its two steps, brings the file up to the memory or leaves it.
LEMMA SteadySave ==
  ASSUME ConvInv, NEW k \in Thread \ excused', Steady(k), NEW r \in Req,
         Conv!WriteTmp(r) \/ Conv!Rename(r)
  PROVE  Steady(k)'
<1> USE DEF ConvInv, Conv!NoConv
<1>1. /\ convPc[r] \in {"write", "rename"} /\ convPc'[r] \in {"rename", "idle"}
      /\ \A q \in Req : q # r => convPc'[q] = convPc[q]
      /\ Conv!Return(r) \/ UNCHANGED <<key, inject, sent, resp>>
      /\ UNCHANGED <<up, entries, owner>>
  BY ConvTyped DEF Conv!WriteTmp, Conv!Rename, Conv!Unlock, Conv!Return
<1>0. /\ \A q \in Req : key'[q] = k => key[q] = k /\ inject'[q] = inject[q] /\ resp'[q] = resp[q]
      /\ \A q \in Req : q # r => key'[q] = key[q]
  BY <1>1, ConvTyped, ConvReturns
<1>2. up
  BY <1>1 DEF Held, HoldsOwn
<1>3. \A q \in Req : Busy(q, k)' => Busy(q, k)
  BY <1>0, <1>1 DEF Busy
<1>4. ASSUME NEW c \in 1..Len(owner), owner[c] = k PROVE Found(k, c)'
  <2>1. Found(k, c)
    BY <1>4 DEF Steady
  <2> QED BY <1>0, <1>1, <1>2, <2>1 DEF Found
<1> QED BY <1>1, <1>3, <1>4 DEF Steady

\* A crash excuses the threads whose turns it cut off or whose saves had failed.
LEMMA SteadyCrash ==
  ASSUME ConvInv, NEW k \in Thread \ excused', Steady(k), Conv!Crash
  PROVE  Steady(k)'
<1>1. /\ up /\ ~up' /\ convPc' = [r \in Req |-> "idle"] /\ UNCHANGED <<file, owner>>
  BY DEF Conv!Crash
<1>2. file[k] = entries[k] /\ \A r \in Req : ~Busy(r, k)
  BY DEF Conv!Crash, Conv!Active, Busy
<1>3. ASSUME NEW c \in 1..Len(owner), owner[c] = k PROVE file[k] = c
  <2>1. Found(k, c)
    BY <1>3 DEF Steady
  <2> QED BY <1>1, <1>2, <2>1 DEF Found, Busy
<1> QED BY <1>1, <1>3 DEF Steady, Found, Busy

\* A restart finds each thread's conversation unless the thread is excused.
LEMMA SteadyStart ==
  ASSUME ConvInv, NEW k \in Thread \ excused', Steady(k), Conv!Start
  PROVE  Steady(k)'
<1>1. /\ ~up /\ up' /\ entries' = file /\ UNCHANGED <<file, convPc, key, inject, resp, owner>>
  BY DEF Conv!Start, Conv!requests
<1>2. \A r \in Req : convPc[r] = "idle"
  BY <1>1 DEF ConvInv, Held, HoldsOwn
<1> QED BY <1>1, <1>2 DEF Steady, Found, Busy

\* What has once excused a thread excuses it for good.
LEMMA ExcusedGrows == [Conv!Next]_(Conv!vars) => excused \subseteq excused'
<1> SUFFICES ASSUME [Conv!Next]_(Conv!vars) PROVE excused \subseteq excused'
  OBVIOUS
<1>1. ASSUME NEW r \in Req, NEW j \in Keys, Conv!Arrive(r, j) PROVE excused \subseteq excused'
  BY <1>1 DEF Conv!Arrive
<1>2. ASSUME NEW k \in Keys, NEW a, Conv!Excuse(k, a) PROVE excused \subseteq excused'
  BY <1>2 DEF Conv!Excuse
<1>3. ASSUME NEW r \in Req, Conv!Step(r) PROVE excused \subseteq excused'
  BY <1>3 DEF Conv!Step, Conv!Lookup, Conv!Forward, Conv!Retry, Conv!Record,
              Conv!WriteTmp, Conv!Rename, Conv!Excuse
<1>4. CASE Conv!Crash \/ Conv!Start
  BY <1>4 DEF Conv!Crash, Conv!Start
<1>5. CASE UNCHANGED Conv!vars
  BY <1>5 DEF Conv!vars
<1> QED BY <1>1, <1>3, <1>4, <1>5 DEF Conv!Next, Keys

\* Threads that nothing excuses stay steady.
LEMMA SteadyNext ==
  ASSUME ConvInv, AllSteady, [Conv!Next]_(Conv!vars)
  PROVE  AllSteady'
<1> SUFFICES ASSUME NEW k \in Thread \ excused' PROVE Steady(k)'
  BY DEF AllSteady
<1>1. k \notin excused
  BY ExcusedGrows
<1>2. Steady(k)
  BY <1>1 DEF AllSteady
<1>3. ASSUME NEW r \in Req, NEW j \in Thread \cup {NoThread}, Conv!Arrive(r, j) PROVE Steady(k)'
  BY <1>2, <1>3, SteadyArrives DEF Keys
<1>4. ASSUME NEW r \in Req, Conv!Step(r) PROVE Steady(k)'
  BY <1>2, <1>4, SteadyLookup, SteadyForward, SteadyRetry, SteadyRecord, SteadySave DEF Conv!Step
<1>5. CASE Conv!Crash \/ Conv!Start
  BY <1>2, <1>5, SteadyCrash, SteadyStart
<1>6. CASE UNCHANGED Conv!vars
  BY <1>2, <1>6 DEF Conv!vars, Conv!store, Conv!requests, Steady, Found, Busy
<1> QED BY <1>3, <1>4, <1>5, <1>6 DEF Conv!Next

\* A steady thread has had one conversation.
LEMMA SteadyKeepsOne ==
  ASSUME ConvInv, AllSteady
  PROVE  Conv!OneConversation
<1> SUFFICES ASSUME NEW k \in Thread \ excused, NEW c \in 1..Len(owner), NEW d \in 1..Len(owner),
                    owner[c] = k, owner[d] = k
             PROVE  c = d
  BY DEF Conv!OneConversation
<1>1. Found(k, c) /\ Found(k, d)
  BY DEF AllSteady, Steady
<1> QED BY <1>1 DEF Found

\* At the start no thread has had a turn.
LEMMA SteadyBegins == Conv!Init => AllSteady
  BY DEF Conv!Init, AllSteady, Steady, Found, Busy

\* A thread continues in one conversation, across turns, restarts and other threads' turns,
\* unless a save of it failed, its conversation was gone or its turns overlapped.
THEOREM ThreadsKeepTheirConversation == ConvSafety => []Conv!OneConversation
<1>1. ConvInv /\ AllSteady /\ [Conv!Next]_(Conv!vars) => AllSteady'
  BY SteadyNext
<1>2. ConvInv /\ AllSteady => Conv!OneConversation
  BY SteadyKeepsOne
<1> QED BY <1>1, <1>2, SteadyBegins, ConvInvariance, PTL DEF ConvSafety

-----------------------------------------------------------------------------
(* Conversations: the file implements the abstract store *)

\* A new entry changes one thread's mapping only (Record).
LEMMA RecordChanges ==
  ASSUME ConvInv, NEW r \in Req, Conv!Record(r)
  PROVE  Conv!Atomic!Change \/ UNCHANGED <<up, entries, file>>
<1>1. CASE UNCHANGED Conv!store
  BY <1>1 DEF Conv!Record, Conv!store
<1>2. CASE entries' = [entries EXCEPT ![key[r]] = resp[r].id] /\ UNCHANGED file
  <2>1. up /\ up' /\ key[r] \in Thread
    BY DEF ConvInv, Held, HoldsOwn, Conv!Record
  <2>2. \A j \in Thread \ {key[r]} : entries[j] = entries'[j]
    BY <1>2, ConvTyped DEF ConvInv
  <2> QED BY <1>2, <2>1, <2>2 DEF Conv!Atomic!Change
<1> QED BY <1>1, <1>2 DEF Conv!Record

\* Whatever fails or ends the proxy between the write of the temporary file and its rename,
\* the file is replaced by the whole of what memory holds at that moment, or stays: the one
\* who renames is the one who wrote, and the map stood still in between (set and save).
THEOREM ConversationsImplementAtomicStore == ConvSafety => Conv!ImplementsAtomicStore
<1>1. Conv!Init => Conv!Atomic!Init
  BY DEF Conv!Init, Conv!Atomic!Init, Conv!NoEntries
<1>2. ConvInv /\ [Conv!Next]_(Conv!vars)
        => [Conv!Atomic!Next]_<<IF up THEN entries ELSE file, file>>
  <2> SUFFICES ASSUME ConvInv, [Conv!Next]_(Conv!vars)
               PROVE  [Conv!Atomic!Next]_<<IF up THEN entries ELSE file, file>>
    OBVIOUS
  <2>1. ASSUME UNCHANGED <<up, entries, file>>
        PROVE  UNCHANGED <<IF up THEN entries ELSE file, file>>
    BY <2>1
  <2>2. ASSUME NEW r \in Req, NEW j \in Keys, Conv!Arrive(r, j) PROVE UNCHANGED <<up, entries, file>>
    BY <2>2 DEF Conv!Arrive, Conv!store
  <2>3. ASSUME NEW r \in Req, Conv!Lookup(r) \/ Conv!Forward(r) \/ Conv!Retry(r)
        PROVE  UNCHANGED <<up, entries, file>>
    BY <2>3 DEF Conv!Lookup, Conv!Forward, Conv!Retry, Conv!store
  <2>4. ASSUME NEW r \in Req, Conv!WriteTmp(r) \/ Conv!Rename(r)
        PROVE  Conv!Atomic!Save \/ UNCHANGED <<up, entries, file>>
    <3>1. CASE Conv!WriteTmp(r)
      BY <3>1 DEF Conv!WriteTmp
    <3>2. CASE Conv!Rename(r)
      <4>1. tmp = entries /\ up
        BY <3>2 DEF Conv!Rename, ConvInv, TmpWhole, Held, HoldsOwn
      <4>2. UNCHANGED <<up, entries>> /\ file' \in {file, entries}
        BY <3>2, <4>1 DEF Conv!Rename
      <4> QED BY <4>1, <4>2 DEF Conv!Atomic!Save
    <3> QED BY <2>4, <3>1, <3>2
  <2>5. CASE Conv!Crash \/ Conv!Start
    BY <2>5 DEF Conv!Crash, Conv!Start, Conv!Atomic!Next, Conv!Atomic!Restart, Conv!NoEntries
  <2>6. CASE UNCHANGED Conv!vars
    BY <2>1, <2>6 DEF Conv!vars, Conv!store
  <2> QED BY <2>1, <2>2, <2>3, <2>4, <2>5, <2>6, RecordChanges
          DEF Conv!Next, Conv!Step, Conv!Atomic!Next, Keys
<1> QED BY <1>1, <1>2, ConvInvariance, PTL DEF ConvSafety, Conv!ImplementsAtomicStore, Conv!Atomic!Spec

-----------------------------------------------------------------------------
(* ChatLoop: the inductive invariant *)

ChatSafety == Chat!Init /\ [][Chat!Next]_(Chat!vars)

\* Every call in the messages added so far was run and is followed by its result, up to
\* here.
Paired(size) ==
  \A i \in given + 1..size : \A k \in DOMAIN msgs[i].calls :
    /\ i + k <= size /\ msgs[i + k].answers = <<msgs[i].calls[k]>>
    /\ Chat!Ran(i, k, i + k) \in Chat!Range(ran)

\* The loop is at the assistant's message t: all before it is paired, and after it come
\* the results of its first calls, but not yet of the last.
Running(t) ==
  /\ t \in given + 1..Len(msgs) /\ msgs[t].role = "assistant" /\ Paired(t - 1)
  /\ Len(msgs) - t < Len(msgs[t].calls)
  /\ \A i \in t + 1..Len(msgs) : msgs[i].role = "tool" /\ msgs[i].calls = <<>>
  /\ \A k \in 1..Len(msgs) - t :
       msgs[t + k].answers = <<msgs[t].calls[k]>> /\ Chat!Ran(t, k, t + k) \in Chat!Range(ran)

\* A call was run for a place: one of the g messages the client sent, which answers it, or
\* the place after it where its result belongs.
Recorded(e, ms, g) ==
  /\ e.call[1] \in 1..e.at - 1
  /\ IF e.at <= g THEN ms[e.call[1]].calls[e.call[2]] = ms[e.at].answers[1]
     ELSE e.call[1] > g /\ e.at = e.call[1] + e.call[2]

\* Calls were run for one place each.
Log ==
  /\ \A i, j \in DOMAIN ran : i # j => ran[i].at # ran[j].at
  /\ \A i \in DOMAIN ran : Recorded(ran[i], msgs, given)

\* What is repaired lacks nothing any more, so that it is not repaired again.
Repaired ==
  chatPc \in {"repair", "prepare"} =>
    Len(msgs) = given /\ \A i \in DOMAIN ran : ran[i].at \notin Chat!Lacking

ChatInv ==
  /\ Chat!TypeOK /\ Repaired /\ Log
  /\ chatPc = "idle" => msgs = <<>> /\ ran = <<>>
  /\ chatPc \in {"idle", "repair", "prepare", "stream"} => round = 0
  /\ chatPc = "forward" => round < MaxIterations
  /\ chatPc \in {"prepare", "stream", "forward", "run"} => Chat!Lacking = {}
  /\ chatPc \in {"stream", "forward"} => Paired(Len(msgs))
  /\ chatPc = "run" => \E t \in DOMAIN msgs : Running(t)
  /\ status = 200 => \A i \in DOMAIN ran : ran[i].at <= shown

Entry(n) == [call: Nat \X Nat, at: 1..n]

ChatSteps == {"idle", "repair", "prepare", "stream", "forward", "run", "answered"}

\* The parts of the type invariant, for what they are used for.
LEMMA ChatTyped ==
  ASSUME Chat!TypeOK
  PROVE  /\ msgs \in Seq(Chat!Message) /\ Len(msgs) \in Nat
         /\ \A i \in 1..Len(msgs) : msgs[i] \in Chat!Message /\ msgs[i].calls \in Seq(Id)
         /\ given \in Nat /\ given <= Len(msgs) /\ shown \in Nat /\ shown <= Len(msgs)
         /\ chatPc \in ChatSteps /\ round \in Nat /\ MaxIterations \in Nat
         /\ ran \in Seq(Entry(Len(msgs))) /\ Len(ran) \in Nat /\ DOMAIN ran = 1..Len(ran)
         /\ \A i \in 1..Len(ran) : ran[i] \in Entry(Len(msgs)) /\ ran[i].at \in 1..Len(msgs)
<1>1. msgs \in Seq(Chat!Message) /\ Len(msgs) \in Nat /\ DOMAIN msgs = 1..Len(msgs)
  BY DEF Chat!TypeOK
<1>2. ASSUME NEW i \in 1..Len(msgs) PROVE msgs[i] \in Chat!Message /\ msgs[i].calls \in Seq(Id)
  <2>1. msgs[i] \in Chat!Message
    BY <1>1
  <2> QED BY <2>1 DEF Chat!Message
<1>3. given \in 0..Len(msgs) /\ shown \in 0..Len(msgs) /\ round \in 0..MaxIterations /\ MaxIterations \in Nat
  BY ServicesAssumption DEF Chat!TypeOK, ServicesAssumption, Chat!ChatLoopAssumption
<1>4. ran \in Seq(Entry(Len(msgs))) /\ chatPc \in ChatSteps
  BY <1>1 DEF Chat!TypeOK, ChatSteps, Entry
<1>5. \A i \in 1..Len(ran) : ran[i] \in Entry(Len(msgs)) /\ ran[i].at \in 1..Len(msgs)
  <2>1. \A i \in 1..Len(ran) : ran[i] \in Entry(Len(msgs))
    BY <1>4
  <2> QED BY <2>1 DEF Entry
<1> QED BY <1>1, <1>2, <1>3, <1>4, <1>5

\* The loop begins without a history.
LEMMA ChatBegins == Chat!Init => ChatInv
<1> SUFFICES ASSUME Chat!Init PROVE ChatInv
  OBVIOUS
<1>1. MaxIterations \in Nat /\ 0 < MaxIterations
  BY ServicesAssumption DEF ServicesAssumption, Chat!ChatLoopAssumption
<1>2. msgs = <<>> /\ ran = <<>> /\ Chat!Lacking = {} /\ Len(msgs) = 0
  BY DEF Chat!Init, Chat!Lacking
<1>3. msgs \in Seq(Chat!Message) /\ ran \in Seq([call: Nat \X Nat, at: DOMAIN msgs])
  BY <1>2
<1>4. /\ chatPc \in ChatSteps /\ tools \in BOOLEAN /\ stream \in BOOLEAN
      /\ status \in {0, 200, 400, 500, 502} /\ (status # 0 <=> chatPc = "answered")
  BY DEF Chat!Init, ChatSteps
<1>5. given \in 0..Len(msgs) /\ shown \in 0..Len(msgs) /\ round \in 0..MaxIterations
  BY <1>1, <1>2 DEF Chat!Init
<1>6. Chat!TypeOK
  BY <1>3, <1>4, <1>5 DEF Chat!TypeOK, ChatSteps
<1> QED BY <1>1, <1>2, <1>6 DEF Chat!Init, ChatInv, Repaired, Log

\* The turn the loop is at is the one the code's variable holds.
LEMMA TurnIs ==
  ASSUME Chat!TypeOK, NEW t \in DOMAIN msgs, Running(t)
  PROVE  Chat!Turn = t
<1> DEFINE Is == {i \in 1..Len(msgs) : msgs[i].role = "assistant"}
<1>0. Len(msgs) \in Nat /\ t \in 1..Len(msgs) /\ given \in Nat
  BY ChatTyped
<1>1. t \in Is /\ \A i \in Is : t >= i
  <2>1. t \in Is
    BY <1>0 DEF Running
  <2>2. ASSUME NEW i \in Is PROVE ~(i \in t + 1..Len(msgs))
    BY <2>2 DEF Running
  <2> QED BY <1>0, <2>1, <2>2
<1>2. Is \subseteq Nat
  BY <1>0
<1>3. Chat!Turn = Chat!Max(Is)
  BY <1>1 DEF Chat!Turn, Chat!SelectLastInSeq
<1> HIDE DEF Is
<1>4. \A x \in Is : (\A i \in Is : x >= i) => x = t
  BY <1>1, <1>2
<1> QED BY <1>1, <1>3, <1>4 DEF Chat!Max

-----------------------------------------------------------------------------
(* ChatLoop: each step keeps the invariant *)

\* A request brings a history in which calls and results may be anything.
LEMMA ChatReceives ==
  ASSUME ChatInv, Chat!Receive
  PROVE  ChatInv'
<1> USE DEF ChatInv
<1>0. MaxIterations \in Nat /\ 0 < MaxIterations /\ Histories \subseteq Seq(Chat!Message)
  BY ServicesAssumption DEF ServicesAssumption, Chat!ChatLoopAssumption
<1>1. chatPc = "idle" /\ ran = <<>> /\ ran' = <<>> /\ round = 0 /\ round' = 0 /\ shown' = shown /\ status = 0
  BY DEF Chat!Receive, Chat!TypeOK
<1>2. ran' \in Seq([call: Nat \X Nat, at: DOMAIN msgs']) /\ Log' /\ Len(ran') = 0
  BY <1>1 DEF Log
<1>3. CASE chatPc' = "answered" /\ status' = 400 /\ UNCHANGED <<msgs, given, stream>>
  <2>1. Chat!TypeOK'
    BY <1>1, <1>2, <1>3 DEF Chat!Receive, Chat!TypeOK
  <2> QED BY <1>1, <1>2, <1>3, <2>1 DEF Repaired
<1>4. CASE chatPc' = "repair" /\ status' = status /\ msgs' \in Histories /\ given' = Len(msgs')
           /\ stream' \in BOOLEAN
  <2>1. msgs' \in Seq(Chat!Message) /\ Len(msgs') \in Nat
    BY <1>0, <1>4
  <2>2. shown = 0
    BY <1>1 DEF Chat!TypeOK
  <2>3. Chat!TypeOK'
    BY <1>0, <1>1, <1>2, <1>4, <2>1, <2>2 DEF Chat!Receive, Chat!TypeOK
  <2> QED BY <1>0, <1>1, <1>2, <1>4, <2>1, <2>3 DEF Repaired
<1> QED BY <1>3, <1>4 DEF Chat!Receive, Chat!Reply

\* A list of entries stays one while more messages come.
LEMMA EntriesGrow ==
  ASSUME NEW m \in Nat, NEW n \in Nat, m <= n, NEW s \in Seq(Entry(m))
  PROVE  s \in Seq(Entry(n))
<1>1. Entry(m) \subseteq Entry(n)
  BY DEF Entry
<1>2. \A x \in 1..Len(s) : s[x] \in Entry(n)
  BY <1>1
<1> QED BY <1>2

\* What a list holds with one entry more.
LEMMA EntriesAppend ==
  ASSUME NEW S, NEW s \in Seq(S), NEW e \in S
  PROVE  /\ Append(s, e) \in Seq(S) /\ Chat!Range(Append(s, e)) = Chat!Range(s) \cup {e}
         /\ DOMAIN Append(s, e) = 1..Len(s) + 1 /\ DOMAIN s = 1..Len(s) /\ Len(s) \in Nat
         /\ Append(s, e)[Len(s) + 1] = e /\ \A j \in 1..Len(s) : Append(s, e)[j] = s[j]
<1> DEFINE t == Append(s, e)
<1>1. /\ t \in Seq(S) /\ DOMAIN t = 1..Len(s) + 1 /\ DOMAIN s = 1..Len(s) /\ Len(s) \in Nat
      /\ t[Len(s) + 1] = e /\ \A j \in 1..Len(s) : t[j] = s[j]
  OBVIOUS
<1> HIDE DEF t
<1>2. Chat!Range(t) = Chat!Range(s) \cup {e}
  <2>1. \A j \in 1..Len(s) + 1 : j \in 1..Len(s) \/ j = Len(s) + 1
    BY <1>1
  <2>2. 1..Len(s) \subseteq 1..Len(s) + 1 /\ Len(s) + 1 \in 1..Len(s) + 1
    BY <1>1
  <2> QED BY <1>1, <2>1, <2>2 DEF Chat!Range
<1> QED BY <1>1, <1>2 DEF t

\* An entry stays recorded while the calls and answers of the client's messages do.
LEMMA RecordedStays ==
  ASSUME NEW n \in Nat, NEW e \in Entry(n), NEW ms, NEW ns, NEW g \in Nat, Recorded(e, ms, g),
         \A i \in 1..g : ns[i].calls = ms[i].calls /\ ns[i].answers = ms[i].answers
  PROVE  Recorded(e, ns, g)
<1> DEFINE a == e.at
           t == e.call[1]
           k == e.call[2]
<1>1. a \in Nat /\ a > 0 /\ t \in Nat
  BY DEF Entry
<1>2. /\ t \in 1..a - 1
      /\ IF a <= g THEN ms[t].calls[k] = ms[a].answers[1] ELSE t > g /\ a = t + k
  BY DEF Recorded
<1> HIDE DEF a, t, k
<1>3. IF a <= g THEN ns[t].calls[k] = ns[a].answers[1] ELSE t > g /\ a = t + k
  <2>1. a <= g => a \in 1..g /\ t \in 1..g
    BY <1>1, <1>2
  <2> QED BY <1>2, <2>1
<1> QED BY <1>2, <1>3 DEF Recorded, a, t, k

\* So the log stays one while messages are added or given content.
LEMMA LogStays ==
  ASSUME ChatInv, UNCHANGED <<given, ran>>,
         \A i \in 1..given : msgs'[i].calls = msgs[i].calls /\ msgs'[i].answers = msgs[i].answers
  PROVE  Log'
<1>1. /\ given \in Nat /\ Len(msgs) \in Nat /\ \A i \in DOMAIN ran : ran[i] \in Entry(Len(msgs))
      /\ Log
  BY ChatTyped DEF ChatInv
<1>2. ASSUME NEW i \in DOMAIN ran PROVE Recorded(ran[i], msgs', given)
  <2>1. Recorded(ran[i], msgs, given) /\ ran[i] \in Entry(Len(msgs))
    BY <1>1, <1>2 DEF Log
  <2> QED BY <1>1, <2>1, RecordedStays
<1> QED BY <1>1, <1>2 DEF Log

\* A call that is run for a new place makes the log longer.
LEMMA LogGrows ==
  ASSUME ChatInv, UNCHANGED given, NEW n \in Nat, Len(msgs) <= n, NEW e \in Entry(n),
         \A i \in 1..given : msgs'[i].calls = msgs[i].calls /\ msgs'[i].answers = msgs[i].answers,
         ran' = Append(ran, e), \A i \in DOMAIN ran : ran[i].at # e.at,
         Recorded(e, msgs', given)
  PROVE  /\ Log' /\ ran' \in Seq(Entry(n))
         /\ Chat!Range(ran) \subseteq Chat!Range(ran') /\ e \in Chat!Range(ran')
         /\ \A i \in DOMAIN ran' : ran'[i] = e \/ \E j \in DOMAIN ran : ran'[i] = ran[j]
<1>1. /\ given \in Nat /\ Len(msgs) \in Nat /\ \A i \in DOMAIN ran : ran[i] \in Entry(Len(msgs))
      /\ ran \in Seq(Entry(Len(msgs))) /\ Log
  BY ChatTyped DEF ChatInv
<1>2. ran \in Seq(Entry(n))
  BY <1>1, EntriesGrow
<1>3. /\ ran' \in Seq(Entry(n)) /\ Chat!Range(ran') = Chat!Range(ran) \cup {e}
      /\ DOMAIN ran' = 1..Len(ran) + 1 /\ DOMAIN ran = 1..Len(ran) /\ Len(ran) \in Nat
      /\ ran'[Len(ran) + 1] = e /\ \A j \in 1..Len(ran) : ran'[j] = ran[j]
  BY <1>2, EntriesAppend
<1>4. ASSUME NEW i \in DOMAIN ran PROVE Recorded(ran[i], msgs', given)
  <2>1. Recorded(ran[i], msgs, given) /\ ran[i] \in Entry(Len(msgs))
    BY <1>1, <1>4 DEF Log
  <2> QED BY <1>1, <2>1, RecordedStays
<1>5. \A i \in DOMAIN ran' : i = Len(ran) + 1 \/ i \in DOMAIN ran
  BY <1>3
<1>6. \A i \in DOMAIN ran' : Recorded(ran'[i], msgs', given)
  BY <1>3, <1>4, <1>5
<1>7. \A i, j \in DOMAIN ran' : i # j => ran'[i].at # ran'[j].at
  BY <1>1, <1>3, <1>5 DEF Log
<1> QED BY <1>3, <1>5, <1>6, <1>7 DEF Log

\* The repair pairs every result with a call before it.
LEMMA ChatRepairs ==
  ASSUME ChatInv, Chat!Repair
  PROVE  ChatInv'
<1> USE DEF ChatInv
<1>1. /\ chatPc = "repair" /\ Len(msgs) = given /\ round = 0 /\ Log
      /\ \A j \in DOMAIN ran : ran[j].at \notin Chat!Lacking
      /\ UNCHANGED <<given, tools, stream, round, shown, status>> /\ status = 0
  BY DEF Chat!Repair, Repaired, Chat!TypeOK
<1>2. CASE Chat!Lacking = {}
  <2>1. chatPc' = "prepare" /\ UNCHANGED <<msgs, ran>>
    BY <1>2 DEF Chat!Repair
  <2>2. Chat!TypeOK'
    BY <1>1, <2>1 DEF Chat!TypeOK
  <2> QED BY <1>1, <1>2, <2>1, <2>2 DEF Repaired, Log, Chat!Lacking
<1>3. CASE Chat!Lacking # {}
  <2>1. PICK i \in Chat!Lacking :
          /\ msgs' = [msgs EXCEPT ![i].content = "text"] /\ chatPc' = chatPc
          /\ \/ \E t \in 1..i - 1 : \E k \in DOMAIN msgs[t].calls :
                  Chat!CallFound(i, t, k) /\ ran' = Append(ran, Chat!Ran(t, k, i))
             \/ ran' = ran
    BY <1>3 DEF Chat!Repair
  <2>2. i \in 1..Len(msgs) /\ Len(msgs) \in Nat /\ msgs[i] \in Chat!Message
    BY ChatTyped DEF Chat!Lacking
  <2>3. [msgs[i] EXCEPT !.content = "text"] \in Chat!Message
    BY <2>2 DEF Chat!Message, Chat!Contents
  <2>4. msgs' \in Seq(Chat!Message) /\ Len(msgs') = Len(msgs)
    <3> DEFINE e == [msgs[i] EXCEPT !.content = "text"]
    <3>1. msgs' = [msgs EXCEPT ![i] = e] /\ msgs \in Seq(Chat!Message) /\ e \in Chat!Message
      BY <2>1, <2>3, ChatTyped
    <3> HIDE DEF e, ChatInv
    <3> QED BY <2>2, <3>1
  <2>5. /\ msgs'[i] = [msgs[i] EXCEPT !.content = "text"]
        /\ \A j \in 1..Len(msgs) : j # i => msgs'[j] = msgs[j]
    <3> DEFINE e == [msgs[i] EXCEPT !.content = "text"]
    <3>1. msgs' = [msgs EXCEPT ![i] = e] /\ msgs \in Seq(Chat!Message)
      BY <2>1, ChatTyped
    <3>2. e = [msgs[i] EXCEPT !.content = "text"]
      OBVIOUS
    <3> HIDE DEF e, ChatInv
    <3>3. msgs'[i] = e /\ \A j \in 1..Len(msgs) : j # i => msgs'[j] = msgs[j]
      BY <2>2, <3>1
    <3> QED BY <3>2, <3>3
  <2>6. Chat!Lacking' \subseteq Chat!Lacking \ {i}
    <3>1. msgs'[i].content = "text"
      BY <2>2, <2>5 DEF Chat!Message
    <3>2. DOMAIN msgs' = DOMAIN msgs /\ DOMAIN msgs = 1..Len(msgs)
      BY <2>1, ChatTyped
    <3> QED BY <2>5, <3>1, <3>2 DEF Chat!Lacking
  <2>7. /\ ran' \in Seq(Entry(Len(msgs))) /\ Log'
        /\ \A j \in DOMAIN ran' : ran'[j].at \notin Chat!Lacking'
    <3>0. /\ given \in Nat /\ given = Len(msgs) /\ given' = given
          /\ \A j \in 1..given : msgs'[j].calls = msgs[j].calls /\ msgs'[j].answers = msgs[j].answers
      BY <1>1, <2>2, <2>5 DEF Chat!Message
    <3>1. CASE ran' = ran
      <4>1. Log'
        BY <3>0, <3>1, LogStays
      <4> QED BY <1>1, <2>6, <3>1, <4>1, ChatTyped
    <3>2. ASSUME NEW t \in 1..i - 1, NEW k \in DOMAIN msgs[t].calls, Chat!CallFound(i, t, k),
                 ran' = Append(ran, Chat!Ran(t, k, i))
          PROVE  /\ ran' \in Seq(Entry(Len(msgs))) /\ Log'
                 /\ \A j \in DOMAIN ran' : ran'[j].at \notin Chat!Lacking'
      <4> DEFINE e == Chat!Ran(t, k, i)
      <4>1. t \in Nat /\ t \in 1..Len(msgs) /\ k \in Nat
        BY <2>2, <3>2, ChatTyped
      <4>2. e \in Entry(Len(msgs)) /\ e.at = i /\ e.call[1] = t /\ e.call[2] = k
        BY <2>2, <4>1 DEF Chat!Ran, Entry
      <4>3. msgs'[t].calls[k] = msgs'[i].answers[1]
        BY <2>2, <3>0, <3>2, <4>1 DEF Chat!CallFound, Chat!Answers
      <4>4. Recorded(e, msgs', given)
        <5> HIDE DEF e, ChatInv
        <5> QED BY <2>2, <3>0, <3>2, <4>2, <4>3 DEF Recorded
      <4>5. \A j \in DOMAIN ran : ran[j].at # e.at
        BY <1>1, <4>2
      <4>6. ChatInv
        OBVIOUS
      <4> HIDE DEF e, ChatInv
      <4>7. /\ Log' /\ ran' \in Seq(Entry(Len(msgs)))
            /\ \A j \in DOMAIN ran' : ran'[j] = e \/ \E l \in DOMAIN ran : ran'[j] = ran[l]
        BY <2>2, <3>0, <3>2, <4>2, <4>4, <4>5, <4>6, LogGrows DEF e
      <4> QED BY <1>1, <2>6, <4>2, <4>7
    <3> QED BY <2>1, <3>1, <3>2
  <2>8. DOMAIN msgs' = 1..Len(msgs)
    BY <2>4
  <2>9. Chat!TypeOK'
    BY <1>1, <2>1, <2>4, <2>7, <2>8 DEF Chat!TypeOK, Entry
  <2> QED BY <1>1, <2>1, <2>4, <2>7, <2>9 DEF Repaired
<1> QED BY <1>2, <1>3

\* Preparing a turn adds nothing the repair would have to remove.
LEMMA ChatPrepares ==
  ASSUME ChatInv, Chat!Prepare
  PROVE  ChatInv'
<1> USE DEF ChatInv
<1>1. /\ chatPc = "prepare" /\ chatPc' \in {"stream", "forward"} /\ tools' \in BOOLEAN
      /\ Len(msgs) = given /\ round = 0 /\ Chat!Lacking = {}
      /\ UNCHANGED <<given, stream, round, ran, shown, status>> /\ status = 0
  BY DEF Chat!Prepare, Repaired, Chat!TypeOK
<1>2. /\ msgs' \in Seq(Chat!Message) /\ Len(msgs') = Len(msgs) /\ Len(msgs) \in Nat
      /\ \A i \in 1..Len(msgs) :
           /\ msgs'[i] = msgs[i] \/ (msgs'[i].content = "blank")
           /\ msgs'[i].calls = msgs[i].calls /\ msgs'[i].answers = msgs[i].answers
  <2>1. ASSUME NEW i \in 1..Len(msgs)
        PROVE  /\ [msgs[i] EXCEPT !.content = "blank"] \in Chat!Message
               /\ [msgs[i] EXCEPT !.content = "blank"].content = "blank"
               /\ [msgs[i] EXCEPT !.content = "blank"].calls = msgs[i].calls
               /\ [msgs[i] EXCEPT !.content = "blank"].answers = msgs[i].answers
    <3>1. msgs[i] \in Chat!Message
      BY <2>1, ChatTyped
    <3> QED BY <3>1 DEF Chat!Message, Chat!Contents
  <2>2. CASE msgs' = [i \in DOMAIN msgs |->
                        IF msgs[i].content = "none" THEN [msgs[i] EXCEPT !.content = "blank"] ELSE msgs[i]]
    <3> DEFINE e(i) == IF msgs[i].content = "none" THEN [msgs[i] EXCEPT !.content = "blank"] ELSE msgs[i]
    <3>1. \A i \in 1..Len(msgs) :
            /\ e(i) \in Chat!Message /\ (e(i) = msgs[i] \/ e(i).content = "blank")
            /\ e(i).calls = msgs[i].calls /\ e(i).answers = msgs[i].answers
      BY <2>1, ChatTyped
    <3>2. msgs' = [i \in 1..Len(msgs) |-> e(i)] /\ Len(msgs) \in Nat
      BY <2>2, ChatTyped
    <3> HIDE DEF e, ChatInv
    <3> QED BY <3>1, <3>2
  <2>3. CASE msgs' = msgs
    BY <2>3, ChatTyped
  <2> QED BY <2>2, <2>3 DEF Chat!Prepare
<1>3. Chat!Lacking' = {}
  <2> SUFFICES ASSUME NEW i \in DOMAIN msgs', msgs'[i].role = "tool", msgs'[i].content = "none" PROVE FALSE
    BY DEF Chat!Lacking
  <2>1. i \in 1..Len(msgs)
    BY <1>2
  <2>2. msgs'[i] = msgs[i]
    BY <1>2, <2>1
  <2> QED BY <1>1, <2>1, <2>2, ChatTyped DEF Chat!Lacking
<1>4. DOMAIN msgs' = 1..Len(msgs) /\ DOMAIN msgs = 1..Len(msgs)
  BY <1>2, ChatTyped
<1>5. Chat!TypeOK'
  BY <1>1, <1>2, <1>4 DEF Chat!TypeOK
<1>6. Paired(Len(msgs))'
  BY <1>1, <1>2, ChatTyped DEF Paired
<1>7. 0 < MaxIterations
  BY ServicesAssumption DEF ServicesAssumption, Chat!ChatLoopAssumption
<1>8. Log'
  BY <1>1, <1>2, LogStays
<1> QED BY <1>1, <1>2, <1>3, <1>5, <1>6, <1>7, <1>8 DEF Repaired

\* What the model streams ends in a message of its own.
LEMMA ChatStreams ==
  ASSUME ChatInv, Chat!Stream
  PROVE  ChatInv'
<1> USE DEF ChatInv
<1>1. /\ chatPc' = "answered" /\ status' \in {200, 400, 500, 502} /\ shown' = Len(msgs)
      /\ UNCHANGED <<msgs, given, tools, stream, round, ran>>
  BY DEF Chat!Stream, Chat!Reply
<1>2. Chat!TypeOK'
  BY <1>1, ChatTyped DEF Chat!TypeOK
<1>3. Log'
  BY <1>1 DEF Log
<1> QED BY <1>1, <1>2, <1>3, ChatTyped DEF Repaired

\* Calls that are not the proxy's go back to the client.
LEMMA ChatForwards ==
  ASSUME ChatInv, Chat!Forward
  PROVE  ChatInv'
<1> USE DEF ChatInv
<1> PICK size \in Nat : size = Len(msgs)
  BY ChatTyped
<1>1. /\ chatPc = "forward" /\ shown' = Len(msgs) /\ round' = round + 1 /\ round' \in 0..MaxIterations
      /\ Chat!Lacking = {} /\ Paired(Len(msgs)) /\ Log /\ status = 0
      /\ UNCHANGED <<given, tools, stream, ran>>
  BY ChatTyped DEF Chat!Forward, Chat!TypeOK
<1>2. CASE chatPc' = "answered" /\ status' \in {200, 500} /\ UNCHANGED msgs
  <2>1. Chat!TypeOK'
    BY <1>1, <1>2, ChatTyped DEF Chat!TypeOK
  <2> QED BY <1>1, <1>2, <2>1, ChatTyped DEF Repaired, Log
<1>3. ASSUME chatPc' = "run", UNCHANGED status,
             NEW content \in {"text", "none"}, NEW n \in 1..MaxCalls, NEW calls \in [1..n -> Id],
             msgs' = Append(msgs, Chat!Assistant(content, calls))
      PROVE  ChatInv'
  <2> DEFINE m == Chat!Assistant(content, calls)
  <2>1. /\ MaxCalls \in Nat /\ n \in Nat /\ 0 < n /\ calls \in Seq(Id) /\ Len(calls) = n
    BY ServicesAssumption DEF ServicesAssumption, Chat!ChatLoopAssumption
  <2>2. m \in Chat!Message /\ m.role = "assistant" /\ m.calls = calls
    BY <2>1 DEF Chat!Assistant, Chat!Message, Chat!Contents
  <2> HIDE DEF m
  <2>3. /\ msgs' \in Seq(Chat!Message) /\ Len(msgs') = Len(msgs) + 1 /\ Len(msgs) \in Nat
        /\ msgs'[Len(msgs) + 1] = m /\ \A i \in 1..Len(msgs) : msgs'[i] = msgs[i]
        /\ DOMAIN msgs' = 1..Len(msgs) + 1 /\ DOMAIN msgs = 1..Len(msgs)
    <3>1. msgs' = Append(msgs, m) /\ msgs \in Seq(Chat!Message) /\ Len(msgs) \in Nat
      BY <1>3, ChatTyped DEF m
    <3> HIDE DEF ChatInv
    <3> QED BY <2>2, <3>1
  <2>4. Chat!Lacking' = {}
    BY <1>1, <2>2, <2>3 DEF Chat!Lacking
  <2>5. ran' \in Seq(Entry(Len(msgs) + 1)) /\ Log'
    <3>1. ran \in Seq(Entry(Len(msgs))) /\ given \in Nat /\ given <= Len(msgs)
      BY ChatTyped
    <3>2. Log'
      BY <1>1, <2>3, <3>1, LogStays
    <3> HIDE DEF ChatInv
    <3>3. ran \in Seq(Entry(Len(msgs) + 1))
      BY <2>3, <3>1, EntriesGrow
    <3> QED BY <1>1, <2>3, <3>2, <3>3
  <2>6. Chat!TypeOK'
    BY <1>1, <1>3, <2>3, <2>5, ChatTyped DEF Chat!TypeOK, Entry
  <2>7. Running(size + 1)'
    <3>1. \A i \in given' + 1..size : i \in 1..size
      BY <1>1, ChatTyped
    <3>2. \A i \in given' + 1..size : \A k \in DOMAIN msgs[i].calls : k \in Nat /\ k > 0
      BY <3>1, ChatTyped
    <3>3. \A i \in given' + 1..size : \A k \in DOMAIN msgs'[i].calls :
            /\ i + k <= size /\ msgs'[i + k].answers = <<msgs'[i].calls[k]>>
            /\ Chat!Ran(i, k, i + k) \in Chat!Range(ran)
      <4> SUFFICES ASSUME NEW i \in given' + 1..size, NEW k \in DOMAIN msgs'[i].calls
                   PROVE  /\ i + k <= size /\ msgs'[i + k].answers = <<msgs'[i].calls[k]>>
                          /\ Chat!Ran(i, k, i + k) \in Chat!Range(ran)
        OBVIOUS
      <4>1. msgs'[i] = msgs[i] /\ k \in Nat /\ k > 0 /\ i \in 1..size
        BY <2>3, <3>1, <3>2
      <4>2. /\ i + k <= size /\ msgs[i + k].answers = <<msgs[i].calls[k]>>
            /\ Chat!Ran(i, k, i + k) \in Chat!Range(ran)
        BY <1>1, <4>1 DEF Paired
      <4>3. i + k \in 1..size
        BY <2>3, <4>1, <4>2
      <4> QED BY <2>3, <4>1, <4>2, <4>3
    <3>4. Paired(size)'
      BY <1>1, <3>3, <2>3 DEF Paired
    <3> QED BY <1>1, <2>1, <2>2, <2>3, <3>4, ChatTyped DEF Running
  <2>8. \E t \in DOMAIN msgs' : Running(t)'
    BY <2>3, <2>7
  <2> QED BY <1>1, <1>3, <2>4, <2>5, <2>6, <2>8 DEF Repaired
<1> QED BY <1>2, <1>3 DEF Chat!Forward, Chat!Reply

\* A tool that was run adds its result right after its call's message.
LEMMA ChatRuns ==
  ASSUME ChatInv, Chat!Run
  PROVE  ChatInv'
<1>0. Chat!TypeOK
  BY DEF ChatInv
<1>1. PICK t \in DOMAIN msgs : Running(t)
  BY DEF Chat!Run, ChatInv
<1>2. Chat!Turn = t
  BY <1>0, <1>1, TurnIs
<1> PICK size \in Nat : size = Len(msgs)
  BY <1>0, ChatTyped
<1>3. /\ t \in given + 1..size /\ t \in 1..size /\ given \in Nat /\ msgs[t].calls \in Seq(Id)
      /\ Len(msgs[t].calls) \in Nat /\ size - t \in Nat /\ size - t < Len(msgs[t].calls)
  BY <1>1, <1>0, ChatTyped DEF Running
<1> DEFINE m == Chat!ToolResult("text", msgs[t].calls[size - t + 1])
           e == Chat!Ran(t, size - t + 1, size + 1)
<1>4. /\ chatPc = "run" /\ msgs' = Append(msgs, m)
      /\ ran' = Append(ran, Chat!Ran(t, size - t + 1, Len(msgs')))
      /\ UNCHANGED <<given, tools, stream, round, shown>> /\ status = 0
      /\ Chat!Lacking = {} /\ round <= MaxIterations
  BY <1>2, <1>0, ChatTyped DEF Chat!Run, Chat!Done, Chat!TypeOK, ChatInv
<1>5. m \in Chat!Message /\ m.role = "tool" /\ m.content = "text" /\ m.calls = <<>>
      /\ m.answers = <<msgs[t].calls[size - t + 1]>>
  <2>1. msgs[t].calls[size - t + 1] \in Id
    BY <1>3
  <2> QED BY <2>1 DEF Chat!ToolResult, Chat!Message, Chat!Contents
<1> HIDE DEF m
<1>6. /\ msgs' \in Seq(Chat!Message) /\ Len(msgs') = size + 1
      /\ msgs'[size + 1] = m /\ \A i \in 1..size : msgs'[i] = msgs[i]
      /\ DOMAIN msgs' = 1..size + 1 /\ DOMAIN msgs = 1..size
  <2>1. msgs \in Seq(Chat!Message)
    BY <1>0, ChatTyped
  <2> QED BY <1>4, <1>5, <2>1
<1>7. Chat!Lacking' = {}
  BY <1>4, <1>5, <1>6 DEF Chat!Lacking
<1>8. /\ ran' \in Seq(Entry(size + 1)) /\ Log'
      /\ Chat!Range(ran) \subseteq Chat!Range(ran') /\ e \in Chat!Range(ran')
  <2>1. ran' = Append(ran, e)
    BY <1>4, <1>6
  <2>2. e \in Entry(size + 1) /\ e.at = size + 1 /\ e.call[1] = t /\ e.call[2] = size - t + 1
    BY <1>3 DEF Chat!Ran, Entry
  <2> HIDE DEF e
  <2>3. /\ given <= size /\ \A j \in DOMAIN ran : ran[j].at # e.at
        /\ \A i \in 1..given : msgs'[i].calls = msgs[i].calls /\ msgs'[i].answers = msgs[i].answers
    <3>1. given <= size /\ \A j \in DOMAIN ran : ran[j].at \in 1..size
      BY <1>0, ChatTyped
    <3>2. \A i \in 1..given : i \in 1..size
      BY <1>3, <3>1
    <3> QED BY <1>6, <2>2, <3>1, <3>2
  <2>4. Recorded(e, msgs', given)
    BY <1>3, <2>2 DEF Recorded
  <2>5. size + 1 \in Nat /\ Len(msgs) <= size + 1 /\ UNCHANGED given
    BY <1>4
  <2> QED BY <2>1, <2>2, <2>3, <2>4, <2>5, LogGrows
<1>9. ASSUME NEW i \in given + 1..t - 1, NEW k \in DOMAIN msgs'[i].calls
      PROVE  /\ k \in Nat /\ i + k <= t - 1 /\ msgs'[i + k].answers = <<msgs'[i].calls[k]>>
             /\ Chat!Ran(i, k, i + k) \in Chat!Range(ran')
  <2>1. i \in 1..size
    BY <1>3
  <2>2. msgs'[i] = msgs[i] /\ k \in Nat /\ k > 0
    BY <1>6, <1>9, <2>1, <1>0, ChatTyped
  <2>3. /\ i + k <= t - 1 /\ msgs[i + k].answers = <<msgs[i].calls[k]>>
        /\ Chat!Ran(i, k, i + k) \in Chat!Range(ran)
    BY <1>1, <2>2 DEF Running, Paired
  <2>4. i + k \in 1..size
    BY <1>3, <2>1, <2>2, <2>3
  <2> QED BY <1>6, <1>8, <2>2, <2>3, <2>4
<1>10. ASSUME NEW k \in 1..size + 1 - t
       PROVE  /\ msgs'[t + k].answers = <<msgs'[t].calls[k]>>
              /\ Chat!Ran(t, k, t + k) \in Chat!Range(ran')
  <2>0. msgs'[t] = msgs[t]
    BY <1>3, <1>6
  <2>1. CASE k = size + 1 - t
    <3>1. k = size - t + 1 /\ t + k = size + 1
      BY <1>3, <2>1
    <3> QED BY <1>5, <1>6, <1>8, <2>0, <3>1
  <2>2. CASE k # size + 1 - t
    <3>1. k \in 1..size - t /\ t + k \in 1..size
      BY <1>3, <2>2
    <3> QED BY <1>1, <1>6, <1>8, <2>0, <3>1 DEF Running
  <2> QED BY <2>1, <2>2
<1>11. \A i \in t + 1..size + 1 : msgs'[i].role = "tool" /\ msgs'[i].calls = <<>>
  <2> SUFFICES ASSUME NEW i \in t + 1..size + 1 PROVE msgs'[i].role = "tool" /\ msgs'[i].calls = <<>>
    OBVIOUS
  <2>1. CASE i = size + 1
    BY <1>5, <1>6, <2>1
  <2>2. CASE i # size + 1
    <3>1. i \in t + 1..size /\ i \in 1..size
      BY <1>3, <2>2
    <3> QED BY <1>1, <1>6, <3>1 DEF Running
  <2> QED BY <2>1, <2>2
<1>12. msgs'[t] = msgs[t] /\ DOMAIN msgs'[t].calls = 1..Len(msgs[t].calls)
  BY <1>3, <1>6
<1>13. CASE size - t + 1 < Len(msgs[t].calls)
  <2>1. UNCHANGED <<chatPc, status>>
    BY <1>2, <1>13 DEF Chat!Run, Chat!Done
  <2>2. Paired(t - 1)'
    BY <1>4, <1>9 DEF Paired
  <2>3. msgs[t].role = "assistant"
    BY <1>1 DEF Running
  <2>4. Running(t)'
    <3>1. t \in given' + 1..Len(msgs') /\ Len(msgs') = size + 1
      BY <1>3, <1>4, <1>6
    <3>2. msgs'[t].role = "assistant" /\ Len(msgs') - t < Len(msgs'[t].calls)
      BY <1>3, <1>6, <1>12, <1>13, <2>3
    <3>3. /\ \A i \in t + 1..Len(msgs') : msgs'[i].role = "tool" /\ msgs'[i].calls = <<>>
          /\ \A k \in 1..Len(msgs') - t :
               msgs'[t + k].answers = <<msgs'[t].calls[k]>> /\ Chat!Ran(t, k, t + k) \in Chat!Range(ran')
      BY <1>10, <1>11, <3>1
    <3> QED BY <2>2, <3>1, <3>2, <3>3 DEF Running
  <2>5. Chat!TypeOK'
    BY <1>4, <1>6, <1>8, <2>1, <1>0, ChatTyped DEF Chat!TypeOK, Entry
  <2>6. \E u \in DOMAIN msgs' : Running(u)'
    BY <1>3, <1>6, <2>4
  <2> QED BY <1>4, <1>7, <1>8, <2>1, <2>5, <2>6 DEF ChatInv, Repaired
<1>14. CASE ~(size - t + 1 < Len(msgs[t].calls))
  <2>1. Len(msgs[t].calls) = size - t + 1
    BY <1>3, <1>14
  <2>2. IF round = MaxIterations THEN chatPc' = "answered" /\ status' = 500
        ELSE chatPc' = "forward" /\ UNCHANGED status
    BY <1>2, <1>14 DEF Chat!Run, Chat!Done, Chat!Reply
  <2>3. ASSUME NEW i \in given + 1..size + 1, NEW k \in DOMAIN msgs'[i].calls
        PROVE  /\ i + k <= size + 1 /\ msgs'[i + k].answers = <<msgs'[i].calls[k]>>
               /\ Chat!Ran(i, k, i + k) \in Chat!Range(ran')
    <3>1. CASE i \in given + 1..t - 1
      BY <1>3, <1>9, <3>1
    <3>2. CASE i = t
      <4>1. k \in 1..size + 1 - t
        BY <1>3, <1>12, <2>1, <2>3, <3>2
      <4> QED BY <1>3, <1>10, <3>2, <4>1
    <3>3. CASE i \in t + 1..size + 1
      BY <1>11, <2>3, <3>3
    <3> QED BY <1>3, <3>1, <3>2, <3>3
  <2>4. Paired(Len(msgs))'
    <3>1. given' = given /\ Len(msgs') = size + 1
      BY <1>4, <1>6
    <3> QED BY <2>3, <3>1 DEF Paired
  <2>5. Chat!TypeOK'
    BY <1>4, <1>6, <1>8, <2>2, <1>0, ChatTyped DEF Chat!TypeOK, Entry
  <2> QED BY <1>4, <1>7, <1>8, <2>2, <2>4, <2>5, <1>0, ChatTyped DEF ChatInv, Repaired
<1> QED BY <1>13, <1>14

\* Every step of the loop keeps the invariant.
LEMMA ChatNext == ChatInv /\ [Chat!Next]_(Chat!vars) => ChatInv'
<1>1. ASSUME ChatInv, UNCHANGED Chat!vars PROVE ChatInv'
  <2>1. UNCHANGED <<chatPc, msgs, given, tools, stream, round, ran, shown, status>>
    BY <1>1 DEF Chat!vars
  <2>2. Chat!TypeOK' /\ Chat!Lacking' = Chat!Lacking /\ (Repaired' <=> Repaired)
    BY <1>1, <2>1 DEF ChatInv, Chat!TypeOK, Repaired, Chat!Lacking
  <2>3. Paired(Len(msgs))' <=> Paired(Len(msgs))
    BY <2>1 DEF Paired
  <2>4. \A t \in DOMAIN msgs : Running(t)' <=> Running(t)
    BY <2>1 DEF Running, Paired
  <2> QED BY <1>1, <2>1, <2>2, <2>3, <2>4 DEF ChatInv, Log
<1> QED BY <1>1, ChatReceives, ChatRepairs, ChatPrepares, ChatStreams, ChatForwards, ChatRuns
        DEF Chat!Next, Chat!Handle

\* The invariant of the loop holds in every behaviour of it.
LEMMA ChatInvariance == ChatSafety => []ChatInv
  BY ChatBegins, ChatNext, PTL DEF ChatSafety

\* A call has one entry in the log, but for one of the client's own history, which has one
\* for each of its results that came without content.
LEMMA RunOnce == ChatInv => Chat!CallsRunOnce
<1> SUFFICES ASSUME ChatInv PROVE Chat!CallsRunOnce
  OBVIOUS
<1>1. chatPc = "forward" =>
        \A t \in given + 1..Len(msgs) : \A k \in DOMAIN msgs[t].calls :
          Chat!Ran(t, k, t + k) \in Chat!Range(ran)
  BY DEF ChatInv, Paired
<1>2. ASSUME NEW i \in DOMAIN ran, NEW j \in DOMAIN ran, i # j, ran[i].call = ran[j].call
      PROVE  /\ ran[i].at # ran[j].at /\ {ran[i].at, ran[j].at} \subseteq 1..given
             /\ msgs[ran[i].at].answers[1] = msgs[ran[j].at].answers[1]
  <2> DEFINE a == ran[i].at
             b == ran[j].at
             t == ran[i].call[1]
             k == ran[i].call[2]
  <2>1. a # b /\ Recorded(ran[i], msgs, given) /\ Recorded(ran[j], msgs, given)
    BY <1>2 DEF ChatInv, Log
  <2>2. /\ a \in 1..Len(msgs) /\ b \in 1..Len(msgs) /\ Len(msgs) \in Nat
        /\ given \in Nat /\ t \in Nat /\ k \in Nat
    <3>1. ran[i] \in Entry(Len(msgs)) /\ ran[j] \in Entry(Len(msgs)) /\ Chat!TypeOK
      BY ChatTyped DEF ChatInv
    <3> QED BY <3>1, ChatTyped DEF Entry
  <2>3. /\ t \in 1..a - 1 /\ t \in 1..b - 1
        /\ IF a <= given THEN msgs[t].calls[k] = msgs[a].answers[1] ELSE t > given /\ a = t + k
        /\ IF b <= given THEN msgs[t].calls[k] = msgs[b].answers[1] ELSE t > given /\ b = t + k
    BY <1>2, <2>1 DEF Recorded
  <2> HIDE DEF a, b, t, k
  <2>4. a <= given /\ b <= given
    BY <2>1, <2>2, <2>3
  <2>5. a # b /\ {a, b} \subseteq 1..given /\ msgs[a].answers[1] = msgs[b].answers[1]
    BY <2>1, <2>2, <2>3, <2>4
  <2> QED BY <2>5 DEF a, b
<1> QED BY <1>1, <1>2 DEF Chat!CallsRunOnce

\* Whatever history the client sent, the model is asked with its own calls run, once each,
\* and their results in place, and the last answer is passed on only after the model has
\* seen the result of all that was run (main.go's tool loop and its repair).
THEOREM ResultsReachTheModel == ChatSafety => []Chat!ResultsReachModel
<1>1. ChatInv => Chat!CallsPaired
  BY DEF ChatInv, Chat!CallsPaired, Paired
<1>2. ChatInv => Chat!ToolsHaveContent /\ Chat!ResultsSeen
  BY DEF ChatInv, Chat!ToolsHaveContent, Chat!ResultsSeen
<1>3. ChatInv => Chat!ResultsReachModel
  BY <1>1, <1>2, RunOnce DEF Chat!ResultsReachModel
<1> QED BY <1>3, ChatInvariance, PTL

-----------------------------------------------------------------------------
(* ToolCache: the inductive invariant *)

CacheSafety == Cache!Init /\ [][Cache!Next]_(Cache!vars)

\* One refresh at a time fills the cache, with the write lock.
OneFetcher == \A q, r \in Req : cachePc[q] = "fetch" /\ cachePc[r] = "fetch" => q = r

\* It asks for each known group once.
Filling ==
  \A r \in Req : todo[r] \subseteq IF cachePc[r] = "fetch" THEN groups \ DOMAIN byGroup ELSE {}

\* Keywords lag behind the tools, and these behind the groups, only while the request
\* that will bring them up to date is under way.
Settling ==
  /\ keywords = byGroup \/ \E r \in Req : cachePc[r] \in {"fetch", "index"}
  /\ DOMAIN byGroup \subseteq groups \/ \E r \in Req : cachePc[r] = "lock"

CacheInv ==
  /\ Cache!TypeOK /\ OneFetcher /\ Filling /\ Settling
  /\ Cache!MappingCurrent /\ Cache!OfferedRunnable /\ Cache!BlacklistNeverRun

CacheSteps ==
  {"ask", "assign", "lock", "fetch", "index", "idle", "check", "select", "get", "chat"}

\* The parts of the type invariant, for what they are used for.
LEMMA CacheTyped ==
  ASSUME Cache!TypeOK
  PROVE  /\ cachePc \in [Req -> CacheSteps] /\ admin \in [Req -> BOOLEAN]
         /\ listing \in [Req -> SUBSET Group] /\ todo \in [Req -> SUBSET Group]
         /\ selected \in [Req -> SUBSET Group] /\ offered \in [Req -> SUBSET Tool]
         /\ mu = {r \in Req : cachePc[r] = "fetch"}
         /\ catalogue \in Catalogues /\ groups \subseteq Group
         /\ DOMAIN byGroup \subseteq Group /\ \A g \in DOMAIN byGroup : byGroup[g] \subseteq Tool
         /\ DOMAIN toGroup \subseteq Tool /\ \A n \in DOMAIN toGroup : toGroup[n] \in Group
  BY DEF Cache!TypeOK, CacheSteps, Cache!Refreshing, Cache!IsTools

\* A catalogue has tools of groups only.
LEMMA CatalogueTools ==
  ASSUME NEW f \in Catalogues
  PROVE  DOMAIN f \subseteq Group /\ \A g \in DOMAIN f : f[g] \subseteq Tool
  BY ServicesAssumption DEF ServicesAssumption, Cache!ToolCacheAssumption

\* The cache begins empty, with nobody refreshing it.
LEMMA CacheBegins == Cache!Init => CacheInv
<1> SUFFICES ASSUME Cache!Init PROVE CacheInv
  OBVIOUS
<1>1. DOMAIN Cache!NoTools = {}
  BY DEF Cache!NoTools
<1>2. Cache!TypeOK
  BY <1>1 DEF Cache!Init, Cache!TypeOK, Cache!IsTools, Cache!Refreshing
<1> QED BY <1>1, <1>2 DEF Cache!Init, CacheInv, OneFetcher, Filling, Settling, Cache!MappingCurrent,
           Cache!OfferedRunnable, Cache!BlacklistNeverRun, Cache!Found

-----------------------------------------------------------------------------
(* ToolCache: each step keeps the invariant *)

\* A step that leaves the cache alone, and comes neither from nor to the filling of it.
LEMMA CacheStays ==
  ASSUME CacheInv, Cache!TypeOK', NEW r \in Req,
         UNCHANGED <<groups, byGroup, toGroup, keywords, todo>>,
         \A q \in Req : q # r => cachePc'[q] = cachePc[q] /\ offered'[q] = offered[q],
         cachePc[r] \notin {"lock", "fetch", "index"}, cachePc'[r] # "fetch",
         \A t \in offered'[r] : t \in DOMAIN toGroup
  PROVE  CacheInv'
<1>1. OneFetcher' /\ Filling' /\ Settling'
  BY DEF CacheInv, OneFetcher, Filling, Settling
<1>2. Cache!MappingCurrent' /\ Cache!OfferedRunnable' /\ Cache!BlacklistNeverRun'
  BY DEF CacheInv, Cache!MappingCurrent, Cache!OfferedRunnable, Cache!BlacklistNeverRun, Cache!Found
<1> QED BY <1>1, <1>2 DEF CacheInv

\* A request that arrives has read nothing of the cache yet.
LEMMA CacheArrives ==
  ASSUME CacheInv, NEW r \in Req, Cache!ChatArrives(r) \/ Cache!AdminRefreshes(r)
  PROVE  CacheInv'
<1> USE DEF Cache!cache, Cache!Goto
<1>1. PICK step \in {"check", "ask"}, b \in BOOLEAN :
        /\ cachePc[r] = "idle" /\ cachePc' = [cachePc EXCEPT ![r] = step]
        /\ admin' = [admin EXCEPT ![r] = b]
  BY DEF Cache!ChatArrives, Cache!AdminRefreshes
<1>2. UNCHANGED <<catalogue, groups, byGroup, toGroup, keywords, recent, mu,
                  listing, todo, selected, offered>>
  BY DEF Cache!ChatArrives, Cache!AdminRefreshes
<1>3. /\ cachePc' \in [Req -> CacheSteps] /\ admin' \in [Req -> BOOLEAN]
      /\ mu' = {q \in Req : cachePc'[q] = "fetch"} /\ cachePc'[r] = step
      /\ \A q \in Req : q # r => cachePc'[q] = cachePc[q]
  BY <1>1, <1>2, CacheTyped DEF CacheInv, CacheSteps
<1>4. Cache!TypeOK'
  BY <1>2, <1>3 DEF CacheInv, Cache!TypeOK, CacheSteps, Cache!Refreshing, Cache!IsTools
<1>5. \A t \in offered'[r] : t \in DOMAIN toGroup
  BY <1>2 DEF CacheInv, Cache!OfferedRunnable, Cache!Found
<1> QED BY <1>1, <1>2, <1>3, <1>4, <1>5, CacheStays

\* Deciding about a refresh takes the lock or waits for it, and changes no table.
LEMMA CacheChecks ==
  ASSUME CacheInv, NEW r \in Req, Cache!NeedsRefresh(r) \/ Cache!AskGroups(r)
  PROVE  CacheInv'
<1> USE DEF Cache!cache, Cache!Goto, Cache!Leave
<1>1. PICK step \in {"select", "ask", "assign", "idle"} :
        cachePc[r] \in {"check", "ask"} /\ cachePc' = [cachePc EXCEPT ![r] = step]
  BY DEF Cache!NeedsRefresh, Cache!AskGroups
<1>2. UNCHANGED <<catalogue, groups, byGroup, toGroup, keywords, recent, mu,
                  todo, selected, offered>>
  BY DEF Cache!NeedsRefresh, Cache!AskGroups
<1>3. /\ cachePc' \in [Req -> CacheSteps]
      /\ mu' = {q \in Req : cachePc'[q] = "fetch"} /\ cachePc'[r] = step
      /\ \A q \in Req : q # r => cachePc'[q] = cachePc[q]
  BY <1>1, <1>2, CacheTyped DEF CacheInv, CacheSteps
<1>4. listing' \in [Req -> SUBSET Group] /\ admin' \in [Req -> BOOLEAN]
  BY CacheTyped, CatalogueTools DEF CacheInv, Cache!NeedsRefresh, Cache!AskGroups
<1>5. Cache!TypeOK'
  BY <1>2, <1>3, <1>4 DEF CacheInv, Cache!TypeOK, CacheSteps, Cache!Refreshing, Cache!IsTools
<1>6. \A t \in offered'[r] : t \in DOMAIN toGroup
  BY <1>2 DEF CacheInv, Cache!OfferedRunnable, Cache!Found
<1> QED BY <1>1, <1>2, <1>3, <1>5, <1>6, CacheStays

\* Answers are made from the tables as they are and change none.
LEMMA CacheServes ==
  ASSUME CacheInv, NEW r \in Req, Cache!Select(r) \/ Cache!GetTools(r) \/ Cache!Answer(r)
  PROVE  CacheInv'
<1> USE DEF Cache!cache, Cache!Goto
<1>1. PICK step \in {"get", "chat", "idle"} :
        /\ cachePc[r] \in {"select", "get", "chat"}
        /\ cachePc' = [cachePc EXCEPT ![r] = step]
  BY DEF Cache!Select, Cache!GetTools, Cache!Answer
<1>2. UNCHANGED <<catalogue, groups, byGroup, toGroup, keywords, recent, mu, admin, listing, todo>>
  BY DEF Cache!Select, Cache!GetTools, Cache!Answer
<1>3. /\ cachePc' \in [Req -> CacheSteps]
      /\ mu' = {q \in Req : cachePc'[q] = "fetch"} /\ cachePc'[r] = step
      /\ \A q \in Req : q # r => cachePc'[q] = cachePc[q]
  BY <1>1, <1>2, CacheTyped DEF CacheInv, CacheSteps
<1>4. selected' \in [Req -> SUBSET Group]
  BY CacheTyped DEF CacheInv, Cache!Select, Cache!GetTools, Cache!Answer
<1>5. /\ offered' \in [Req -> SUBSET Tool]
      /\ \A q \in Req : q # r => offered'[q] = offered[q]
      /\ \A t \in offered'[r] : t \in DOMAIN toGroup
  <2>1. CASE Cache!GetTools(r)
    <3> DEFINE got == UNION {byGroup[g] : g \in selected[r] \cap DOMAIN byGroup}
    <3>1. got \subseteq Tool /\ \A t \in got : t \in DOMAIN toGroup
      BY CacheTyped DEF CacheInv, Cache!MappingCurrent, Cache!Found
    <3>2. offered' = [offered EXCEPT ![r] = got]
      BY <2>1 DEF Cache!GetTools
    <3> HIDE DEF got
    <3> QED BY <3>1, <3>2, CacheTyped DEF CacheInv
  <2>2. CASE Cache!Select(r)
    BY <2>2, CacheTyped DEF CacheInv, Cache!Select, Cache!OfferedRunnable, Cache!Found
  <2>3. CASE Cache!Answer(r)
    BY <2>3, CacheTyped DEF CacheInv, Cache!Answer
  <2> QED BY <2>1, <2>2, <2>3
<1>6. Cache!TypeOK'
  BY <1>2, <1>3, <1>4, <1>5 DEF CacheInv, Cache!TypeOK, CacheSteps, Cache!Refreshing, Cache!IsTools
<1> QED BY <1>1, <1>2, <1>3, <1>5, <1>6, CacheStays

\* The groups are replaced as a whole, by the one request that refreshes.
LEMMA CacheAssigns ==
  ASSUME CacheInv, NEW r \in Req, Cache!AssignGroups(r)
  PROVE  CacheInv'
<1> USE DEF Cache!Goto
<1>1. /\ cachePc[r] = "assign" /\ cachePc' = [cachePc EXCEPT ![r] = "lock"] /\ mu = {}
      /\ groups' = listing[r] /\ listing' = [listing EXCEPT ![r] = {}]
      /\ UNCHANGED <<catalogue, byGroup, toGroup, keywords, recent, mu, admin, todo, selected, offered>>
  BY DEF Cache!AssignGroups
<1>2. /\ cachePc' \in [Req -> CacheSteps] /\ groups' \subseteq Group /\ listing' \in [Req -> SUBSET Group]
      /\ mu' = {q \in Req : cachePc'[q] = "fetch"} /\ cachePc'[r] = "lock"
      /\ \A q \in Req : cachePc[q] # "fetch" /\ (q # r => cachePc'[q] = cachePc[q])
  BY <1>1, CacheTyped DEF CacheInv, CacheSteps
<1>3. Cache!TypeOK'
  BY <1>1, <1>2 DEF CacheInv, Cache!TypeOK, CacheSteps, Cache!Refreshing, Cache!IsTools
<1>4. OneFetcher' /\ Filling' /\ Settling'
  BY <1>1, <1>2 DEF CacheInv, OneFetcher, Filling, Settling
<1> QED BY <1>1, <1>3, <1>4 DEF CacheInv, Cache!MappingCurrent, Cache!OfferedRunnable,
           Cache!BlacklistNeverRun, Cache!Found

\* A refresh of the tools begins with none collected.
LEMMA CacheBeginsTools ==
  ASSUME CacheInv, NEW r \in Req, Cache!BeginTools(r)
  PROVE  CacheInv'
<1> USE DEF Cache!Goto
<1>1. /\ cachePc[r] = "lock" /\ cachePc' = [cachePc EXCEPT ![r] = "fetch"] /\ mu = {} /\ mu' = {r}
      /\ byGroup' = Cache!NoTools /\ todo' = [todo EXCEPT ![r] = groups]
      /\ UNCHANGED <<catalogue, groups, toGroup, keywords, recent, admin, listing, selected, offered>>
  BY DEF Cache!BeginTools
<1>2. DOMAIN byGroup' = {}
  BY <1>1 DEF Cache!NoTools
<1>3. /\ cachePc' \in [Req -> CacheSteps] /\ todo' \in [Req -> SUBSET Group]
      /\ \A q \in Req : cachePc[q] # "fetch" /\ (q # r => cachePc'[q] = cachePc[q] /\ todo'[q] = todo[q])
      /\ cachePc'[r] = "fetch" /\ todo'[r] = groups
  BY <1>1, CacheTyped DEF CacheInv, CacheSteps
<1>4. mu' = {q \in Req : cachePc'[q] = "fetch"}
  BY <1>1, <1>3
<1>5. Cache!TypeOK'
  BY <1>1, <1>2, <1>3, <1>4 DEF CacheInv, Cache!TypeOK, CacheSteps, Cache!Refreshing, Cache!IsTools
<1>6. OneFetcher' /\ Filling' /\ Settling'
  BY <1>1, <1>2, <1>3 DEF CacheInv, OneFetcher, Filling, Settling
<1> QED BY <1>1, <1>2, <1>5, <1>6 DEF CacheInv, Cache!MappingCurrent, Cache!OfferedRunnable,
           Cache!BlacklistNeverRun, Cache!Found

\* Each group's tools are collected beside the tables in use.
LEMMA CacheFetches ==
  ASSUME CacheInv, NEW r \in Req, NEW g \in Group, Cache!FetchTools(r, g)
  PROVE  CacheInv'
<1>1. /\ cachePc[r] = "fetch" /\ g \in todo[r] /\ todo' = [todo EXCEPT ![r] = todo[r] \ {g}]
      /\ UNCHANGED <<catalogue, groups, keywords, recent, mu, cachePc, admin, listing, selected, offered>>
  BY DEF Cache!FetchTools
<1>2. /\ todo' \in [Req -> SUBSET Group] /\ todo'[r] = todo[r] \ {g}
      /\ \A q \in Req : q # r => todo'[q] = todo[q] /\ todo[q] = {}
  BY <1>1, CacheTyped DEF CacheInv, OneFetcher, Filling
<1>3. g \in groups \ DOMAIN byGroup
  BY <1>1 DEF CacheInv, Filling
<1>4. CASE UNCHANGED <<byGroup, toGroup>>
  <2>1. Cache!TypeOK'
    BY <1>1, <1>2, <1>4 DEF CacheInv, Cache!TypeOK, Cache!IsTools
  <2>2. Filling'
    BY <1>1, <1>2, <1>4 DEF CacheInv, Filling
  <2> QED BY <1>1, <1>4, <2>1, <2>2 DEF CacheInv, OneFetcher, Settling, Cache!MappingCurrent,
             Cache!OfferedRunnable, Cache!BlacklistNeverRun, Cache!Found
<1>5. ASSUME NEW got \in {{}} \cup (IF g \in DOMAIN catalogue THEN {catalogue[g]} ELSE {}),
             byGroup' = Cache!With(byGroup, {g}, Cache!Filtered(got)),
             toGroup' = Cache!Mapped(Cache!Filtered(got), g)
      PROVE  CacheInv'
  <2> DEFINE new == Cache!Filtered(got)
  <2>1. new \subseteq Tool /\ new \cap Blacklist = {}
    BY <1>5, CacheTyped, CatalogueTools DEF CacheInv, Cache!Filtered
  <2>2. /\ DOMAIN byGroup' = DOMAIN byGroup \cup {g} /\ byGroup'[g] = new
        /\ \A h \in DOMAIN byGroup : byGroup'[h] = byGroup[h]
    <3>1. byGroup' = Cache!With(byGroup, {g}, new)
      BY <1>5
    <3> HIDE DEF new
    <3> QED BY <1>3, <3>1 DEF Cache!With
  <2>3. /\ DOMAIN toGroup' = DOMAIN toGroup \cup new
        /\ \A n \in new : toGroup'[n] = g
        /\ \A n \in DOMAIN toGroup \ new : toGroup'[n] = toGroup[n]
    <3>1. toGroup' = Cache!With(toGroup, new, g)
      BY <1>5 DEF Cache!Mapped
    <3> HIDE DEF new
    <3> QED BY <3>1 DEF Cache!With
  <2> HIDE DEF new
  <2>4. Cache!IsTools(byGroup') /\ DOMAIN toGroup' \subseteq Tool
        /\ \A n \in DOMAIN toGroup' : toGroup'[n] \in Group
    BY <2>1, <2>2, <2>3, CacheTyped DEF CacheInv, Cache!IsTools
  <2>5. Cache!TypeOK'
    BY <1>1, <1>2, <2>4 DEF CacheInv, Cache!TypeOK, Cache!IsTools
  <2>6. OneFetcher' /\ Filling' /\ Settling'
    BY <1>1, <1>2, <1>3, <2>2 DEF CacheInv, OneFetcher, Filling, Settling
  <2>7. Cache!MappingCurrent'
    <3> SUFFICES ASSUME NEW h \in DOMAIN byGroup', NEW t \in byGroup'[h]
                 PROVE  /\ t \in DOMAIN toGroup' /\ toGroup'[t] \in DOMAIN byGroup'
                        /\ t \in byGroup'[toGroup'[t]]
      BY DEF Cache!MappingCurrent, Cache!Found
    <3>1. CASE t \in new
      BY <2>2, <2>3, <3>1
    <3>2. CASE t \notin new
      <4>1. h \in DOMAIN byGroup /\ t \in byGroup[h]
        BY <2>2, <3>2
      <4>2. t \in DOMAIN toGroup /\ toGroup[t] \in DOMAIN byGroup /\ t \in byGroup[toGroup[t]]
        BY <4>1 DEF CacheInv, Cache!MappingCurrent, Cache!Found
      <4> QED BY <2>2, <2>3, <3>2, <4>2
    <3> QED BY <3>1, <3>2
  <2>8. Cache!OfferedRunnable' /\ Cache!BlacklistNeverRun'
    BY <1>1, <2>1, <2>3 DEF CacheInv, Cache!OfferedRunnable, Cache!BlacklistNeverRun, Cache!Found
  <2> QED BY <2>5, <2>6, <2>7, <2>8 DEF CacheInv
<1> QED BY <1>4, <1>5 DEF Cache!FetchTools

\* The tools and then their index are replaced as a whole.
LEMMA CacheEndsTools ==
  ASSUME CacheInv, NEW r \in Req, Cache!EndTools(r) \/ Cache!BuildIndex(r)
  PROVE  CacheInv'
<1> USE DEF Cache!Goto, Cache!Leave
<1>1. /\ cachePc[r] \in {"fetch", "index"} /\ (cachePc[r] = "fetch" => todo[r] = {})
      /\ mu' = {} /\ (cachePc[r] = "index" => keywords' = byGroup /\ mu = {})
      /\ (cachePc[r] = "fetch" => keywords' = keywords)
      /\ UNCHANGED <<catalogue, groups, byGroup, toGroup, listing, todo, selected, offered>>
  BY DEF Cache!EndTools, Cache!BuildIndex
<1>2. PICK step \in {"index", "idle", "select"} :
        /\ cachePc' = [cachePc EXCEPT ![r] = step]
        /\ cachePc[r] = "fetch" => step = "index"
  BY DEF Cache!EndTools, Cache!BuildIndex
<1>3. recent' \in BOOLEAN /\ admin' \in [Req -> BOOLEAN]
  BY DEF CacheInv, Cache!TypeOK, Cache!EndTools, Cache!BuildIndex
<1>4. /\ cachePc' \in [Req -> CacheSteps] /\ cachePc'[r] = step
      /\ \A q \in Req : cachePc'[q] # "fetch" /\ (q # r => cachePc'[q] = cachePc[q])
      /\ \A q \in Req : todo[q] = {}
  BY <1>1, <1>2, CacheTyped DEF CacheInv, CacheSteps, OneFetcher, Filling
<1>5. mu' = {q \in Req : cachePc'[q] = "fetch"}
  BY <1>1, <1>4
<1>6. Cache!IsTools(keywords')
  BY <1>1 DEF CacheInv, Cache!TypeOK
<1>7. Cache!TypeOK'
  BY <1>1, <1>3, <1>4, <1>5, <1>6 DEF CacheInv, Cache!TypeOK, CacheSteps, Cache!Refreshing, Cache!IsTools
<1>8. OneFetcher' /\ Filling' /\ Settling'
  BY <1>1, <1>2, <1>4 DEF CacheInv, OneFetcher, Filling, Settling
<1> QED BY <1>1, <1>7, <1>8 DEF CacheInv, Cache!MappingCurrent, Cache!OfferedRunnable,
           Cache!BlacklistNeverRun, Cache!Found

\* Every step of a request keeps the invariant.
LEMMA CacheNext == CacheInv /\ [Cache!Next]_(Cache!vars) => CacheInv'
<1>1. ASSUME CacheInv, Cache!Ages \/ Cache!CatalogueChanges \/ UNCHANGED Cache!vars PROVE CacheInv'
  <2>1. /\ UNCHANGED <<groups, byGroup, toGroup, keywords, mu, cachePc, admin,
                       listing, todo, selected, offered>>
        /\ catalogue' \in Catalogues /\ recent' \in BOOLEAN
    BY <1>1 DEF CacheInv, Cache!TypeOK, Cache!Ages, Cache!CatalogueChanges, Cache!vars, Cache!cache,
                Cache!local
  <2>2. Cache!TypeOK'
    BY <1>1, <2>1 DEF CacheInv, Cache!TypeOK, Cache!IsTools
  <2> QED BY <1>1, <2>1, <2>2 DEF CacheInv, OneFetcher, Filling, Settling, Cache!MappingCurrent,
             Cache!OfferedRunnable, Cache!BlacklistNeverRun, Cache!Found
<1> QED BY <1>1, CacheArrives, CacheChecks, CacheServes, CacheAssigns, CacheBeginsTools, CacheFetches,
           CacheEndsTools DEF Cache!Next, Cache!Step

\* The invariant of the cache holds in every behaviour of it.
LEMMA CacheInvariance == CacheSafety => []CacheInv
  BY CacheBegins, CacheNext, PTL DEF CacheSafety

\* The index, the tools and the groups that requests see belong together, however
\* refreshes and requests interleave (toolcache's refresh under one lock).
THEOREM CacheStaysConsistent == CacheSafety => Cache!CacheConsistent
<1>1. CacheInv => Cache!SettlesConsistent
  BY DEF CacheInv, Settling, Cache!SettlesConsistent, Cache!Refreshing
<1>2. CacheInv => Cache!MappingCurrent /\ Cache!OfferedRunnable /\ Cache!BlacklistNeverRun
  BY DEF CacheInv
<1>3. CacheInv => [\A r \in Req : Cache!GetTools(r) => \A q \in Req : todo[q] = {}]_(Cache!vars)
  <2> SUFFICES ASSUME CacheInv, NEW r \in Req, Cache!GetTools(r), NEW q \in Req PROVE todo[q] = {}
    OBVIOUS
  <2>1. cachePc[q] # "fetch"
    BY CacheTyped DEF CacheInv, Cache!GetTools
  <2> QED BY <2>1 DEF CacheInv, Filling
<1> QED BY <1>1, <1>2, <1>3, CacheInvariance, PTL DEF Cache!CacheConsistent, Cache!NeverHalfFilled

-----------------------------------------------------------------------------
(* TootSync: the inductive invariant *)

TootSafety == Toots!Init /\ [][Toots!Next]_(Toots!vars)

\* The toots of a post that no hand has written.
Written(p) == {i \in Toots!TootsOf(p) : ~timeline[i].byHand}

\* At most one of them, unless a search for the post was in vain; none yet when a run is
\* about to write one; what a run is about to note is a toot of its post.
Announced ==
  /\ \A p \in Posts \ blind : \A i, j \in Written(p) : i = j
  /\ syncPc = "post" => Written(cur) = {} \/ cur \in blind
  /\ syncPc \in {"write", "spread"} => toot \in Toots!TootsOf(cur)

\* What the files of a post say. A post with a slot has no translation with another id.
Filed(p) ==
  /\ p \in Slotless => id[p] \in {NoSlot, Torn}
  /\ p \notin Slotless => id[p] # NoSlot
  /\ id[p] \in Toots!Ids => id[p] \in Toots!TootsOf(p)
  /\ \A l \in Langs : trans[p][l] \in Toots!Ids =>
       trans[p][l] \in Toots!TootsOf(p) /\ (p \in Slotless \/ id[p] = trans[p][l])

\* The post at hand has no id before the run writes it, and this one after.
AtHand ==
  /\ syncPc \in {"search", "post", "write"} => id[cur] \in {Slot, NoSlot}
  /\ syncPc = "spread" => cur \in Slotless \/ id[cur] = toot

TootInv == Toots!TypeOK /\ Announced /\ (\A p \in Posts : Filed(p)) /\ AtHand

TootSteps == {"idle", "next", "search", "post", "write", "spread"}
AtPost == {"search", "post", "write", "spread"}
MainIds == Toots!Ids \cup {Slot, NoSlot, Torn}
TransIds == Toots!Ids \cup {Slot, Torn, Absent}

\* What the constants of the mastodon sync are, one fact each.
LEMMA TootConstants ==
  /\ Posts \subseteq Nat /\ Slotless \subseteq Posts /\ MaxToots \in Nat /\ None \notin Posts
  /\ Toots!Ids = 1..MaxToots
  /\ \A i \in Toots!Ids : i \notin {None, Slot, NoSlot, Torn, Absent}
  /\ Slot \notin {NoSlot, Torn, Absent} /\ NoSlot \notin {Torn, Absent} /\ Torn # Absent
  BY ServicesAssumption DEF ServicesAssumption, Toots!TootSyncAssumption, Toots!Ids

\* The parts of the type invariant, for what they are used for.
LEMMA TootTyped ==
  ASSUME Toots!TypeOK
  PROVE  /\ syncPc \in TootSteps /\ posts \subseteq Posts /\ left \subseteq Langs
         /\ cur \in Posts <=> syncPc \in AtPost
         /\ toot \in Toots!Ids <=> syncPc \in {"write", "spread"}
         /\ id \in [Posts -> MainIds] /\ draft \subseteq Posts
         /\ trans \in [Posts -> [Langs -> TransIds]]
         /\ timeline \in Seq(Toots!Toot) /\ Len(timeline) \in Nat /\ Len(timeline) <= MaxToots
         /\ faults \in 0..MaxFaults /\ blind \subseteq Posts
  BY DEF Toots!TypeOK, TootSteps, AtPost, MainIds, TransIds

\* The sync begins with pages whose slots were never filled.
LEMMA TootBegins == Toots!Init => TootInv
<1> SUFFICES ASSUME Toots!Init PROVE TootInv
  OBVIOUS
<1>1. timeline = <<>> /\ DOMAIN timeline = {} /\ Len(timeline) = 0 /\ timeline \in Seq(Toots!Toot)
  BY DEF Toots!Init
<1>2. MaxFaults \in Nat
  BY ServicesAssumption DEF ServicesAssumption, Toots!TootSyncAssumption
<1>3. id \in [Posts -> MainIds] /\ trans \in [Posts -> [Langs -> TransIds]]
  BY DEF Toots!Init, MainIds, TransIds
<1>4. Toots!TypeOK
  BY <1>1, <1>2, <1>3, TootConstants DEF Toots!Init, Toots!TypeOK, MainIds, TransIds
<1>5. \A p \in Posts : Filed(p)
  BY <1>1, TootConstants DEF Toots!Init, Filed
<1> QED BY <1>1, <1>4, <1>5 DEF Toots!Init, TootInv, Announced, AtHand, Written, Toots!TootsOf

\* A new toot changes only the list of its post's toots, by itself.
LEMMA TootsGrow ==
  ASSUME timeline \in Seq(Toots!Toot), NEW x \in Toots!Toot, timeline' = Append(timeline, x)
  PROVE  /\ timeline' \in Seq(Toots!Toot) /\ Len(timeline') = Len(timeline) + 1
         /\ \A p \in Posts : Toots!TootsOf(p) \subseteq Toots!TootsOf(p)'
         /\ \A p \in Posts : Written(p)' = IF x.about = p /\ ~x.byHand
                                        THEN Written(p) \cup {Len(timeline')} ELSE Written(p)
         /\ x.about \in Posts => Len(timeline') \in Toots!TootsOf(x.about)'
<1>1. /\ timeline' \in Seq(Toots!Toot) /\ Len(timeline') = Len(timeline) + 1 /\ Len(timeline) \in Nat
      /\ DOMAIN timeline' = 1..Len(timeline) + 1 /\ DOMAIN timeline = 1..Len(timeline)
      /\ timeline'[Len(timeline) + 1] = x
      /\ \A i \in 1..Len(timeline) : timeline'[i] = timeline[i]
  OBVIOUS
<1>2. \A p \in Posts : Toots!TootsOf(p)' = IF x.about = p THEN Toots!TootsOf(p) \cup {Len(timeline) + 1}
                                                          ELSE Toots!TootsOf(p)
  BY <1>1 DEF Toots!TootsOf
<1>3. \A p \in Posts : Len(timeline) + 1 \notin Toots!TootsOf(p) /\ Toots!TootsOf(p) \subseteq DOMAIN timeline
  BY <1>1 DEF Toots!TootsOf
<1>4. ASSUME NEW p \in Posts
      PROVE  Written(p)' = IF x.about = p /\ ~x.byHand THEN Written(p) \cup {Len(timeline')} ELSE Written(p)
  BY <1>1, <1>2, <1>3 DEF Written
<1> QED BY <1>1, <1>2, <1>4

-----------------------------------------------------------------------------
(* TootSync: each step keeps the invariant *)

\* A step that leaves files and timeline alone keeps all that they say.
LEMMA TootFilesStay ==
  ASSUME TootInv, UNCHANGED <<id, trans, timeline>>
  PROVE  /\ \A p \in Posts : Filed(p)' /\ Written(p)' = Written(p) /\ Toots!TootsOf(p)' = Toots!TootsOf(p)
  BY DEF TootInv, Filed, Written, Toots!TootsOf

\* The bound on faults is kept.
LEMMA TootFaults ==
  ASSUME Toots!TypeOK, Toots!Fault \/ UNCHANGED faults
  PROVE  faults' \in 0..MaxFaults
<1>1. MaxFaults \in Nat /\ faults \in 0..MaxFaults
  BY TootTyped, ServicesAssumption DEF ServicesAssumption, Toots!TootSyncAssumption
<1> QED BY <1>1 DEF Toots!Fault

\* Going from post to post writes nothing.
LEMMA TootWalks ==
  ASSUME TootInv, Toots!Start \/ Toots!Done \/ Toots!ReadPost \/ Toots!Spread
  PROVE  TootInv'
<1> USE DEF TootInv, Toots!run, Toots!files, Toots!NextPost
<1>1. /\ UNCHANGED <<id, draft, trans, timeline, faults, blind>>
      /\ syncPc' \in {"idle", "next", "search"}
  BY DEF Toots!Start, Toots!Done, Toots!ReadPost, Toots!Spread
<1>2. posts' \subseteq Posts /\ left' \subseteq Langs
  BY TootTyped DEF Toots!Start, Toots!Done, Toots!ReadPost, Toots!Spread
<1>3. toot' \notin Toots!Ids
  BY TootTyped, TootConstants DEF Toots!Start, Toots!Done, Toots!ReadPost, Toots!Spread
<1>4. (cur' \in Posts <=> syncPc' = "search") /\ (syncPc' = "search" => id[cur'] \in {Slot, NoSlot})
  <2>1. CASE Toots!ReadPost
    <3>1. posts \subseteq Nat /\ posts # {}
      BY <2>1, TootTyped, TootConstants DEF Toots!ReadPost
    <3>2. Toots!Min(posts) \in posts
      BY <3>1, Least DEF Toots!Min
    <3> QED BY <2>1, <3>2, TootTyped DEF Toots!ReadPost, AtPost
  <2>2. CASE ~Toots!ReadPost
    BY <2>2, TootTyped, TootConstants DEF Toots!Start, Toots!Done, Toots!Spread, AtPost
  <2> QED BY <2>1, <2>2
<1>5. Toots!TypeOK'
  BY <1>1, <1>2, <1>3, <1>4 DEF Toots!TypeOK
<1>6. Announced' /\ AtHand'
  BY <1>1, <1>4, TootFilesStay DEF Announced, AtHand
<1> QED BY <1>1, <1>5, <1>6, TootFilesStay

\* A search finds toots of the post it searches for, or fails.
LEMMA TootSearches ==
  ASSUME TootInv, Toots!Search \/ Toots!SearchFails
  PROVE  TootInv'
<1> USE DEF TootInv, Toots!run, Toots!files
<1>1. /\ syncPc = "search" /\ UNCHANGED <<posts, cur, left, id, draft, trans, timeline>>
      /\ syncPc' \in {"post", "write"} /\ cur \in Posts
  BY TootTyped DEF Toots!Search, Toots!SearchFails, AtPost
<1>9. faults' \in 0..MaxFaults
  BY TootFaults DEF Toots!Search, Toots!SearchFails
<1>2. blind' = blind \/ blind' = blind \cup {cur}
  BY DEF Toots!Search, Toots!SearchFails
<1>3. syncPc' = "post" => toot' \notin Toots!Ids /\ (Toots!TootsOf(cur) # {} => cur \in blind')
  BY <1>1, TootTyped, TootConstants DEF Toots!Search, Toots!SearchFails
<1>4. syncPc' = "write" => toot' \in Toots!TootsOf(cur)
  <2> SUFFICES ASSUME Toots!Search, Toots!FoundFor(cur) # None
               PROVE  Toots!FoundFor(cur) \in Toots!TootsOf(cur)
    BY DEF Toots!Search, Toots!SearchFails
  <2> DEFINE hits == {i \in Toots!TootsOf(cur) : Toots!InWindow(i)}
  <2>1. hits # {} /\ Toots!FoundFor(cur) = Toots!Max(hits)
    BY DEF Toots!FoundFor
  <2>2. hits \subseteq 0..Len(timeline) /\ Len(timeline) \in Nat
    BY TootTyped DEF Toots!TootsOf
  <2>3. hits \subseteq Toots!TootsOf(cur)
    OBVIOUS
  <2> HIDE DEF hits
  <2>4. Toots!Max(hits) \in hits
    BY <2>1, <2>2, Greatest DEF Toots!Max
  <2> QED BY <2>1, <2>3, <2>4
<1>5. Toots!TootsOf(cur) \subseteq Toots!Ids
  BY TootTyped, TootConstants DEF Toots!TootsOf
<1>6. Toots!TypeOK'
  <2>1. toot' \in Toots!Ids <=> syncPc' \in {"write", "spread"}
    BY <1>1, <1>3, <1>4, <1>5
  <2> QED BY <1>1, <1>2, <1>9, <2>1 DEF Toots!TypeOK
<1>7. Announced'
  <2>1. \A p \in Posts \ blind' : \A i, j \in Written(p)' : i = j
    BY <1>1, <1>2, TootFilesStay DEF Announced
  <2>2. Written(cur) \subseteq Toots!TootsOf(cur) /\ Written(cur)' = Written(cur)
        /\ Toots!TootsOf(cur)' = Toots!TootsOf(cur)
    BY <1>1 DEF Written, Toots!TootsOf
  <2> QED BY <1>1, <1>3, <1>4, <2>1, <2>2 DEF Announced
<1>8. AtHand'
  BY <1>1 DEF AtHand
<1> QED BY <1>1, <1>6, <1>7, <1>8, TootFilesStay

\* A post is announced only after a search found no toot of it.
LEMMA TootPosts ==
  ASSUME TootInv, Toots!Post \/ Toots!PostFails
  PROVE  TootInv'
<1> USE DEF TootInv, Toots!run, Toots!files, Toots!NextPost
<1> DEFINE x == [about |-> cur, byHand |-> FALSE]
<1>1. /\ syncPc = "post" /\ cur \in Posts /\ UNCHANGED <<posts, id, draft, trans, blind>>
      /\ x \in Toots!Toot /\ x.about = cur /\ ~x.byHand
  BY TootTyped DEF Toots!Post, Toots!PostFails, AtPost, Toots!Toot
<1>2. faults' \in 0..MaxFaults
  BY TootFaults DEF Toots!Post, Toots!PostFails
<1>3. \/ UNCHANGED timeline
      \/ Len(timeline) < MaxToots /\ timeline' = Append(timeline, x)
  BY DEF Toots!Post, Toots!PostFails, Toots!Publish
<1>4. CASE Toots!Post
  <2>1. /\ timeline' = Append(timeline, x) /\ Len(timeline) < MaxToots /\ toot' = Len(timeline')
        /\ syncPc' = "write" /\ UNCHANGED <<cur, left>>
    BY <1>4 DEF Toots!Post, Toots!Publish
  <2> HIDE DEF x
  <2>2. /\ timeline' \in Seq(Toots!Toot) /\ Len(timeline') = Len(timeline) + 1
        /\ \A p \in Posts : Toots!TootsOf(p) \subseteq Toots!TootsOf(p)'
        /\ \A p \in Posts : Written(p)' = IF cur = p THEN Written(p) \cup {Len(timeline')} ELSE Written(p)
        /\ Len(timeline') \in Toots!TootsOf(cur)'
    <3>1. timeline \in Seq(Toots!Toot)
      BY TootTyped
    <3>2. timeline' = Append(timeline, x) /\ x \in Toots!Toot /\ x.about = cur /\ ~x.byHand /\ cur' = cur
      BY <1>1, <2>1
    <3> HIDE DEF TootInv
    <3> QED BY <1>1, <3>1, <3>2, TootsGrow
  <2>3. toot' \in Toots!Ids
    BY <2>1, <2>2, TootTyped, TootConstants
  <2>4. Toots!TypeOK'
    BY <1>1, <1>2, <2>1, <2>2, <2>3, TootTyped, TootConstants DEF Toots!TypeOK
  <2>5. \A p \in Posts \ blind' : \A i, j \in Written(p)' : i = j
    BY <1>1, <2>2 DEF Announced
  <2>6. Announced'
    BY <2>1, <2>2, <2>5 DEF Announced
  <2>7. AtHand'
    BY <1>1, <2>1 DEF AtHand
  <2>8. \A p \in Posts : Filed(p)'
    BY <1>1, <2>2 DEF Filed
  <2> QED BY <2>4, <2>6, <2>7, <2>8
<1>5. CASE Toots!PostFails
  <2>1. syncPc' = "next" /\ cur' = None /\ toot' = None /\ left' = {}
    BY <1>5 DEF Toots!PostFails
  <2> HIDE DEF x
  <2>2. /\ timeline' \in Seq(Toots!Toot) /\ Len(timeline') <= MaxToots
        /\ \A p \in Posts : Toots!TootsOf(p) \subseteq Toots!TootsOf(p)'
        /\ \A p \in Posts : \/ Written(p)' = Written(p)
                            \/ p = cur /\ Written(p)' = Written(p) \cup {Len(timeline')}
    <3>1. CASE UNCHANGED timeline
      <4>1. timeline' \in Seq(Toots!Toot) /\ Len(timeline') <= MaxToots
        BY <3>1, TootTyped
      <4>2. \A p \in Posts : Toots!TootsOf(p)' = Toots!TootsOf(p) /\ Written(p)' = Written(p)
        BY <3>1 DEF Toots!TootsOf, Written
      <4> HIDE DEF TootInv
      <4> QED BY <4>1, <4>2
    <3>2. CASE Len(timeline) < MaxToots /\ timeline' = Append(timeline, x)
      <4>1. timeline \in Seq(Toots!Toot) /\ Len(timeline) \in Nat /\ MaxToots \in Nat
        BY TootTyped, TootConstants
      <4> HIDE DEF TootInv
      <4>2. /\ timeline' \in Seq(Toots!Toot) /\ Len(timeline') = Len(timeline) + 1
            /\ \A p \in Posts : Toots!TootsOf(p) \subseteq Toots!TootsOf(p)'
            /\ \A p \in Posts : Written(p)' = IF x.about = p /\ ~x.byHand
                                           THEN Written(p) \cup {Len(timeline')} ELSE Written(p)
        BY <1>1, <3>2, <4>1, TootsGrow
      <4>3. Len(timeline') <= MaxToots
        BY <3>2, <4>1, <4>2
      <4>4. ASSUME NEW p \in Posts
            PROVE  \/ Written(p)' = Written(p)
                   \/ p = cur /\ Written(p)' = Written(p) \cup {Len(timeline')}
        BY <1>1, <4>2
      <4> QED BY <4>2, <4>3, <4>4
    <3> QED BY <1>3, <3>1, <3>2
  <2>3. Toots!TypeOK'
    BY <1>1, <1>2, <2>1, <2>2, TootConstants DEF Toots!TypeOK
  <2>4. \A p \in Posts \ blind' : \A i, j \in Written(p)' : i = j
    BY <1>1, <2>2 DEF Announced
  <2>5. Announced' /\ AtHand'
    BY <2>1, <2>4 DEF Announced, AtHand
  <2>6. \A p \in Posts : Filed(p)'
    BY <1>1, <2>2 DEF Filed
  <2> QED BY <2>3, <2>5, <2>6
<1> QED BY <1>4, <1>5

\* A run notes the toot's id in the post's own file.
LEMMA TootWritesMain ==
  ASSUME TootInv, Toots!WriteMain \/ Toots!WriteMainFails
  PROVE  TootInv'
<1> USE DEF TootInv, Toots!NextPost
<1>1. /\ syncPc = "write" /\ cur \in Posts /\ UNCHANGED <<posts, draft, trans, timeline, blind>>
      /\ toot \in Toots!TootsOf(cur) /\ toot \in Toots!Ids /\ id[cur] \in {Slot, NoSlot}
  BY TootTyped DEF Toots!WriteMain, Toots!WriteMainFails, AtPost, Announced, AtHand
<1>2. faults' \in 0..MaxFaults
  BY TootFaults DEF Toots!WriteMain, Toots!WriteMainFails
<1>3. \A p \in Posts : Toots!TootsOf(p)' = Toots!TootsOf(p) /\ Written(p)' = Written(p)
  BY <1>1 DEF Toots!TootsOf, Written
<1>4. /\ id' \in [Posts -> MainIds] /\ \A p \in Posts : p # cur => id'[p] = id[p]
      /\ id'[cur] = id[cur] \/ id'[cur] = Torn \/ (id[cur] = Slot /\ id'[cur] = toot)
  BY <1>1, TootTyped DEF Toots!WriteMain, Toots!WriteMainFails, Toots!WithId, MainIds
<1>5. \A p \in Posts : Filed(p)'
  <2> SUFFICES ASSUME NEW p \in Posts PROVE Filed(p)'
    OBVIOUS
  <2>1. Filed(p)
    OBVIOUS
  <2>2. CASE p # cur
    BY <1>1, <1>3, <1>4, <2>1, <2>2 DEF Filed
  <2>3. CASE p = cur
    BY <1>1, <1>3, <1>4, <2>1, <2>3, TootConstants DEF Filed
  <2> QED BY <2>2, <2>3
<1>6. CASE Toots!WriteMain
  <2>1. syncPc' = "spread" /\ UNCHANGED <<cur, toot>> /\ left' \subseteq Langs
        /\ id'[cur] = IF id[cur] = Slot THEN toot ELSE id[cur]
    BY <1>1, <1>6, TootTyped DEF Toots!WriteMain, Toots!WithId
  <2>2. Toots!TypeOK'
    BY <1>1, <1>2, <1>4, <2>1 DEF Toots!TypeOK, MainIds
  <2>3. Announced'
    BY <1>1, <1>3, <2>1 DEF Announced
  <2>4. cur \in Slotless \/ id[cur] # NoSlot
    BY <1>1 DEF Filed
  <2>5. AtHand'
    BY <1>1, <2>1, <2>4 DEF AtHand
  <2> QED BY <1>5, <2>2, <2>3, <2>5
<1>7. CASE Toots!WriteMainFails
  <2>1. syncPc' = "next" /\ cur' = None /\ toot' = None /\ left' = {}
    BY <1>7 DEF Toots!WriteMainFails
  <2>2. Toots!TypeOK'
    BY <1>1, <1>2, <1>4, <2>1, TootConstants DEF Toots!TypeOK, MainIds
  <2>3. Announced' /\ AtHand'
    BY <1>1, <1>3, <2>1 DEF Announced, AtHand
  <2> QED BY <1>5, <2>2, <2>3
<1> QED BY <1>6, <1>7

\* A change of one translation: to the toot its post names, or to no id at all.
LEMMA TootTranslation ==
  ASSUME TootInv, NEW p \in Posts, NEW l \in Langs, NEW new \in TransIds,
         trans' = [trans EXCEPT ![p] = [trans[p] EXCEPT ![l] = new]],
         UNCHANGED <<id, timeline>>,
         new \in Toots!Ids => new \in Toots!TootsOf(p) /\ (p \in Slotless \/ id[p] = new)
  PROVE  trans' \in [Posts -> [Langs -> TransIds]] /\ \A q \in Posts : Filed(q)'
<1> USE DEF TootInv
<1>1. /\ trans[p] \in [Langs -> TransIds]
      /\ [trans[p] EXCEPT ![l] = new] \in [Langs -> TransIds]
  BY TootTyped
<1>2. trans' \in [Posts -> [Langs -> TransIds]]
  BY <1>1, TootTyped
<1>3. \A q \in Posts, k \in Langs : trans'[q][k] = IF q = p /\ k = l THEN new ELSE trans[q][k]
  BY <1>1, TootTyped
<1>4. \A q \in Posts : Toots!TootsOf(q)' = Toots!TootsOf(q)
  BY DEF Toots!TootsOf
<1>5. ASSUME NEW q \in Posts PROVE Filed(q)'
  BY <1>3, <1>4 DEF Filed
<1> QED BY <1>2, <1>5

\* A translation gets the id that its post has.
LEMMA TootWritesTranslation ==
  ASSUME TootInv, NEW l \in Langs, Toots!WriteTranslation(l) \/ Toots!WriteTranslationFails(l)
  PROVE  TootInv'
<1> USE DEF TootInv
<1>1. /\ syncPc = "spread" /\ syncPc' = "spread" /\ cur \in Posts /\ left' \subseteq Langs
      /\ UNCHANGED <<posts, cur, toot, id, draft, timeline, blind>>
      /\ toot \in Toots!Ids /\ toot \in Toots!TootsOf(cur) /\ (cur \in Slotless \/ id[cur] = toot)
  BY TootTyped DEF Toots!WriteTranslation, Toots!WriteTranslationFails, AtPost, Announced, AtHand
<1>2. faults' \in 0..MaxFaults
  BY TootFaults DEF Toots!WriteTranslation, Toots!WriteTranslationFails
<1>3. trans' \in [Posts -> [Langs -> TransIds]] /\ \A q \in Posts : Filed(q)'
  <2>1. CASE UNCHANGED trans
    BY <1>1, <2>1, TootTyped, TootFilesStay
  <2>2. CASE trans' = [trans EXCEPT ![cur] = [trans[cur] EXCEPT ![l] = Torn]]
    BY <1>1, <2>2, TootTranslation, TootConstants DEF TransIds
  <2>3. CASE trans' = [trans EXCEPT ![cur] = [trans[cur] EXCEPT ![l] = Toots!WithId(trans[cur][l])]]
    <3>1. Toots!WithId(trans[cur][l]) \in TransIds
      BY <1>1, TootTyped DEF Toots!WithId, TransIds
    <3>2. Filed(cur)
      BY <1>1
    <3>3. Toots!WithId(trans[cur][l]) \in Toots!Ids =>
            /\ Toots!WithId(trans[cur][l]) \in Toots!TootsOf(cur)
            /\ cur \in Slotless \/ id[cur] = Toots!WithId(trans[cur][l])
      BY <1>1, <3>2 DEF Toots!WithId, Filed
    <3> QED BY <1>1, <2>3, <3>1, <3>3, TootTranslation
  <2> QED BY <2>1, <2>2, <2>3, TootTyped DEF Toots!WriteTranslation, Toots!WriteTranslationFails
<1>4. Toots!TypeOK'
  BY <1>1, <1>2, <1>3 DEF Toots!TypeOK, TransIds
<1>5. \A p \in Posts : Toots!TootsOf(p)' = Toots!TootsOf(p) /\ Written(p)' = Written(p)
  BY <1>1 DEF Toots!TootsOf, Written
<1>6. Announced' /\ AtHand'
  BY <1>1, <1>5 DEF Announced, AtHand
<1> QED BY <1>3, <1>4, <1>6

\* A sync that is killed leaves the pages and the timeline as they are.
LEMMA TootKilled ==
  ASSUME TootInv, Toots!Killed
  PROVE  TootInv'
<1> USE DEF TootInv
<1>1. /\ syncPc' = "idle" /\ posts' = {} /\ cur' = None /\ toot' = None /\ left' = {}
      /\ UNCHANGED <<draft, timeline, blind>>
  BY DEF Toots!Killed
<1>2. faults' \in 0..MaxFaults
  BY TootFaults DEF Toots!Killed
<1>3. \A p \in Posts : Toots!TootsOf(p)' = Toots!TootsOf(p) /\ Written(p)' = Written(p)
  BY <1>1 DEF Toots!TootsOf, Written
<1>4. /\ id' \in [Posts -> MainIds] /\ trans' \in [Posts -> [Langs -> TransIds]]
      /\ \A p \in Posts : Filed(p)'
  <2>1. CASE UNCHANGED <<id, trans>>
    BY <1>1, <2>1, TootTyped, TootFilesStay
  <2>2. CASE syncPc = "write" /\ id' = [id EXCEPT ![cur] = Torn] /\ UNCHANGED trans
    <3>1. cur \in Posts /\ id[cur] \in {Slot, NoSlot}
      BY <2>2, TootTyped DEF AtPost, AtHand
    <3>2. /\ id' \in [Posts -> MainIds] /\ id'[cur] = Torn
          /\ \A p \in Posts : p # cur => id'[p] = id[p]
      BY <2>2, <3>1, TootTyped DEF MainIds
    <3>3. ASSUME NEW p \in Posts PROVE Filed(p)'
      <4>1. CASE p # cur
        BY <1>3, <2>2, <3>2, <4>1 DEF Filed
      <4>2. CASE p = cur
        BY <1>3, <2>2, <3>1, <3>2, <4>2, TootConstants DEF Filed
      <4> QED BY <4>1, <4>2
    <3> QED BY <2>2, <3>2, <3>3, TootTyped
  <2>3. ASSUME syncPc = "spread", UNCHANGED id, NEW l \in left,
               trans' = [trans EXCEPT ![cur] = [trans[cur] EXCEPT ![l] = Torn]]
        PROVE  /\ id' \in [Posts -> MainIds] /\ trans' \in [Posts -> [Langs -> TransIds]]
               /\ \A p \in Posts : Filed(p)'
    <3>1. cur \in Posts /\ l \in Langs /\ Torn \in TransIds /\ Torn \notin Toots!Ids
      BY <2>3, TootTyped, TootConstants DEF AtPost, TransIds
    <3> QED BY <1>1, <2>3, <3>1, TootTranslation, TootTyped
  <2> QED BY <2>1, <2>2, <2>3 DEF Toots!Killed
<1>5. Toots!TypeOK'
  BY <1>1, <1>2, <1>4, TootConstants, TootTyped DEF Toots!TypeOK, MainIds, TransIds
<1>6. Announced' /\ AtHand'
  BY <1>1, <1>3 DEF Announced, AtHand
<1> QED BY <1>4, <1>5, <1>6

\* The owner's toots and translations, and the files taken from version control.
LEMMA TootOwner ==
  ASSUME TootInv, Toots!Owner
  PROVE  TootInv'
<1> USE DEF TootInv, Toots!run
<1>1. ASSUME NEW about \in Posts \cup {Chatter}, Toots!TootByHand(about) PROVE TootInv'
  <2> DEFINE x == [about |-> about, byHand |-> TRUE]
  <2>1. /\ timeline' = Append(timeline, x) /\ Len(timeline) < MaxToots /\ x \in Toots!Toot /\ x.byHand
        /\ UNCHANGED <<syncPc, posts, cur, toot, left, id, draft, trans, faults, blind>>
    BY <1>1 DEF Toots!TootByHand, Toots!files, Toots!Toot
  <2> HIDE DEF x
  <2>2. /\ timeline' \in Seq(Toots!Toot) /\ Len(timeline') <= MaxToots
        /\ \A p \in Posts : Toots!TootsOf(p) \subseteq Toots!TootsOf(p)' /\ Written(p)' = Written(p)
    <3>1. timeline \in Seq(Toots!Toot) /\ Len(timeline) \in Nat /\ MaxToots \in Nat
      BY TootTyped, TootConstants
    <3> HIDE DEF TootInv
    <3>2. /\ timeline' \in Seq(Toots!Toot) /\ Len(timeline') = Len(timeline) + 1
          /\ \A p \in Posts : Toots!TootsOf(p) \subseteq Toots!TootsOf(p)'
          /\ \A p \in Posts : Written(p)' = IF x.about = p /\ ~x.byHand
                                         THEN Written(p) \cup {Len(timeline')} ELSE Written(p)
      BY <2>1, <3>1, TootsGrow
    <3> QED BY <2>1, <3>1, <3>2
  <2>3. Toots!TypeOK'
    BY <2>1, <2>2 DEF Toots!TypeOK
  <2>4. \A p \in Posts : Filed(p)'
    BY <2>1, <2>2 DEF Filed
  <2>5. cur \in Posts <=> syncPc \in AtPost
    BY TootTyped
  <2>6. Announced' /\ AtHand'
    BY <2>1, <2>2, <2>5 DEF Announced, AtHand, AtPost
  <2> QED BY <2>3, <2>4, <2>6
<1>2. ASSUME NEW p \in Posts, Toots!Undraft(p) PROVE TootInv'
  <2>1. /\ UNCHANGED <<syncPc, posts, cur, toot, left, id, trans, timeline, faults, blind>>
        /\ draft' \subseteq Posts
    BY <1>2, TootTyped DEF Toots!Undraft
  <2>2. Toots!TypeOK'
    BY <2>1 DEF Toots!TypeOK
  <2> QED BY <2>1, <2>2, TootFilesStay DEF Announced, AtHand, Written, Toots!TootsOf
<1>3. ASSUME NEW p \in Posts, Toots!Restore(p) PROVE TootInv'
  <2>1. /\ UNCHANGED <<syncPc, posts, cur, toot, left, draft, trans, timeline, faults, blind>>
        /\ syncPc = "idle" /\ id[p] = Torn
        /\ id' = [id EXCEPT ![p] = IF p \in Slotless THEN NoSlot ELSE Slot]
    BY <1>3 DEF Toots!Restore
  <2>2. /\ id' \in [Posts -> MainIds] /\ id'[p] = IF p \in Slotless THEN NoSlot ELSE Slot
        /\ \A q \in Posts : q # p => id'[q] = id[q]
    BY <2>1, TootTyped DEF MainIds
  <2>3. \A q \in Posts : Toots!TootsOf(q)' = Toots!TootsOf(q) /\ Written(q)' = Written(q)
    BY <2>1 DEF Toots!TootsOf, Written
  <2>4. ASSUME NEW q \in Posts PROVE Filed(q)'
    <3>1. CASE q # p
      BY <2>1, <2>2, <2>3, <3>1 DEF Filed
    <3>2. CASE q = p
      BY <2>1, <2>2, <2>3, <3>2, TootConstants DEF Filed
    <3> QED BY <3>1, <3>2
  <2>5. Toots!TypeOK'
    BY <2>1, <2>2 DEF Toots!TypeOK, MainIds
  <2>6. Announced' /\ AtHand'
    BY <2>1, <2>3 DEF Announced, AtHand
  <2> QED BY <2>4, <2>5, <2>6
<1>4. ASSUME NEW p \in Posts, NEW l \in Langs, Toots!Translate(p, l) \/ Toots!RestoreTranslation(p, l)
      PROVE  TootInv'
  <2>1. /\ UNCHANGED <<syncPc, posts, cur, toot, left, id, draft, timeline, faults, blind>>
        /\ trans' = [trans EXCEPT ![p] = [trans[p] EXCEPT ![l] = Slot]]
    BY <1>4 DEF Toots!Translate, Toots!RestoreTranslation
  <2>2. trans' \in [Posts -> [Langs -> TransIds]] /\ \A q \in Posts : Filed(q)'
    BY <2>1, TootTranslation, TootConstants DEF TransIds
  <2>3. Toots!TypeOK'
    BY <2>1, <2>2 DEF Toots!TypeOK, TransIds
  <2> QED BY <2>1, <2>2, <2>3 DEF Announced, AtHand, Written, Toots!TootsOf
<1> QED BY <1>1, <1>2, <1>3, <1>4 DEF Toots!Owner

\* Every step of the sync keeps the invariant.
LEMMA TootNext == TootInv /\ [Toots!Next]_(Toots!vars) => TootInv'
<1>1. ASSUME TootInv, UNCHANGED Toots!vars PROVE TootInv'
  <2>1. UNCHANGED <<syncPc, posts, cur, toot, left, id, draft, trans, timeline, faults, blind>>
    BY <1>1 DEF Toots!vars
  <2>2. Toots!TypeOK'
    BY <1>1, <2>1 DEF TootInv, Toots!TypeOK
  <2> QED BY <1>1, <2>1, <2>2, TootFilesStay DEF TootInv, Announced, AtHand, Written, Toots!TootsOf
<1> QED BY <1>1, TootWalks, TootSearches, TootPosts, TootWritesMain, TootWritesTranslation, TootKilled,
           TootOwner DEF Toots!Next, Toots!Step

\* The invariant of the sync holds in every behaviour of it.
LEMMA TootInvariance == TootSafety => []TootInv
  BY TootBegins, TootNext, PTL DEF TootSafety

\* A post is announced by one toot at most, and its pages hold that toot's id, whatever the
\* sync's runs were cut off by (Sync, FindByURL).
THEOREM PostsAreAnnouncedOnce == TootSafety => [](Toots!OneToot /\ Toots!IdsMatch)
<1>1. TootInv => Toots!OneToot
  BY DEF TootInv, Announced, Written, Toots!OneToot, Toots!TootsOf
<1>2. TootInv => Toots!IdsMatch
  BY TootConstants DEF TootInv, Filed, Toots!IdsMatch
<1> QED BY <1>1, <1>2, TootInvariance, PTL

-----------------------------------------------------------------------------
(* The composition *)

\* Each component of a behaviour of the composition behaves as by itself, whichever of
\* them runs.
LEMMA EachByItself == Spec => ConvSafety /\ CacheSafety /\ ChatSafety /\ TootSafety
<1>1. Init => Conv!Init /\ Cache!Init /\ Chat!Init /\ Toots!Init
  BY DEF Init
<1>2. [Next]_vars => [Conv!Next]_(Conv!vars)
  BY DEF Next, Alone, vars, convVars, Conv!vars, Conv!store, Conv!requests
<1>3. [Next]_vars => [Cache!Next]_(Cache!vars)
  BY DEF Next, Alone, vars, cacheVars, Cache!vars, Cache!cache, Cache!local
<1>4. [Next]_vars => [Chat!Next]_(Chat!vars)
  BY DEF Next, Alone, vars, chatVars, Chat!vars
<1>5. [Next]_vars => [Toots!Next]_(Toots!vars)
  BY DEF Next, Alone, vars, tootVars, Toots!vars, Toots!files
<1> QED BY <1>1, <1>2, <1>3, <1>4, <1>5, PTL DEF Spec, ConvSafety, CacheSafety, ChatSafety, TootSafety

\* The type invariant of the services.
THEOREM ServicesTyped == Spec => []TypeOK
<1>1. ConvInv /\ CacheInv /\ ChatInv /\ TootInv => TypeOK
  BY DEF ConvInv, CacheInv, ChatInv, TootInv, TypeOK
<1> QED BY <1>1, EachByItself, ConvInvariance, CacheInvariance, ChatInvariance, TootInvariance, PTL

\* A thread keeps its one conversation, and no other thread's (openwebui-openhands-proxy).
THEOREM ServicesKeepContinuity == Spec => OneConversation
  BY EachByItself, ConversationsStayApart, ThreadsKeepTheirConversation, TurnsDecideTheirThread, PTL
     DEF OneConversation, Conv!Continuity

\* The file holds whole states of the map, one thread apart, however saves fail or are cut
\* off between the write and the rename (store.save).
THEOREM ServicesImplementAtomicStore == Spec => ImplementsAtomicStore
  BY EachByItself, ConversationsImplementAtomicStore DEF ImplementsAtomicStore

\* What the cache offers can be run where its mapping says (llamastack-proxy, ToolCache).
THEOREM ServicesKeepCacheConsistent == Spec => CacheConsistent
  BY EachByItself, CacheStaysConsistent DEF CacheConsistent

\* The model's calls are run once each and paired with their results, which it sees before it
\* answers; a call of the client's is run once per result that lacks content
\* (llamastack-proxy, handleChatCompletion).
THEOREM ServicesShowResults == Spec => []ResultsSeen
<1>1. Chat!ResultsReachModel => ResultsSeen
  BY DEF ResultsSeen
<1> QED BY <1>1, EachByItself, ResultsReachTheModel, PTL

\* No post is announced twice, and none carries another's toot (mastodon.Sync).
THEOREM ServicesAnnounceOnce == Spec => []OneToot
<1>1. Toots!OneToot /\ Toots!IdsMatch => OneToot
  BY DEF OneToot
<1> QED BY <1>1, EachByItself, PostsAreAnnouncedOnce, PTL

=============================================================================
