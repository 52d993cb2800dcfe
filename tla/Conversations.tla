---------------------------- MODULE Conversations ----------------------------
(***************************************************************************)
(* openwebui-openhands-proxy (main.go): each chat request of OpenWebUI is  *)
(* forwarded to the OpenHands gateway under the conversation its thread    *)
(* had before, found in a map from thread keys to conversation ids that is *)
(* kept in a file.                                                         *)
(*                                                                         *)
(* Requests run concurrently; the map's mutex is held over a save, which   *)
(* writes a temporary file and renames it. Each of the two may fail, and   *)
(* the process may end before, within or between them. The gateway is      *)
(* external: it answers, refuses or breaks off, and numbers the            *)
(* conversations it starts. A thread is what extractThreadKey tells apart; *)
(* NoThread is a request without a user message.                           *)
(***************************************************************************)
EXTENDS Naturals, Sequences

CONSTANTS
  Req,           \* the requests under way at one time
  Thread,
  NoThread,
  Torn,          \* the temporary file when it does not hold a whole mapping
  MaxConv        \* bound: the conversations the gateway starts

ConversationsAssumption ==
  NoThread \notin Thread /\ MaxConv \in Nat /\ Torn \notin [Thread -> Nat]

VARIABLES
  up,            \* the proxy runs
  entries,       \* store.entries: thread |-> conversation, NoConv for none
  file,          \* the mapping in the file
  tmp,           \* the temporary file beside it: a mapping, or Torn
  mutex,         \* {} or the one request that holds store.mu over a save
  pc, key,       \* per request: the handler's next step, its thread
  inject,        \* per request: convID, NoConv unless hadMapping
  sent,          \* per request: the conversation header last sent upstream
  resp,          \* per request: the response it goes on with
  owner,         \* external: per conversation, the thread it was started for
  excused        \* history: threads that had a reason to start again

store    == <<entries, file, tmp, mutex>>
requests == <<pc, key, inject, sent, resp>>
vars     == <<up, store, requests, owner, excused>>

NoConv == 0
NoEntries == [k \in Thread |-> NoConv]
Active(k) == {r \in Req : pc[r] # "idle" /\ key[r] = k}

-----------------------------------------------------------------------------
(* What the gateway may answer to a request of a thread under a header *)

Answer(ok, id) == [ok |-> ok, id |-> id]
Breaks == Answer(FALSE, MaxConv + 1)    \* no response at all

\* It continues or refuses a conversation, with or without naming it; without a
\* header it may start a new one, also for an answer of 400 and more.
Gateway(k, header, a) ==
  \/ a = Breaks /\ UNCHANGED owner
  \/ /\ a \in {Answer(ok, id) : ok \in BOOLEAN, id \in {NoConv, header}}
     /\ UNCHANGED owner
  \/ /\ header = NoConv /\ Len(owner) < MaxConv
     /\ owner' = Append(owner, k)
     /\ a \in {Answer(ok, Len(owner) + 1) : ok \in BOOLEAN}

\* An answer after which the thread's next turn may find no conversation to go on.
Excuse(k, a) ==
  excused' = IF a.ok /\ a.id # NoConv THEN excused ELSE excused \cup {k}

-----------------------------------------------------------------------------
(* The handler of /v1/chat/completions *)

Arrive(r, k) ==
  /\ up /\ pc[r] = "idle"
  /\ pc' = [pc EXCEPT ![r] = IF k = NoThread THEN "forward" ELSE "lookup"]
  /\ key' = [key EXCEPT ![r] = k]
  /\ inject' = [inject EXCEPT ![r] = NoConv]
  /\ sent' = [sent EXCEPT ![r] = NoConv]
  /\ resp' = [resp EXCEPT ![r] = Answer(FALSE, NoConv)]
  /\ excused' = IF Active(k) = {} THEN excused ELSE excused \cup {k}
  /\ UNCHANGED <<up, store, owner>>

\* Mutant of Lookup: the mapping found is not injected.
LookupNothing(r) ==
  /\ pc[r] = "lookup" /\ mutex = {}
  /\ pc' = [pc EXCEPT ![r] = "forward"]
  /\ UNCHANGED <<up, store, key, inject, sent, resp, owner, excused>>

Lookup(r) ==
  /\ pc[r] = "lookup" /\ mutex = {}
  /\ pc' = [pc EXCEPT ![r] = "forward"]
  /\ inject' = [inject EXCEPT ![r] = entries[key[r]]]
  /\ UNCHANGED <<up, store, key, sent, resp, owner, excused>>

\* doForward replaces or deletes the header the caller came with.
Header(injected, own) == injected

\* Where the handler goes on with a response: set does nothing without key and id.
AfterAnswer(r, a) == IF key[r] # NoThread /\ a.id # NoConv THEN "record" ELSE "idle"

\* The first attempt; a mapped conversation that is refused is tried once more.
Forward(r) ==
  /\ pc[r] = "forward"
  /\ \E header \in {Header(inject[r], own) : own \in 0..Len(owner)},
        ok \in BOOLEAN, id \in 0..MaxConv + 1 :
       LET a == Answer(ok, id)
       IN  /\ Gateway(key[r], header, a)
           /\ Excuse(key[r], a)
           /\ sent' = [sent EXCEPT ![r] = header]
           /\ resp' = [resp EXCEPT ![r] = IF a = Breaks THEN @ ELSE a]
           /\ pc' = [pc EXCEPT ![r] =
                       IF a = Breaks THEN "idle"
                       ELSE IF inject[r] # NoConv /\ ~ok THEN "retry" ELSE AfterAnswer(r, a)]
  /\ UNCHANGED <<up, store, key, inject>>

\* The second attempt, without the header; if it breaks, the first response stands.
Retry(r) ==
  /\ pc[r] = "retry"
  /\ \E ok \in BOOLEAN, id \in 0..MaxConv + 1 :
       LET a == Answer(ok, id)
           kept == IF a = Breaks THEN resp[r] ELSE a
       IN  /\ Gateway(key[r], NoConv, a)
           /\ Excuse(key[r], a)
           /\ resp' = [resp EXCEPT ![r] = kept]
           /\ pc' = [pc EXCEPT ![r] = AfterAnswer(r, kept)]
  /\ sent' = [sent EXCEPT ![r] = NoConv]
  /\ UNCHANGED <<up, store, key, inject>>

-----------------------------------------------------------------------------
(* store.set and the file *)

\* A turn that has recorded is over: nothing reads its variables any more. (One that ends
\* before keeps them until the next, so that the properties see what was sent.)
Return(r) ==
  /\ pc' = [pc EXCEPT ![r] = "idle"] /\ key' = [key EXCEPT ![r] = NoThread]
  /\ inject' = [inject EXCEPT ![r] = NoConv] /\ sent' = [sent EXCEPT ![r] = NoConv]
  /\ resp' = [resp EXCEPT ![r] = Answer(FALSE, NoConv)]

Record(r) ==
  /\ pc[r] = "record" /\ mutex = {}
  /\ IF entries[key[r]] = resp[r].id
     THEN Return(r) /\ UNCHANGED store
     ELSE /\ pc' = [pc EXCEPT ![r] = "write"] /\ UNCHANGED <<key, inject, sent, resp>>
          /\ entries' = [entries EXCEPT ![key[r]] = resp[r].id]
          /\ mutex' = {r} /\ UNCHANGED <<file, tmp>>
  /\ UNCHANGED <<up, owner, excused>>

\* What ends a save, done or not: a failure is logged and leaves the file as it is.
Unlock(r) == Return(r) /\ mutex' = {}

\* Mutant of WriteTmp: the early return for a failure forgets the mutex.
WriteTmpLocked(r) ==
  /\ pc[r] = "write" /\ UNCHANGED mutex
  /\ \/ pc' = [pc EXCEPT ![r] = "rename"] /\ tmp' = entries
     \/ pc' = [pc EXCEPT ![r] = "idle"] /\ tmp' = Torn
  /\ UNCHANGED <<up, entries, file, key, inject, sent, resp, owner, excused>>

\* Mutant of WriteTmp: the return after a failed write is missing.
WriteTmpGoesOn(r) ==
  /\ pc[r] = "write" /\ pc' = [pc EXCEPT ![r] = "rename"]
  /\ tmp' \in {entries, Torn}
  /\ UNCHANGED <<up, entries, file, mutex, key, inject, sent, resp, owner, excused>>

\* MkdirAll or marshalling fails, or WriteFile, which may leave part of the mapping.
\* Nobody reads what a save leaves of the temporary file, so it counts as torn.
WriteTmp(r) ==
  /\ pc[r] = "write"
  /\ \/ pc' = [pc EXCEPT ![r] = "rename"] /\ tmp' = entries
        /\ UNCHANGED <<mutex, key, inject, sent, resp>>
     \/ Unlock(r) /\ tmp' = Torn
  /\ UNCHANGED <<up, entries, file, owner, excused>>

Rename(r) ==
  /\ pc[r] = "rename" /\ Unlock(r)
  /\ file' \in {file, tmp} /\ tmp' = Torn
  /\ UNCHANGED <<up, entries, owner, excused>>

-----------------------------------------------------------------------------
(* Ends and starts of the proxy *)

\* A crash, or a shutdown that does not wait ten seconds longer for a request.
Crash ==
  /\ up /\ up' = FALSE
  /\ entries' = NoEntries /\ mutex' = {} /\ tmp' = Torn
  /\ pc' = [r \in Req |-> "idle"]
  /\ inject' = [r \in Req |-> NoConv] /\ sent' = [r \in Req |-> NoConv]
  /\ resp' = [r \in Req |-> Answer(FALSE, NoConv)]
  /\ key' = [r \in Req |-> NoThread]
  /\ excused' = excused \cup {k \in Thread : Active(k) # {} \/ file[k] # entries[k]}
  /\ UNCHANGED <<file, owner>>

\* A file that cannot be read or parsed makes an empty map.
Start ==
  /\ ~up /\ up' = TRUE
  /\ \/ entries' = file /\ UNCHANGED excused
     \/ entries' = NoEntries /\ excused' = excused \cup Thread
  /\ UNCHANGED <<file, tmp, mutex, requests, owner>>

-----------------------------------------------------------------------------

Init ==
  /\ up = FALSE
  /\ entries = NoEntries /\ file = NoEntries /\ tmp = Torn /\ mutex = {}
  /\ pc = [r \in Req |-> "idle"] /\ key = [r \in Req |-> NoThread]
  /\ inject = [r \in Req |-> NoConv] /\ sent = [r \in Req |-> NoConv]
  /\ resp = [r \in Req |-> Answer(FALSE, NoConv)]
  /\ owner = <<>> /\ excused = {}

Step(r) == Lookup(r) \/ Forward(r) \/ Retry(r) \/ Record(r) \/ WriteTmp(r) \/ Rename(r)

Next ==
  \/ \E r \in Req : (\E k \in Thread \cup {NoThread} : Arrive(r, k)) \/ Step(r)
  \/ Crash \/ Start

\* The gateway answers or the client's half hour ends the attempt; the mutex is
\* Go's, which lets nobody wait for ever; a save returns.
Spec == Init /\ [][Next]_vars /\ \A r \in Req : SF_vars(Step(r))

-----------------------------------------------------------------------------
(* Properties *)

Convs == 0..Len(owner)
Saving == {"write", "rename"}

TypeOK ==
  /\ up \in BOOLEAN
  /\ entries \in [Thread -> Convs] /\ file \in [Thread -> Convs]
  /\ tmp \in [Thread -> Convs] \cup {Torn}
  /\ mutex = {r \in Req : pc[r] \in Saving}
  /\ pc \in [Req -> {"idle", "lookup", "forward", "retry", "record"} \cup Saving]
  /\ key \in [Req -> Thread \cup {NoThread}]
  /\ inject \in [Req -> Convs] /\ sent \in [Req -> Convs]
  /\ resp \in [Req -> [ok: BOOLEAN, id: Convs]]
  /\ owner \in Seq(Thread \cup {NoThread}) /\ Len(owner) <= MaxConv
  /\ excused \subseteq Thread \cup {NoThread}

\* No thread ever sends, remembers or saves a conversation that was started for
\* another, whatever header its caller forged ("never let a caller forge continuity").
Isolation ==
  /\ \A r \in Req : sent[r] # NoConv => owner[sent[r]] = key[r]
  /\ \A k \in Thread : /\ entries[k] # NoConv => owner[entries[k]] = k
                       /\ file[k] # NoConv => owner[file[k]] = k

\* A thread whose turns come one after the other keeps its one conversation, over
\* restarts too, as long as the gateway accepts and names it and its mapping was
\* saved when the proxy ended ("so it survives proxy restarts").
OneConversation ==
  \A k \in Thread \ excused, c, d \in 1..Len(owner) : owner[c] = k /\ owner[d] = k => c = d

\* A turn that was given a conversation leaves its thread with that one, a refused
\* one having healed, and no other turn comes between its change and its save
\* ("Stale IDs self-heal", and the mutex that is held over the save).
TurnsDecide ==
  [][\A r \in Req :
       pc[r] \in {"record"} \cup Saving /\ pc'[r] = "idle" /\ up' => entries'[key[r]] = resp[r].id]_vars

\* What a thread can rely on: its own conversation, the one it was last given, and no
\* other, over heals, concurrent turns and restarts.
Continuity == [](Isolation /\ OneConversation) /\ TurnsDecide

Atomic == INSTANCE AtomicStore WITH
  Fresh <- NoEntries,
  Grows <- LAMBDA a, b : \E k \in Thread : \A j \in Thread \ {k} : a[j] = b[j],
  mem   <- IF up THEN entries ELSE file,
  disk  <- file

\* The file is only ever replaced by the whole of the map, which changes one thread at
\* a time: what is renamed is what memory holds at that moment, whichever saves failed or
\* were cut off before, and what they left behind is never read ("so a crash mid-write
\* can't leave a truncated file").
ImplementsAtomicStore == Atomic!Spec

=============================================================================
