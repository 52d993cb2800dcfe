------------------------------ MODULE Services ------------------------------
(***************************************************************************)
(* The programs that work by asking another service: the proxies' maps,    *)
(* caches and loops before LlamaStack and the gateway, and the blog's      *)
(* synchronisation with Mastodon. They share no state, so an interleaving  *)
(* of them says no more than each one by itself: a behaviour is about the  *)
(* one chosen at the start, and the others stay as they began.             *)
(***************************************************************************)
EXTENDS Naturals, Sequences

CONSTANTS
  Req,                                                      \* of the proxies
  Thread, NoThread, MaxConv,                                \* of Conversations
  Group, Tool, Catalogues, Blacklist, Explicit, Smart,      \* of ToolCache
  Id, Histories, MaxCalls, MaxIterations,                   \* of ChatLoop
  Posts, Langs, Slotless, Window, MaxToots, MaxOwn, MaxFaults,
  Chatter, Slot, NoSlot, Torn, Absent, None                 \* of TootSync

VARIABLES
  service,                                                        \* the one that runs
  up, entries, file, tmp, mutex, convPc, key, inject, sent,
  resp, owner, excused,                                                 \* of Conversations
  catalogue, groups, byGroup, toGroup, keywords, recent, mu,
  cachePc, admin, listing, todo, selected, offered,               \* of ToolCache
  chatPc, msgs, given, tools, stream, round, ran, shown, status,  \* of ChatLoop
  syncPc, posts, cur, toot, left, id, draft, trans, timeline,
  faults, blind                                                   \* of TootSync

Conv  == INSTANCE Conversations WITH pc <- convPc
Cache == INSTANCE ToolCache WITH pc <- cachePc
Chat  == INSTANCE ChatLoop WITH pc <- chatPc
Toots == INSTANCE TootSync WITH pc <- syncPc, todo <- posts

ASSUME ServicesAssumption ==
  Conv!ConversationsAssumption /\ Cache!ToolCacheAssumption
    /\ Chat!ChatLoopAssumption /\ Toots!TootSyncAssumption

-----------------------------------------------------------------------------
(* Side by side *)

convVars  == <<up, entries, file, tmp, mutex, convPc, key, inject, sent, resp, owner, excused>>
cacheVars == <<catalogue, groups, byGroup, toGroup, keywords, recent, mu,
               cachePc, admin, listing, todo, selected, offered>>
chatVars  == <<chatPc, msgs, given, tools, stream, round, ran, shown, status>>
tootVars  == <<syncPc, posts, cur, toot, left, id, draft, trans, timeline, faults, blind>>
vars      == <<service, convVars, cacheVars, chatVars, tootVars>>

\* The components that stand still begin in one of their initial states.
Init ==
  /\ service \in {"conversations", "cache", "chat", "toots"}
  /\ Conv!Init /\ Cache!Init /\ Chat!Init /\ Toots!Init
  /\ service # "cache" => DOMAIN catalogue = Group
  /\ service # "toots" => draft = {} /\ \A p \in Posts, l \in Langs : trans[p][l] = Absent

Alone(mine, others) == service = mine /\ UNCHANGED <<service, others>>

Next ==
  \/ Alone("conversations", <<cacheVars, chatVars, tootVars>>) /\ Conv!Next
  \/ Alone("cache", <<convVars, chatVars, tootVars>>) /\ Cache!Next
  \/ Alone("chat",  <<convVars, cacheVars, tootVars>>) /\ Chat!Next
  \/ Alone("toots", <<convVars, cacheVars, chatVars>>) /\ Toots!Next

\* A request is served as its service's own specification says, and a run as its own.
Serve(r) ==
  \/ Alone("conversations", <<cacheVars, chatVars, tootVars>>) /\ Conv!Step(r)
  \/ Alone("cache", <<convVars, chatVars, tootVars>>) /\ Cache!Step(r)
  \/ Alone("chat",  <<convVars, cacheVars, tootVars>>) /\ Chat!Handle
  \/ Alone("toots", <<convVars, cacheVars, chatVars>>) /\ Toots!Step

Spec == Init /\ [][Next]_vars /\ \A r \in Req : SF_vars(Serve(r))

-----------------------------------------------------------------------------
(* Properties *)

\* The type invariant of the service that runs.
TypeOK ==
  /\ service = "conversations" => Conv!TypeOK
  /\ service = "cache" => Cache!TypeOK
  /\ service = "chat"  => Chat!TypeOK
  /\ service = "toots" => Toots!TypeOK

\* No turn of llamastack-proxy's tool loop is put before the model with a call
\* unanswered or a result without content, each of its calls is run once, and the last
\* answer was given in sight of all results (handleChatCompletion).
ResultsSeen == service = "chat" => Chat!ResultsReachModel

\* Killed runs, lost answers and torn files make the blog announce no post twice while
\* its searches succeed, and never note the toot of another post (mastodon.Sync).
OneToot == service = "toots" => Toots!OneToot /\ Toots!IdsMatch

\* However saves fail or are cut off between the write and the rename, the file of
\* openwebui-openhands-proxy is replaced by whole states of its map only, and these
\* differ by one thread (store.set, save and load).
ImplementsAtomicStore == Conv!ImplementsAtomicStore

\* A thread of openwebui-openhands-proxy keeps its one conversation, and no other
\* thread's ("never let a caller forge continuity").
OneConversation == Conv!Continuity

\* What llamastack-proxy offers from its cache can be run where its mapping says,
\* however refreshes overlap (ToolCache, executeToolCall).
CacheConsistent == Cache!CacheConsistent

=============================================================================
