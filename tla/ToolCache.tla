------------------------------ MODULE ToolCache ------------------------------
(***************************************************************************)
(* The tool cache of llamastack-proxy (main.go, type ToolCache): requests  *)
(* and the admin endpoint refresh it concurrently, a refresh in three      *)
(* sections of its lock, and requests select tools from it and look them   *)
(* up again whenever the model calls one.                                  *)
(*                                                                         *)
(* A tool is its name; tools that have only the "identifier" of the older  *)
(* API are left out. LlamaStack's catalogue is external and changes at     *)
(* will. The score of a group is whether it has a keyword of the user's    *)
(* message.                                                                *)
(***************************************************************************)
EXTENDS Naturals, FiniteSets

CONSTANTS
  Req,           \* requests under way at one time, the admin's included
  Group, Tool,
  Catalogues,    \* bound: the states of LlamaStack's catalogue, group |-> tools
  Blacklist,     \* TOOLS_BLACKLIST: names
  Explicit,      \* TOOL_GROUPS_FILTER: groups, {} for none
  Smart          \* ENABLE_SMART_TOOL_FILTERING

ToolCacheAssumption ==
  /\ Smart \in BOOLEAN /\ Explicit \subseteq Group
  /\ Catalogues \subseteq UNION {[G -> SUBSET Tool] : G \in SUBSET Group}

VARIABLES
  catalogue,     \* external: what LlamaStack would answer now
  groups,        \* toolGroups
  byGroup,       \* toolsByGroup
  toGroup,       \* toolToGroup: name |-> group
  keywords,      \* groupKeywords: group |-> the tools they were taken from
  recent,        \* lastRefresh is within the refresh interval
  mu,            \* {} or the one request that holds the write lock
  pc, admin,     \* per request: the next step; whether it is the admin's
  listing,       \* per request: the groups it was answered
  todo,          \* per request: the groups its refresh still has to ask for
  selected,      \* per request: the groups selected for it
  offered        \* per request: the tools injected into it

cache == <<groups, byGroup, toGroup, keywords, recent, mu>>
local == <<pc, admin, listing, todo, selected, offered>>
vars  == <<catalogue, cache, local>>

NoTools == [g \in {} |-> {}]
Goto(r, step) == pc' = [pc EXCEPT ![r] = step]

\* f with the value v for every element of S.
With(f, S, v) == [x \in DOMAIN f \cup S |-> IF x \in S THEN v ELSE f[x]]

-----------------------------------------------------------------------------
(* A refresh *)

ChatArrives(r) ==
  /\ pc[r] = "idle" /\ Goto(r, "check")
  /\ admin' = [admin EXCEPT ![r] = FALSE]
  /\ UNCHANGED <<catalogue, cache, listing, todo, selected, offered>>

\* Also the refresh at the start of the process, which runs alone.
AdminRefreshes(r) ==
  /\ pc[r] = "idle" /\ Goto(r, "ask")
  /\ admin' = [admin EXCEPT ![r] = TRUE]
  /\ UNCHANGED <<catalogue, cache, listing, todo, selected, offered>>

NeedsRefresh(r) ==
  /\ pc[r] = "check" /\ mu = {}
  /\ Goto(r, IF recent THEN "select" ELSE "ask")
  /\ UNCHANGED <<catalogue, cache, admin, listing, todo, selected, offered>>

\* Where a refresh goes on after its end or its failure.
Leave(r) ==
  /\ Goto(r, IF admin[r] THEN "idle" ELSE "select")
  /\ admin' = [admin EXCEPT ![r] = FALSE]

\* refreshToolGroups asks without the lock; a failure ends the refresh.
AskGroups(r) ==
  /\ pc[r] = "ask"
  /\ \/ Goto(r, "assign") /\ listing' = [listing EXCEPT ![r] = DOMAIN catalogue] /\ UNCHANGED admin
     \/ Leave(r) /\ UNCHANGED listing
  /\ UNCHANGED <<catalogue, cache, todo, selected, offered>>

AssignGroups(r) ==
  /\ pc[r] = "assign" /\ mu = {} /\ Goto(r, "lock")
  /\ groups' = listing[r]
  /\ listing' = [listing EXCEPT ![r] = {}]
  /\ UNCHANGED <<catalogue, byGroup, toGroup, keywords, recent, mu, admin, todo, selected, offered>>

\* Mutant of BeginTools: the mapping of names is made anew as well.
BeginToolsAnew(r) ==
  /\ pc[r] = "lock" /\ mu = {} /\ Goto(r, "fetch")
  /\ mu' = {r} /\ byGroup' = NoTools /\ toGroup' = NoTools
  /\ todo' = [todo EXCEPT ![r] = groups]
  /\ UNCHANGED <<catalogue, groups, keywords, recent, admin, listing, selected, offered>>

\* refreshAllTools takes the write lock and keeps it over all its requests.
BeginTools(r) ==
  /\ pc[r] = "lock" /\ mu = {} /\ Goto(r, "fetch")
  /\ mu' = {r} /\ byGroup' = NoTools
  /\ todo' = [todo EXCEPT ![r] = groups]
  /\ UNCHANGED <<catalogue, groups, toGroup, keywords, recent, admin, listing, selected, offered>>

Filtered(tools) == tools \ Blacklist

\* What the tools of a group add to the mapping; the last group wins.
Mapped(tools, g) == With(toGroup, tools, g)

\* A group's request fails or cannot be decoded, and is skipped; or is answered by an
\* error that decodes as a list without tools; or by its tools.
FetchTools(r, g) ==
  /\ pc[r] = "fetch" /\ g \in todo[r]
  /\ todo' = [todo EXCEPT ![r] = @ \ {g}]
  /\ \/ UNCHANGED <<byGroup, toGroup>>
     \/ \E got \in {{}} \cup (IF g \in DOMAIN catalogue THEN {catalogue[g]} ELSE {}) :
          /\ byGroup' = With(byGroup, {g}, Filtered(got))
          /\ toGroup' = Mapped(Filtered(got), g)
  /\ UNCHANGED <<catalogue, groups, keywords, recent, mu, pc, admin, listing, selected, offered>>

\* Mutant of EndTools: the lock is not released when no group answered.
EndToolsLocked(r) ==
  /\ pc[r] = "fetch" /\ todo[r] = {} /\ Goto(r, "index")
  /\ recent' = TRUE /\ mu' = IF byGroup = NoTools THEN mu ELSE {}
  /\ UNCHANGED <<catalogue, groups, byGroup, toGroup, keywords, admin, listing, todo, selected, offered>>

EndTools(r) ==
  /\ pc[r] = "fetch" /\ todo[r] = {} /\ Goto(r, "index")
  /\ recent' = TRUE /\ mu' = {}
  /\ UNCHANGED <<catalogue, groups, byGroup, toGroup, keywords, admin, listing, todo, selected, offered>>

BuildIndex(r) ==
  /\ pc[r] = "index" /\ mu = {} /\ Leave(r)
  /\ keywords' = byGroup
  /\ UNCHANGED <<catalogue, groups, byGroup, toGroup, recent, mu, listing, todo, selected, offered>>

-----------------------------------------------------------------------------
(* A request *)

\* The explicit groups; or all; or those with a keyword of the message, a group's id being
\* one of its own, and if there is none the one that sorts first.
Relevant(choice) ==
  IF Explicit # {} THEN choice = Explicit
  ELSE IF ~Smart THEN choice = groups
  ELSE \/ choice \subseteq groups \cap DOMAIN keywords /\ choice # {}
       \/ choice \subseteq groups /\ Cardinality(choice) = (IF groups = {} THEN 0 ELSE 1)

Select(r) ==
  /\ pc[r] = "select" /\ mu = {} /\ Goto(r, "get")
  /\ \E choice \in SUBSET Group :
       Relevant(choice) /\ selected' = [selected EXCEPT ![r] = choice]
  /\ UNCHANGED <<catalogue, cache, admin, listing, todo, offered>>

GetTools(r) ==
  /\ pc[r] = "get" /\ mu = {} /\ Goto(r, "chat")
  /\ offered' = [offered EXCEPT ![r] =
       UNION {byGroup[g] : g \in selected[r] \cap DOMAIN byGroup}]
  /\ selected' = [selected EXCEPT ![r] = {}]
  /\ UNCHANGED <<catalogue, cache, admin, listing, todo>>

\* executeToolCall finds the group of whatever the model calls; a name that is not
\* mapped is answered with an error.
Found(name) == name \in DOMAIN toGroup

Answer(r) ==
  /\ pc[r] = "chat" /\ Goto(r, "idle")
  /\ offered' = [offered EXCEPT ![r] = {}]
  /\ UNCHANGED <<catalogue, cache, admin, listing, todo, selected>>

-----------------------------------------------------------------------------

\* The five minutes of cacheRefreshInterval are over.
Ages == recent /\ recent' = FALSE
        /\ UNCHANGED <<catalogue, groups, byGroup, toGroup, keywords, mu, local>>

CatalogueChanges == catalogue' \in Catalogues \ {catalogue} /\ UNCHANGED <<cache, local>>

Init ==
  /\ catalogue \in Catalogues
  /\ groups = {} /\ byGroup = NoTools /\ toGroup = NoTools /\ keywords = NoTools
  /\ recent = FALSE /\ mu = {}
  /\ pc = [r \in Req |-> "idle"] /\ admin = [r \in Req |-> FALSE]
  /\ listing = [r \in Req |-> {}] /\ todo = listing /\ selected = listing /\ offered = listing

Step(r) ==
  \/ NeedsRefresh(r) \/ AskGroups(r) \/ AssignGroups(r) \/ BeginTools(r)
  \/ (\E g \in Group : FetchTools(r, g)) \/ EndTools(r) \/ BuildIndex(r)
  \/ Select(r) \/ GetTools(r) \/ Answer(r)

Next ==
  \/ \E r \in Req : ChatArrives(r) \/ AdminRefreshes(r) \/ Step(r)
  \/ Ages \/ CatalogueChanges

\* LlamaStack answers or breaks off (the client has no time-out of its own), and Go's
\* lock lets nobody wait for ever.
Spec == Init /\ [][Next]_vars /\ \A r \in Req : SF_vars(Step(r))

-----------------------------------------------------------------------------
(* Properties *)

IsTools(f) == DOMAIN f \subseteq Group /\ \A g \in DOMAIN f : f[g] \subseteq Tool
Refreshing == {"ask", "assign", "lock", "fetch", "index"}

TypeOK ==
  /\ catalogue \in Catalogues /\ groups \subseteq Group
  /\ IsTools(byGroup) /\ IsTools(keywords)
  /\ DOMAIN toGroup \subseteq Tool /\ \A n \in DOMAIN toGroup : toGroup[n] \in Group
  /\ recent \in BOOLEAN /\ mu = {r \in Req : pc[r] = "fetch"}
  /\ pc \in [Req -> Refreshing \cup {"idle", "check", "select", "get", "chat"}]
  /\ admin \in [Req -> BOOLEAN]
  /\ listing \in [Req -> SUBSET Group] /\ todo \in [Req -> SUBSET Group]
  /\ selected \in [Req -> SUBSET Group] /\ offered \in [Req -> SUBSET Tool]

\* A tool in the cache is run in a group that lists it now, wherever it was listed
\* before: the mapping, which no refresh clears, is corrected as groups come in.
MappingCurrent ==
  \A g \in DOMAIN byGroup : \A t \in byGroup[g] :
    Found(t) /\ toGroup[t] \in {h \in DOMAIN byGroup : t \in byGroup[h]}

\* A tool once offered to the model can be run for as long as its request lasts,
\* whatever refreshes come in between (executeToolCall: "not found in cache").
OfferedRunnable == \A r \in Req : \A t \in offered[r] : Found(t)

\* A blacklisted name is never run, not even for a client that brings tools of its own.
BlacklistNeverRun == \A n \in Blacklist : ~Found(n)

\* Once no refresh is under way the keywords are those of the cached tools, and the
\* cached tools are of groups that are known, however refreshes were interleaved.
SettlesConsistent ==
  (\A r \in Req : pc[r] \notin Refreshing) =>
    keywords = byGroup /\ DOMAIN byGroup \subseteq groups

\* A request is offered its selected groups from a whole refresh, never from one that
\* is still filling the cache.
NeverHalfFilled == [][\A r \in Req : GetTools(r) => \A q \in Req : todo[q] = {}]_vars

\* However requests and refreshes are interleaved, the cache can be relied on: what is
\* offered can be run where the mapping says, and nothing blacklisted can.
CacheConsistent ==
  [](MappingCurrent /\ OfferedRunnable /\ BlacklistNeverRun /\ SettlesConsistent) /\ NeverHalfFilled

=============================================================================
