------------------------------ MODULE TootSync ------------------------------
(***************************************************************************)
(* The blog's announcements on Mastodon (internal/mastodon of             *)
(* blog-klimlive): every run of cmd/sync walks the posts, looks for a toot *)
(* of each post that carries no id yet, posts one if it finds none, and    *)
(* writes the id into the front matter of the post and of its              *)
(* translations. Answers get lost, writes fail half way, runs are killed,  *)
(* and the account's owner toots and edits in between.                     *)
(*                                                                         *)
(* A post's place in the directory listing is its number, a toot's id its  *)
(* place on the timeline. Titles, texts and dates are left out.            *)
(***************************************************************************)
EXTENDS Naturals, FiniteSets, FiniteSetsExt, Sequences

CONSTANTS
  Posts,         \* page bundles, numbered in the order of os.ReadDir
  Langs,         \* languages a post may be translated to
  Slotless,      \* posts whose front matter spells the empty id another way
  Window,        \* the statuses one search sees (limit=40)
  MaxToots,      \* bound: toots on the timeline
  MaxOwn,        \* bound: toots the owner writes by hand
  MaxFaults,     \* bound: failed searches, posts and writes, killed runs
  Chatter,       \* a toot about no post
  Slot,          \* the literal mastodonPostId: ""
  NoSlot,        \* an empty id spelled another way, or no such line
  Torn,          \* a file written in part: no front matter is found in it
  Absent,        \* no such translation
  None           \* no toot, no post

Ids == 1..MaxToots

\* What a file says for an id is one of these, and none of them is a toot or a post.
TootSyncAssumption ==
  /\ Posts \subseteq Nat /\ Slotless \subseteq Posts /\ Window \in Nat \ {0}
  /\ MaxToots \in Nat /\ MaxOwn \in Nat /\ MaxFaults \in Nat
  /\ None \notin Posts /\ Ids \cap {None, Slot, NoSlot, Torn, Absent} = {}
  /\ Slot \notin {NoSlot, Torn, Absent} /\ NoSlot \notin {Torn, Absent} /\ Torn # Absent

VARIABLES
  pc,            \* "idle" | "next" | "search" | "post" | "write" | "spread"
  todo,          \* posts this run has not come to
  cur,           \* the post at hand
  toot,          \* tootID
  left,          \* translations of the post at hand still to be written
  id,            \* what the front matter of each post says
  draft,         \* the posts marked as drafts
  trans,         \* what the front matter of each translation says
  timeline,      \* the account's toots: [about, byHand]
  faults,        \* faults so far
  blind          \* history: posts searched for in vain though a toot exists

run == <<todo, cur, toot, left>>
files == <<id, draft, trans>>
vars == <<pc, todo, cur, toot, left, id, draft, trans, timeline, faults, blind>>

Toot == [about: Posts \cup {Chatter}, byHand: BOOLEAN]

TypeOK ==
  /\ pc \in {"idle", "next", "search", "post", "write", "spread"}
  /\ todo \subseteq Posts
  /\ (cur \in Posts) <=> (pc \in {"search", "post", "write", "spread"})
  /\ (toot \in Ids) <=> (pc \in {"write", "spread"})
  /\ left \subseteq Langs
  /\ id \in [Posts -> Ids \cup {Slot, NoSlot, Torn}]
  /\ draft \subseteq Posts
  /\ trans \in [Posts -> [Langs -> Ids \cup {Slot, Torn, Absent}]]
  /\ timeline \in Seq(Toot) /\ Len(timeline) <= MaxToots
  /\ faults \in 0..MaxFaults
  /\ blind \subseteq Posts

-----------------------------------------------------------------------------
(* The account *)

TootsOf(p) == {i \in DOMAIN timeline : timeline[i].about = p}

InWindow(i) == i + Window > Len(timeline)

FoundFor(p) ==
  LET hits == {i \in TootsOf(p) : InWindow(i)}
  IN  IF hits = {} THEN None ELSE Max(hits)

-----------------------------------------------------------------------------
(* A run, one step per request and per file *)

Fault == faults < MaxFaults /\ faults' = faults + 1

NextPost ==
  /\ pc' = "next" /\ cur' = None /\ toot' = None /\ left' = {}

Start ==
  /\ pc = "idle"
  /\ pc' = "next" /\ todo' = Posts
  /\ UNCHANGED <<cur, toot, left, files, timeline, faults, blind>>

Done ==
  /\ pc = "next" /\ todo = {}
  /\ pc' = "idle"
  /\ UNCHANGED <<run, files, timeline, faults, blind>>

ReadPost ==
  /\ pc = "next" /\ todo # {}
  /\ LET p == Min(todo) IN
       /\ todo' = todo \ {p}
       /\ IF id[p] \in {Slot, NoSlot} /\ p \notin draft
            THEN cur' = p /\ pc' = "search"
            ELSE UNCHANGED <<pc, cur>>
  /\ UNCHANGED <<toot, left, files, timeline, faults, blind>>

Search ==
  /\ pc = "search"
  /\ toot' = FoundFor(cur)
  /\ pc' = IF toot' = None THEN "post" ELSE "write"
  /\ blind' = IF toot' = None /\ TootsOf(cur) # {} THEN blind \cup {cur} ELSE blind
  /\ UNCHANGED <<todo, cur, left, files, timeline, faults>>

\* The failure is logged, and the post goes out as if nothing had been found.
SearchFails ==
  /\ pc = "search" /\ Fault
  /\ pc' = "post"
  /\ blind' = IF TootsOf(cur) # {} THEN blind \cup {cur} ELSE blind
  /\ UNCHANGED <<run, files, timeline>>

Publish == timeline' = Append(timeline, [about |-> cur, byHand |-> FALSE])

Post ==
  /\ pc = "post" /\ Len(timeline) < MaxToots
  /\ Publish
  /\ toot' = Len(timeline')
  /\ pc' = "write"
  /\ UNCHANGED <<todo, cur, left, files, faults, blind>>

\* Mutant of PostFails: the request is repeated at once.
PostFailsRetry ==
  /\ pc = "post" /\ Fault
  /\ \/ UNCHANGED timeline
     \/ Len(timeline) < MaxToots /\ Publish
  /\ UNCHANGED <<pc, run, files, blind>>

\* Refused, or posted with the answer lost.
PostFails ==
  /\ pc = "post" /\ Fault
  /\ \/ UNCHANGED timeline
     \/ Len(timeline) < MaxToots /\ Publish
  /\ NextPost
  /\ UNCHANGED <<todo, files, blind>>

\* What setMastodonPostID makes of the id of a file.
WithId(old) == IF old = Slot THEN toot ELSE old

WriteMain ==
  /\ pc = "write" /\ id[cur] # Torn
  /\ id' = [id EXCEPT ![cur] = WithId(@)]
  /\ left' = {l \in Langs : trans[cur][l] # Absent}
  /\ pc' = "spread"
  /\ UNCHANGED <<todo, cur, toot, draft, trans, timeline, faults, blind>>

\* The write fails, before or after it has emptied the file.
WriteMainFails ==
  /\ pc = "write" /\ Fault
  /\ \/ UNCHANGED id
     \/ id' = [id EXCEPT ![cur] = Torn]
  /\ NextPost
  /\ UNCHANGED <<todo, draft, trans, timeline, blind>>

WriteTranslation(l) ==
  /\ pc = "spread" /\ l \in left
  /\ trans' = [trans EXCEPT ![cur][l] = WithId(@)]
  /\ left' = left \ {l}
  /\ UNCHANGED <<pc, todo, cur, toot, id, draft, timeline, faults, blind>>

WriteTranslationFails(l) ==
  /\ pc = "spread" /\ l \in left /\ Fault
  /\ \/ UNCHANGED trans
     \/ trans' = [trans EXCEPT ![cur][l] = Torn]
  /\ left' = left \ {l}
  /\ UNCHANGED <<pc, todo, cur, toot, id, draft, timeline, blind>>

Spread ==
  /\ pc = "spread" /\ left = {}
  /\ NextPost
  /\ UNCHANGED <<todo, files, timeline, faults, blind>>

\* The run is killed; the file it was writing may be left in part.
Killed ==
  /\ pc # "idle" /\ Fault
  /\ \/ UNCHANGED <<id, trans>>
     \/ pc = "write" /\ id' = [id EXCEPT ![cur] = Torn] /\ UNCHANGED trans
     \/ /\ pc = "spread" /\ UNCHANGED id
        /\ \E l \in left : trans' = [trans EXCEPT ![cur][l] = Torn]
  /\ pc' = "idle" /\ todo' = {} /\ cur' = None /\ toot' = None /\ left' = {}
  /\ UNCHANGED <<draft, timeline, blind>>

-----------------------------------------------------------------------------
(* The owner, between or during runs *)

Own == {i \in DOMAIN timeline : timeline[i].byHand}

TootByHand(about) ==
  /\ Cardinality(Own) < MaxOwn /\ Len(timeline) < MaxToots
  /\ timeline' = Append(timeline, [about |-> about, byHand |-> TRUE])
  /\ UNCHANGED <<pc, run, files, faults, blind>>

Undraft(p) ==
  /\ p \in draft
  /\ draft' = draft \ {p}
  /\ UNCHANGED <<pc, run, id, trans, timeline, faults, blind>>

Translate(p, l) ==
  /\ trans[p][l] = Absent
  /\ trans' = [trans EXCEPT ![p][l] = Slot]
  /\ UNCHANGED <<pc, run, id, draft, timeline, faults, blind>>

\* A damaged file is taken from version control again, as it was before the run.
Restore(p) ==
  /\ pc = "idle" /\ id[p] = Torn
  /\ id' = [id EXCEPT ![p] = IF p \in Slotless THEN NoSlot ELSE Slot]
  /\ UNCHANGED <<pc, run, draft, trans, timeline, faults, blind>>

RestoreTranslation(p, l) ==
  /\ pc = "idle" /\ trans[p][l] = Torn
  /\ trans' = [trans EXCEPT ![p][l] = Slot]
  /\ UNCHANGED <<pc, run, id, draft, timeline, faults, blind>>

Owner ==
  \/ \E about \in Posts \cup {Chatter} : TootByHand(about)
  \/ \E p \in Posts : Undraft(p) \/ Restore(p)
  \/ \E p \in Posts, l \in Langs : Translate(p, l) \/ RestoreTranslation(p, l)

-----------------------------------------------------------------------------

Init ==
  /\ pc = "idle" /\ todo = {} /\ cur = None /\ toot = None /\ left = {}
  /\ id = [p \in Posts |-> IF p \in Slotless THEN NoSlot ELSE Slot]
  /\ draft \in SUBSET Posts
  /\ trans \in [Posts -> [Langs -> {Slot, Absent}]]
  /\ timeline = <<>> /\ faults = 0 /\ blind = {}

Step ==
  \/ Start \/ Done \/ ReadPost \/ Search \/ SearchFails \/ Post \/ PostFails
  \/ WriteMain \/ WriteMainFails \/ Spread
  \/ \E l \in Langs : WriteTranslation(l) \/ WriteTranslationFails(l)

Next == Step \/ Killed \/ Owner

Spec == Init /\ [][Next]_vars /\ WF_vars(Step)

-----------------------------------------------------------------------------
(* Properties *)

\* A post is announced a second time only if a search for it failed, or its
\* toot had left the page a search sees (FindStatusByURL before PostStatus):
\* killed runs, lost answers and failed writes never repeat it by themselves.
OneToot ==
  \A p \in Posts \ blind, i, j \in DOMAIN timeline :
    {i, j} \subseteq TootsOf(p) /\ ~timeline[i].byHand /\ ~timeline[j].byHand => i = j

\* An id in a front matter is that of a toot about this very post, and a
\* translation never names another toot than its post does
\* (setMastodonPostID, for the post and then for its translations).
IdsMatch ==
  \A p \in Posts :
    /\ id[p] \in Ids => id[p] \in TootsOf(p)
    /\ \A l \in Langs :
         trans[p][l] \in Ids =>
           /\ trans[p][l] \in TootsOf(p)
           /\ id[p] \in Ids => id[p] = trans[p][l]

=============================================================================
