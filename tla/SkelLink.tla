------------------------------ MODULE SkelLink ------------------------------
(***************************************************************************)
(* skel-link (src/images/desktop/usr/bin/skel-link): the configuration a   *)
(* home directory shares with the image's /etc/skel becomes links into it, *)
(* except where an application writes (COPY_PATHS) and where the user has  *)
(* changed something. A run may be killed at any point, the user edits     *)
(* between runs, and the image is updated.                                 *)
(*                                                                         *)
(* A path is a sequence of names below $HOME or $SKEL; contents are        *)
(* versions of the image, or the user's. Counts and messages are left out. *)
(***************************************************************************)
EXTENDS Naturals, FiniteSets, SequencesExt

CONSTANTS
  SkelDirs, SkelFiles,   \* what /etc/skel holds
  Own,                   \* paths of the user's own, in directories of skel
  CopyPaths,             \* COPY_PATHS
  MaxImage,              \* bound: updates of the image
  MaxEdits,              \* bound: the user's edits
  Missing, Dir,          \* nothing there; a directory
  Ours, Theirs, Broken,  \* a link to the path in skel, elsewhere, nowhere
  Mine                   \* a file with the user's contents

SkelPaths == SkelDirs \cup SkelFiles
Paths == SkelPaths \cup Own

Below(p) == {q \in Paths : Len(q) > Len(p) /\ IsPrefix(p, q)}
Tree(p) == {p} \cup Below(p)
Children(p) == {q \in SkelPaths : q \in Below(p) /\ Len(q) = Len(p) + 1}
Above(p) == {SubSeq(p, 1, n) : n \in 1..Len(p) - 1}

Versions == 0..MaxImage
Links == {Ours, Theirs, Broken}

SkelLinkAssumption ==
  /\ IsFiniteSet(Paths) /\ Paths \subseteq Seq(UNION {ToSet(p) : p \in Paths})
  /\ \A p \in Paths : p # <<>> /\ Above(p) \subseteq SkelDirs
  /\ SkelDirs \cap SkelFiles = {} /\ Own \cap SkelPaths = {}
  /\ CopyPaths \subseteq SkelPaths
  /\ MaxImage \in Nat /\ MaxEdits \in Nat
  /\ Missing \notin {Dir, Mine} \cup Links \cup Versions
  /\ Dir \notin {Mine} \cup Links \cup Versions
  /\ Mine \notin Links \cup Versions /\ Links \cap Versions = {}
  /\ Ours \notin {Theirs, Broken} /\ Theirs # Broken

VARIABLES
  pc,            \* "idle" | "handle" | "remove" | "put"
  op,            \* the path being replaced, how, and what of it the user
                 \* has changed since: [path, copy, late]; or <<>>
  todo,          \* paths still to be handled
  dry, force,    \* the options of the run
  home,          \* what there is at each path
  image,         \* the version of each file in skel
  edits,         \* the user's edits so far
  clean          \* history: a run went through and nothing happened since

runVars == <<op, todo, dry, force>>
vars == <<pc, op, todo, dry, force, home, image, edits, clean>>

TypeOK ==
  /\ pc \in {"idle", "handle", "remove", "put"}
  /\ op = <<>> \/ op \in [path: SkelPaths, copy: BOOLEAN, late: SUBSET Paths]
  /\ (op # <<>>) <=> (pc \in {"remove", "put"})
  /\ todo \in Seq(SkelPaths) /\ (pc = "idle" => todo = <<>>)
  /\ dry \in BOOLEAN /\ force \in BOOLEAN
  /\ home \in [Paths -> {Missing, Dir, Mine} \cup Links \cup Versions]
  /\ \A p \in Paths : home[p] # Missing => \A q \in Above(p) : home[q] = Dir
  /\ image \in [SkelFiles -> Versions]
  /\ edits \in 0..MaxEdits /\ clean \in BOOLEAN

-----------------------------------------------------------------------------
(* The tests *)

IsCopyPath(p) == p \in CopyPaths
ContainsCopyPath(p) == CopyPaths \cap Below(p) # {}

SameFile(p) ==
  \/ p \in SkelFiles /\ home[p] = image[p]
  \/ home[p] = Ours

\* diff follows links: a path below one of ours is compared with itself.
SameThrough(q) == SameFile(q) \/ (\E a \in Above(q) : home[a] = Ours)

\* Mutant of Identical: the files the user added are not looked for.
IdenticalOneWay(p) ==
  IF p \in SkelDirs
    THEN home[p] = Dir /\ \A q \in Below(p) \cap SkelFiles : SameThrough(q)
    ELSE SameFile(p)

Identical(p) ==
  IF p \in SkelDirs
    THEN /\ home[p] = Dir
         /\ \A q \in Below(p) \cap SkelFiles : SameThrough(q)
         /\ \A q \in Below(p) \cap SkelDirs :
              home[q] = Dir \/ \E a \in Above(q) \cup {q} : home[a] = Ours
         /\ \A q \in Below(p) \cap Own : home[q] = Missing
    ELSE SameFile(p)

-----------------------------------------------------------------------------
(* A run *)

Start(d, f) ==
  /\ pc = "idle"
  /\ dry' = d /\ force' = f
  /\ todo' = SetToSeq({p \in SkelPaths : Len(p) = 1})
  /\ pc' = "handle"
  /\ UNCHANGED <<op, home, image, edits, clean>>

Finish ==
  /\ pc = "handle" /\ todo = <<>>
  /\ pc' = "idle"
  /\ clean' = (clean \/ ~dry)
  /\ UNCHANGED <<runVars, home, image, edits>>

\* The path at hand, taken for good: left alone, or replaced by a link or a copy.
At(p) == pc = "handle" /\ todo # <<>> /\ p = Head(todo)

Leave ==
  /\ todo' = Tail(todo)
  /\ UNCHANGED <<pc, op, dry, force, home, image, edits, clean>>

Replace(p, exists, copy) ==
  /\ todo' = Tail(todo)
  /\ IF dry
       THEN UNCHANGED <<pc, op>>
       ELSE /\ op' = [path |-> p, copy |-> copy, late |-> {}]
            /\ pc' = IF exists THEN "remove" ELSE "put"
  /\ UNCHANGED <<dry, force, home, image, edits, clean>>

HandleLink(p) ==
  /\ home[p] \in Links
  /\ IF home[p] = Broken THEN Replace(p, TRUE, FALSE) ELSE Leave

HandleCopyPath(p) ==
  /\ home[p] \notin Links /\ IsCopyPath(p)
  /\ \/ home[p] = Missing /\ Replace(p, FALSE, TRUE)
     \/ home[p] # Missing /\ Identical(p) /\ Leave
     \/ home[p] # Missing /\ ~Identical(p) /\ force /\ Replace(p, TRUE, TRUE)
     \/ home[p] # Missing /\ ~Identical(p) /\ ~force /\ Leave

Merge(p, create) ==
  /\ todo' = SetToSeq(Children(p)) \o Tail(todo)
  /\ home' = IF create /\ ~dry THEN [home EXCEPT ![p] = Dir] ELSE home
  /\ UNCHANGED <<pc, op, dry, force, image, edits, clean>>

HandleExisting(p) ==
  /\ home[p] \notin Links \cup {Missing} /\ ~IsCopyPath(p)
  /\ IF home[p] = Dir /\ p \in SkelDirs
       THEN IF ~ContainsCopyPath(p) /\ Identical(p)
              THEN Replace(p, TRUE, FALSE)
              ELSE Merge(p, FALSE)
       ELSE IF Identical(p) \/ force THEN Replace(p, TRUE, FALSE) ELSE Leave

HandleMissing(p) ==
  /\ home[p] = Missing /\ ~IsCopyPath(p)
  /\ IF p \in SkelDirs /\ ContainsCopyPath(p)
       THEN Merge(p, TRUE)
       ELSE Replace(p, FALSE, FALSE)

Handle ==
  \E p \in SkelPaths :
    At(p) /\ (HandleLink(p) \/ HandleCopyPath(p) \/ HandleExisting(p) \/ HandleMissing(p))

Without(gone) == [q \in Paths |-> IF q \in gone THEN Missing ELSE home[q]]

\* rm -rf
RemoveTree ==
  /\ pc = "remove"
  /\ home' = Without(Tree(op.path))
  /\ pc' = "put"
  /\ UNCHANGED <<runVars, image, edits, clean>>

Copied(ps) ==
  [q \in Paths |-> IF q \in ps \cap SkelFiles THEN image[q]
                   ELSE IF q \in ps \cap SkelDirs THEN Dir ELSE home[q]]

\* ln -s or cp -r: into a directory the user has made there meanwhile, and
\* failing if it is anything else.
Put ==
  /\ pc = "put" /\ home[op.path] \in {Missing, Dir}
  /\ \A q \in Above(op.path) : home[q] = Dir
  /\ home' = IF home[op.path] = Dir THEN home
             ELSE IF op.copy THEN Copied(Tree(op.path))
             ELSE [home EXCEPT ![op.path] = Ours]
  /\ op' = <<>> /\ pc' = "handle"
  /\ UNCHANGED <<todo, dry, force, image, edits, clean>>

\* The parts of a tree that a removal or a copy may have come to: with a
\* directory left its parents are.
Remains(p) == {S \in SUBSET Tree(p) : \A q \in S : Above(q) \cap Tree(p) \subseteq S}

\* The run is killed, or a command in it fails.
Killed ==
  /\ pc # "idle"
  /\ \/ UNCHANGED home
     \/ pc = "remove" /\ \E S \in Remains(op.path) : home' = Without(Tree(op.path) \ S)
     \/ pc = "put" /\ op.copy /\ \E S \in Remains(op.path) : home' = Copied(S)
  /\ pc' = "idle" /\ op' = <<>> /\ todo' = <<>> /\ clean' = FALSE
  /\ UNCHANGED <<dry, force, image, edits>>

-----------------------------------------------------------------------------
(* The user and the image *)

\* Bound: during a run the user comes only to what is being replaced, after it was
\* compared.
Edit(p) ==
  /\ pc = "idle" \/ (op # <<>> /\ p \in Tree(op.path))
  /\ edits < MaxEdits /\ edits' = edits + 1
  /\ clean' = FALSE
  /\ \A q \in Above(p) : home[q] = Dir
  /\ \/ p \in SkelFiles \cup Own /\ home[p] \notin {Mine, Theirs, Ours, Broken, Dir} /\ home' = [home EXCEPT ![p] = Mine]
     \/ home[p] # Missing /\ home' = Without(Tree(p))
     \/ home[p] = Missing /\ \E l \in {Theirs, Broken} : home' = [home EXCEPT ![p] = l]
     \/ home[p] = Theirs /\ home' = [home EXCEPT ![p] = Broken]
  /\ op' = IF op # <<>> /\ p \in Tree(op.path) THEN [op EXCEPT !.late = @ \cup Tree(p)] ELSE op
  /\ UNCHANGED <<pc, todo, dry, force, image>>

UpdateImage(p) ==
  /\ pc = "idle" /\ image[p] < MaxImage
  /\ image' = [image EXCEPT ![p] = @ + 1]
  /\ clean' = FALSE
  /\ UNCHANGED <<pc, runVars, home, edits>>

-----------------------------------------------------------------------------

\* An account just made, with or without a copy of skel.
Init ==
  /\ pc = "idle" /\ op = <<>> /\ todo = <<>> /\ dry = FALSE /\ force = FALSE
  /\ image = [p \in SkelFiles |-> 0]
  /\ home \in {[p \in Paths |-> Missing],
               [p \in Paths |-> CASE p \in SkelDirs -> Dir [] p \in SkelFiles -> 0
                                  [] OTHER -> Missing]}
  /\ edits = 0 /\ clean = FALSE

User == \E p \in Paths : Edit(p)

Next ==
  \/ \E d, f \in BOOLEAN : Start(d, f)
  \/ Handle \/ RemoveTree \/ Put \/ Finish \/ Killed
  \/ User
  \/ \E p \in SkelFiles : UpdateImage(p)

Spec == Init /\ [][Next]_vars

-----------------------------------------------------------------------------
(* Properties *)

AtOrBelowCopy(p) == \E c \in CopyPaths : p \in Tree(c)

\* What the user wrote below a path between its comparison and its removal.
Late(p) == op # <<>> /\ p \in op.late

\* "modified locally -> kept untouched" (skel-link:13): a run without --force
\* takes away nothing that had the user's contents when it was compared, and one
\* with it only what skel has a file for, or what lies in a tree of COPY_PATHS.
MineKept ==
  [][~User =>
       \A p \in Paths :
         (home[p] = Mine /\ ~Late(p) /\ (~force \/ (p \in Own /\ ~AtOrBelowCopy(p))))
           => home'[p] = Mine]_vars

\* "--dry-run print what would happen, change nothing" (skel-link:21).
DryChangesNothing == [][pc # "idle" /\ dry /\ ~User => UNCHANGED home]_vars

Followed(p) == \E q \in Above(p) \cup {p} : home[q] = Ours

\* After a run that went through, each file outside COPY_PATHS follows the
\* image, unless it or a directory above it is the user's, a link of the
\* user's, or a copy of another version ("Per entry", skel-link:10-13).
AllFollow ==
  (clean /\ pc = "idle") =>
    \A p \in SkelFiles :
      \/ Followed(p) \/ AtOrBelowCopy(p)
      \/ \E q \in Above(p) \cup {p} : home[q] \in {Theirs, Mine}
      \/ home[p] \in Versions \ {image[p]}

\* A run leaves each entry the user's or makes it follow the image, and a dry one does
\* neither.
KeptOrFollowed == MineKept /\ DryChangesNothing /\ []AllFollow

=============================================================================
