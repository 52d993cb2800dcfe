------------------------------ MODULE TootText ------------------------------
(***************************************************************************)
(* The text of a toot (composeToot in internal/mastodon/sync.go of         *)
(* blog-klimlive) by the lengths, in bytes, of what it is put together     *)
(* from: the title, as much of the summary as fits, and the post's URL.    *)
(***************************************************************************)
EXTENDS Integers

CONSTANTS
  Limit,         \* the longest text (500)
  MaxTitle,      \* bounds: the longest title, URL and summary
  MaxURL,
  MaxSummary,
  NotYet         \* the text before it is composed

TootTextAssumption ==
  Limit \in Nat /\ MaxTitle \in Nat /\ MaxURL \in Nat /\ MaxSummary \in Nat

VARIABLES
  title, url, summary,   \* lengths
  text                   \* [kept: bytes of the summary, dots: cut short, len]

vars == <<title, url, summary, text>>

Bare == [kept |-> 0, dots |-> FALSE, len |-> title + 2 + url]
Whole == [kept |-> summary, dots |-> FALSE, len |-> title + 2 + summary + 2 + url]
Cut(n) == [kept |-> n, dots |-> TRUE, len |-> title + 2 + n + 3 + 2 + url]

\* Mutant of Room: the newlines are forgotten.
RoomTight == Limit - title - url

Room == Limit - title - url - 6

Compose ==
  LET full == IF summary > 0 THEN Whole ELSE Bare IN
    /\ text = NotYet
    /\ text' = CASE full.len <= Limit -> full
                 [] full.len > Limit /\ Room > 3 -> Cut(Room)
                 [] OTHER -> Bare
    /\ UNCHANGED <<title, url, summary>>

Init ==
  /\ title \in 1..MaxTitle /\ url \in 1..MaxURL /\ summary \in 0..MaxSummary
  /\ text = NotYet

Next == Compose

Spec == Init /\ [][Next]_vars

-----------------------------------------------------------------------------
(* Properties *)

Composed == text # NotYet

\* The summary is never sliced beyond its end, which would end the program
\* (summary[:maxSummary]), a cut one loses something, and it is dropped only
\* if not even four bytes of it would fit.
CutsInside ==
  Composed =>
    /\ text.kept <= summary
    /\ text.dots => text.kept \in 4..summary - 1
    /\ (~text.dots /\ text.kept < summary) => Cut(4).len > Limit

=============================================================================
