----------------------------- MODULE AtomicStore -----------------------------
(***************************************************************************)
(* What the programs that keep their state in one JSON file promise about  *)
(* it: memory changes only the way the program means it to, the file is    *)
(* only ever replaced by the whole of what memory holds, and a start takes *)
(* up what the file holds or, when it cannot be read, begins afresh.       *)
(* Store (flappy-race) and Conversations (openwebui-openhands-proxy) are   *)
(* shown to implement this module.                                         *)
(***************************************************************************)

CONSTANTS
  Fresh,         \* the state of a program that never ran
  Grows(_, _)    \* Grows(a, b): an operation may take a to b

VARIABLES
  mem,           \* what the program works with
  disk           \* what a start would read

Init == mem = Fresh /\ disk = Fresh

Change  == Grows(mem, mem') /\ UNCHANGED disk
Save    == disk' = mem /\ UNCHANGED mem
Restart == mem' \in {disk, Fresh} /\ UNCHANGED disk

Next == Change \/ Save \/ Restart

Spec == Init /\ [][Next]_<<mem, disk>>
=============================================================================
