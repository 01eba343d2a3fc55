---------------------------- MODULE RecentLines ----------------------------
(***************************************************************************)
(* What the user of the command line is promised by its history: the last  *)
(* lines entered, at most Keep of them, can be walked through from the     *)
(* newest to the oldest and back to the empty line.                        *)
(***************************************************************************)
EXTENDS Integers

CONSTANTS
  Lines,   \* the lines that can be remembered
  NoLine,  \* the empty line
  Keep     \* how many are remembered

VARIABLES
  kept,    \* how many there are
  recent,  \* recent[k] is the k-th newest
  back,    \* how far back the user has walked
  line     \* what the walk has put on the line being edited

vars == <<kept, recent, back, line>>

Init ==
  /\ kept = 0 /\ recent = [k \in 1 .. 0 |-> NoLine]
  /\ back = 0 /\ line = NoLine

\* A line to be remembered is entered; the oldest is forgotten for it.
Enter(l) ==
  /\ kept' = IF kept < Keep THEN kept + 1 ELSE kept
  /\ recent' = [k \in 1 .. kept' |-> IF k = 1 THEN l ELSE recent[k - 1]]
  /\ back' = 0 /\ line' = NoLine

\* A line that is not worth it is entered.
EnterOther ==
  /\ back' = 0 /\ line' = NoLine
  /\ UNCHANGED <<kept, recent>>

\* The line is abandoned; the place in the history is not.
Abandon == line' = NoLine /\ UNCHANGED <<kept, recent, back>>

Up ==
  /\ back < kept
  /\ back' = back + 1
  /\ line' = recent[back']
  /\ UNCHANGED <<kept, recent>>

Down ==
  /\ back > 0
  /\ back' = back - 1
  /\ line' = IF back' = 0 THEN NoLine ELSE recent[back']
  /\ UNCHANGED <<kept, recent>>

Next == (\E l \in Lines : Enter(l)) \/ EnterOther \/ Abandon \/ Up \/ Down

Spec == Init /\ [][Next]_vars
=============================================================================
