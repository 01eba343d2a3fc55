------------------------------ MODULE DmaCopy ------------------------------
(***************************************************************************)
(* What a client of the GDMA driver is promised, channel by channel: a     *)
(* transfer is accepted only on an idle channel, its words are moved in    *)
(* full blocks and one shorter last block, and the channel becomes idle    *)
(* again either because every word was moved (the finished flag goes up)   *)
(* or because the bus reported an error (the flag stays as it was).        *)
(***************************************************************************)
EXTENDS Integers

CONSTANTS
  Chan,      \* the channels
  BlockMax,  \* most words in one block
  Lengths    \* transfer lengths a client may ask for

VARIABLES
  busy,      \* the channel holds a transfer
  want,      \* words to be moved
  moved,     \* words moved so far
  finished   \* the flag a client polls

vars == <<busy, want, moved, finished>>

Init ==
  /\ busy     = [c \in Chan |-> FALSE]
  /\ want     = [c \in Chan |-> 0]
  /\ moved    = [c \in Chan |-> 0]
  /\ finished = [c \in Chan |-> FALSE]

\* What a length makes the channel move: zero is not refused and stands for a
\* whole block.
Due(n) == IF n = 0 THEN BlockMax ELSE n

Submit(c) ==
  /\ ~busy[c]
  /\ busy' = [busy EXCEPT ![c] = TRUE]
  /\ \E n \in Lengths : want' = [want EXCEPT ![c] = Due(n)]
  /\ moved' = [moved EXCEPT ![c] = 0]
  /\ UNCHANGED finished

\* One block: BlockMax words, or all that is left when that is less.
Move(c) ==
  /\ busy[c]
  /\ moved[c] < want[c]
  /\ moved' = [moved EXCEPT ![c] =
                 IF want[c] - @ > BlockMax THEN @ + BlockMax ELSE want[c]]
  /\ UNCHANGED <<busy, want, finished>>

Complete(c) ==
  /\ busy[c]
  /\ moved[c] = want[c]
  /\ busy' = [busy EXCEPT ![c] = FALSE]
  /\ finished' = [finished EXCEPT ![c] = TRUE]
  /\ UNCHANGED <<want, moved>>

Fail(c) ==
  /\ busy[c]
  /\ busy' = [busy EXCEPT ![c] = FALSE]
  /\ UNCHANGED <<want, moved, finished>>

\* A client lowers the flag before it asks again.
Acknowledge(c) ==
  /\ finished[c]
  /\ finished' = [finished EXCEPT ![c] = FALSE]
  /\ UNCHANGED <<busy, want, moved>>

Next ==
  \E c \in Chan :
    Submit(c) \/ Move(c) \/ Complete(c) \/ Fail(c) \/ Acknowledge(c)

Spec == Init /\ [][Next]_vars
=============================================================================
