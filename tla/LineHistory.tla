---------------------------- MODULE LineHistory ----------------------------
(***************************************************************************)
(* The history of the command line (common/cli_readline.c): a ring of      *)
(* HIST_MAX lines with the place of the next line, the highest index in    *)
(* use, and the place the user's arrow keys have reached.                  *)
(***************************************************************************)
EXTENDS Integers

CONSTANTS
  HistMax,  \* HIST_MAX
  Lines,    \* lines that are remembered
  NoLine    \* the empty line

ASSUME HistMaxAssumption == HistMax \in Nat \ {0}
ASSUME NoLineAssumption  == NoLine \notin Lines

VARIABLES
  max,   \* hist_max
  add,   \* hist_add_idx
  cur,   \* hist_cur
  list,  \* hist_list
  line   \* what hist_prev or hist_next has put into the buffer

vars == <<max, add, cur, list, line>>

Slot == 0 .. HistMax - 1

\* hist_init
Init ==
  /\ max = 0 /\ add = 0 /\ cur = -1
  /\ list = [i \in Slot |-> NoLine]
  /\ line = NoLine

\* The place after i.
After(i) == IF i + 1 >= HistMax THEN 0 ELSE i + 1

\* Return on a line that is remembered: cread_add_to_hist, then hist_cur.
Enter(l) ==
  /\ list' = [list EXCEPT ![add] = l]
  /\ add' = After(add)
  /\ max' = IF add' > max THEN add' ELSE max
  /\ cur' = add'
  /\ line' = NoLine

\* Return on an empty line or one that begins with CREAD_HIST_CHAR.
EnterOther ==
  /\ cur' = add
  /\ line' = NoLine
  /\ UNCHANGED <<max, add, list>>

\* ^C discards the input; hist_cur stays where it is.
Break == line' = NoLine /\ UNCHANGED <<max, add, cur, list>>

\* The place before i among those in use; the first form takes the ring for full.
BeforeFull(i) == IF i - 1 < 0 THEN HistMax - 1 ELSE i - 1
Before(i)     == IF i - 1 < 0 THEN max ELSE i - 1

\* hist_prev; a walk that would reach the place of the next line only beeps.
Up ==
  /\ cur >= 0
  /\ Before(cur) # add
  /\ cur' = Before(cur)
  /\ line' = list[cur']
  /\ UNCHANGED <<max, add, list>>

\* hist_next
Down ==
  /\ cur >= 0
  /\ cur # add
  /\ cur' = IF cur + 1 > max THEN 0 ELSE cur + 1
  /\ line' = IF cur' = add THEN NoLine ELSE list[cur']
  /\ UNCHANGED <<max, add, list>>

Next == (\E l \in Lines : Enter(l)) \/ EnterOther \/ Break \/ Up \/ Down

Spec == Init /\ [][Next]_vars
-----------------------------------------------------------------------------
(* Properties.                                                             *)

\* Every index stays within the part of the ring in use, which begins to grow
\* at its first place and then is all of it.
TypeOK ==
  /\ max \in Slot
  /\ add \in 0 .. max
  /\ add = max \/ max = HistMax - 1
  /\ cur \in -1 .. max
  /\ cur = -1 => max = 0 /\ add = 0
  /\ list \in [Slot -> Lines \cup {NoLine}]
  /\ line \in Lines \cup {NoLine}

\* Going d places back from i, round the part in use.
Behind(i, d) == IF d <= i THEN i - d ELSE i - d + max + 1

\* The ring keeps the promise of RecentLines, for all its places but one: the
\* k-th newest line is k places behind the next one to be written.
Promise ==
  INSTANCE RecentLines WITH
    Keep   <- HistMax - 1,
    kept   <- max,
    recent <- [k \in 1 .. max |-> list[Behind(add, k)]],
    back   <- IF cur < 0 THEN 0 ELSE Behind(add, cur)
Refines == Promise!Spec
=============================================================================
