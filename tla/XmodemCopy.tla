----------------------------- MODULE XmodemCopy -----------------------------
(***************************************************************************)
(* What the caller of the Xmodem receiver is promised about its buffer:    *)
(* piece by piece it becomes a longer beginning of the file, never more    *)
(* than has room, and nothing is written once the call has returned.  The  *)
(* bytes are the file's as long as no damage has got past the check.       *)
(***************************************************************************)
EXTENDS Integers

CONSTANTS
  Length,   \* bytes of the file
  Capacity  \* bytes the buffer has room for

VARIABLES
  count,  \* bytes in the buffer
  dest,   \* dest[i] is the byte of the file that stands at place i, 0 for another
  ret,    \* what the call has returned, "none" while it runs
  passed  \* how often damage has got past the check

vars == <<count, dest, ret, passed>>

Init == count = 0 /\ dest = [i \in 1 .. 0 |-> 0] /\ ret = "none" /\ passed = 0

Extend ==
  /\ ret = "none"
  /\ count' > count /\ count' <= Length /\ count' <= Capacity
  /\ \E own \in BOOLEAN :
       /\ own \/ passed > 0
       /\ dest' = [i \in 1 .. count' |->
                     IF i <= count THEN dest[i] ELSE IF own THEN i ELSE 0]
  /\ UNCHANGED <<ret, passed>>

Finish(r) == ret = "none" /\ ret' = r /\ UNCHANGED <<count, dest, passed>>

Pass == passed' = passed + 1 /\ UNCHANGED <<count, dest, ret>>

Next == Extend \/ Pass \/ \E r \in {"len", "cancelled", "silence", "duplicates"} : Finish(r)

Spec == Init /\ [][Next]_vars
=============================================================================
