------------------------------ MODULE LineText ------------------------------
(***************************************************************************)
(* What the user of the command line is promised while editing a line: a   *)
(* text with a caret in it.  Every key changes the text at the caret, or   *)
(* the caret, and what is entered is the text.                             *)
(***************************************************************************)
EXTENDS Sequences, Integers

CONSTANTS
  Size,     \* most characters in a line
  Burst,    \* most characters one key can put into it
  Recalled, \* the lines the history may hold
  Completed \* what completion of a command may add

VARIABLES
  text,    \* the line
  caret,   \* characters to the left of the caret
  open     \* the line is being edited

vars == <<text, caret, open>>

Init == text = <<>> /\ caret = 0 /\ open = TRUE

Before == SubSeq(text, 1, caret)
From(i) == SubSeq(text, i, Len(text))

\* n characters appear at the caret; the first `over` characters after it go.
Put(n, over) ==
  /\ caret' = caret + n /\ Len(text') >= caret'
  /\ text' = Before \o SubSeq(text', caret + 1, caret + n) \o From(caret + 1 + over)
  /\ Len(text') <= Size

Insert    == \E n \in 1 .. Burst : Put(n, 0)
Overwrite == \E n \in 1 .. Burst : Put(n, n)

MoveCaret ==
  /\ caret' \in {caret - 1, caret + 1, 0, Len(text)} \cap 0 .. Len(text)
  /\ UNCHANGED text

DeleteRight ==
  /\ text' = Before \o From(caret + 2)
  /\ UNCHANGED caret

DeleteLeft ==
  /\ caret > 0
  /\ text' = SubSeq(text, 1, caret - 1) \o From(caret + 1)
  /\ caret' = caret - 1

\* To the end of the line,
Kill == text' = Before /\ UNCHANGED caret

\* or the whole of it, for nothing or for a line of the history.
Replace ==
  /\ text' \in Recalled \cup {<<>>}
  /\ caret' = Len(text')

\* The line is continued, as a command.
Complete ==
  /\ caret = Len(text)
  /\ \E s \in Completed : text' = text \o s
  /\ Len(text') <= Size
  /\ caret' = Len(text')

Edit ==
  /\ open
  /\ \/ Insert \/ Overwrite \/ MoveCaret \/ DeleteRight \/ DeleteLeft
     \/ Kill \/ Replace \/ Complete
  /\ UNCHANGED open

\* The text is handed over, and a new line begun.
Enter == open /\ open' = FALSE /\ UNCHANGED <<text, caret>>
Begin == open' = TRUE /\ text' = <<>> /\ caret' = 0

Next == Edit \/ Enter \/ Begin

Spec == Init /\ [][Next]_vars
=============================================================================
