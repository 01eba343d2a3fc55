------------------------------ MODULE LineEdit ------------------------------
(***************************************************************************)
(* The line editor of the command line (common/cli_readline.c,             *)
(* cread_line): the buffer with its two counts, the keys that edit it, and *)
(* the automaton that collects the escape sequences of a terminal's keys.  *)
(* Bytes left in the buffer by earlier lines are kept.                     *)
(***************************************************************************)
EXTENDS Integers, Sequences

CONSTANTS
  Size,      \* CONFIG_SYS_CBSIZE, the length cread_line is called with
  Margin,    \* the 2 of CONFIG_SYS_CBSIZE - 2 in cmd_auto_complete
  Chars,     \* printable characters and ESC
  Recalled,  \* the lines the history may hold
  Completed  \* what completion of a command may add

ASSUME SizeAssumption == Size \in Nat \ {0} /\ Margin \in Nat

VARIABLES
  buf,      \* console_buffer
  num,      \* characters before the cursor
  eol,      \* eol_num: characters in the line
  insert,   \* insert or overstrike
  esc,      \* esc_save, esc_len characters of it
  open      \* cread_line is reading, or has returned the line

line == <<buf, num, eol>>
vars == <<line, insert, esc, open>>

Nul  == "\\0"
Ctrl == "^"     \* any control character that has become part of the text
Pos  == 0 .. Size
Text == Chars \cup {Ctrl}

\* A line of the history has been a line of the editor; a terminator is no character.
ASSUME CharsAssumption == "ESC" \in Chars /\ Nul \notin Chars
ASSUME LinesAssumption ==
  /\ \A s \in Recalled : s \in Seq(Text) /\ Len(s) <= Size
  /\ Completed \subseteq Seq(Chars)

\* The keys that have a meaning of their own.
Functions == {"home", "end", "left", "right", "delete", "rubout", "kill", "erase",
              "toggle", "up", "down", "tab"}

Init ==
  /\ buf = [i \in Pos |-> Nul]
  /\ num = 0 /\ eol = 0 /\ insert = TRUE /\ esc = <<>>
  /\ open = TRUE

\* memmove(&b[to], &b[from], n)
Move(b, to, from, n) ==
  [i \in Pos |-> IF i \in to .. to + n - 1 THEN b[from + i - to] ELSE b[i]]

\* No room for one more character, and a test that is one too generous.
FullLate(e) == e > Size
Full(e)     == e > Size - 1

\* cread_add_char, on a line given as a record.
AddChar(l, c) ==
  LET grows == insert \/ l.num = l.eol
      moved == IF insert THEN Move(l.buf, l.num + 1, l.num, l.eol - l.num) ELSE l.buf
  IN IF grows /\ Full(l.eol) THEN l
     ELSE [buf |-> [moved EXCEPT ![l.num] = c],
           num |-> l.num + 1,
           eol |-> IF grows THEN l.eol + 1 ELSE l.eol]

\* cread_add_str: the line after the first n characters of s.
Added(s) ==
  LET l[n \in 0 .. Len(s)] ==
        IF n = 0 THEN [buf |-> buf, num |-> num, eol |-> eol] ELSE AddChar(l[n - 1], s[n])
  IN l
AddStr(s) ==
  LET l == Added(s)[Len(s)]
  IN buf' = l.buf /\ num' = l.num /\ eol' = l.eol
-----------------------------------------------------------------------------
(* What the keys do.                                                       *)

Home  == num' = 0 /\ UNCHANGED <<buf, eol>>
End   == num' = eol /\ UNCHANGED <<buf, eol>>
Left  == num' = num - 1 /\ UNCHANGED <<buf, eol>>
Right == num' = num + 1 /\ UNCHANGED <<buf, eol>>

\* ^D
Delete ==
  /\ buf' = Move(buf, num, num + 1, eol - num - 1)
  /\ eol' = eol - 1
  /\ UNCHANGED num

\* Backspace: the characters that follow the one removed, and one too few.
TailShort == eol - num - 1
Following == eol - num
Rubout ==
  /\ buf' = Move(buf, num - 1, num, Following)
  /\ num' = num - 1
  /\ eol' = eol - 1

\* ^K, ^X and ^U
Kill  == eol' = num /\ UNCHANGED <<buf, num>>
Erase == num' = 0 /\ eol' = 0 /\ UNCHANGED buf

\* A line of the history, or the empty one, is copied over the line with its
\* terminator.
Recall ==
  \E s \in Recalled \cup {<<>>} :
    /\ buf' = [i \in Pos |-> IF i < Len(s) THEN s[i + 1] ELSE IF i = Len(s) THEN Nul ELSE buf[i]]
    /\ num' = Len(s) /\ eol' = Len(s)

\* Tab terminates the line; at its end a completion that fits is added.
Fits(s) == num + Len(s) < Size - Margin
Tab ==
  \E s \in {t \in Completed : Fits(t)} \cup {<<>>} :
    LET n == num + Len(s)
    IN /\ buf' = [i \in Pos |-> IF i \in num .. n - 1 THEN s[i - num + 1]
                                ELSE IF i \in {num, n} THEN Nul ELSE buf[i]]
       /\ num' = n /\ eol' = n

Applies(f) ==
  /\ f \in {"left", "rubout"} => num > 0
  /\ f \in {"right", "delete", "kill"} => num < eol
  /\ f = "tab" => num = eol

Effect(f) ==
  \/ f = "home" /\ Home
  \/ f = "end" /\ End
  \/ f = "left" /\ Left
  \/ f = "right" /\ Right
  \/ f = "delete" /\ Delete
  \/ f = "rubout" /\ Rubout
  \/ f = "kill" /\ Kill
  \/ f = "erase" /\ Erase
  \/ f \in {"up", "down"} /\ (Recall \/ UNCHANGED line)
  \/ f = "tab" /\ Tab
  \/ f = "toggle" /\ UNCHANGED line

\* A function key; where it does not apply it beeps or does nothing.
Do(f) ==
  /\ insert' = IF f = "toggle" THEN ~insert ELSE insert
  /\ IF Applies(f) THEN Effect(f) ELSE UNCHANGED line
-----------------------------------------------------------------------------
(* The escape sequences.                                                   *)

Arrow == [D |-> "left", C |-> "right", H |-> "home", F |-> "end", A |-> "up", B |-> "down"]
Digit == {"1", "3", "4", "7", "8"}
Tilde == [d \in Digit |-> IF d = "3" THEN "delete" ELSE IF d \in {"1", "7"} THEN "home" ELSE "end"]

Saved(c) ==
  \/ Len(esc) = 1 /\ c \in {"[", "O"}
  \/ Len(esc) = 2 /\ c \in Digit /\ esc[2] = "["
Converted(c) ==
  \/ Len(esc) = 2 /\ c \in DOMAIN Arrow
  \/ Len(esc) = 3 /\ c = "~"
Meaning(c) == IF Len(esc) = 2 THEN Arrow[c] ELSE Tilde[esc[3]]

AsText(c) == IF c \in Functions THEN Ctrl ELSE c

\* A character within an escape sequence.  One that does not belong there turns
\* all of them into text.
EscSave(c) ==
  /\ esc # <<>> /\ Saved(c)
  /\ esc' = Append(esc, c)
  /\ UNCHANGED <<line, insert>>
EscDone(c) ==
  /\ esc # <<>> /\ Converted(c)
  /\ esc' = <<>>
  /\ Do(Meaning(c))
EscReject(c) ==
  /\ esc # <<>> /\ ~Saved(c) /\ ~Converted(c)
  /\ AddStr(Append(esc, AsText(c)))
  /\ esc' = <<>>
  /\ UNCHANGED insert

Escape(c)  == EscSave(c) \/ EscDone(c) \/ EscReject(c)

EscBegin == esc = <<>> /\ esc' = <<"ESC">> /\ UNCHANGED <<line, insert>>
Type(c) ==
  /\ esc = <<>>
  /\ AddStr(<<c>>)
  /\ UNCHANGED <<insert, esc>>
Function(f) == esc = <<>> /\ Do(f) /\ UNCHANGED esc

Key ==
  /\ open
  /\ \/ EscBegin
     \/ \E c \in Chars \ {"ESC"} : Type(c)
     \/ \E f \in Functions : Function(f)
     \/ \E c \in Chars \cup Functions : Escape(c)
  /\ UNCHANGED open

\* Return terminates the line, in the middle of an escape sequence too; the first
\* place is one that leaves out what follows the cursor.
TermNum == num
TermEol == eol
Return ==
  /\ open /\ open' = FALSE
  /\ buf' = [buf EXCEPT ![TermEol] = Nul]
  /\ UNCHANGED <<num, eol, insert, esc>>

\* The next call of cread_line, after a line was returned or given up with ^C: an
\* empty buffer, and everything anew.
Begin ==
  /\ ~open \/ esc = <<>>
  /\ buf' = [buf EXCEPT ![0] = Nul]
  /\ num' = 0 /\ eol' = 0 /\ insert' = TRUE /\ esc' = <<>> /\ open' = TRUE

Next == Key \/ Return \/ Begin

Spec == Init /\ [][Next]_vars
-----------------------------------------------------------------------------
(* Properties.                                                             *)

\* The counts stay in order and within the buffer, so that its last place is
\* left for the terminator.  A line may so have Size characters and fill
\* console_buffer[CONFIG_SYS_CBSIZE + 1] (:18).  That is one more than the
\* maximum cli.h gives (:70-71, CONFIG_SYS_CBSIZE with the terminator) and than
\* cli_simple_run_command takes (cli_simple.c:185).
TypeOK ==
  /\ buf \in [Pos -> Text \cup {Nul}]
  /\ eol \in 0 .. Size
  /\ num \in 0 .. eol
  /\ insert \in BOOLEAN /\ open \in BOOLEAN
  /\ Len(esc) <= 3

\* What the command parser gets, a string that ends at its first terminator, is
\* all of the line and nothing left over from an earlier one.
StringIsLine ==
  ~open => buf[eol] = Nul /\ \A i \in 0 .. eol - 1 : buf[i] # Nul

\* The editor keeps the promise of LineText.
Shown == [i \in 1 .. eol |-> buf[i - 1]]
Promise ==
  INSTANCE LineText WITH Burst <- 4, text <- Shown, caret <- num
Refines == Promise!Spec
=============================================================================
