----------------------------- MODULE CommandLoop ----------------------------
(***************************************************************************)
(* The command loop over the line history: cli_simple_loop with the        *)
(* parser and the command table (common/cli_simple.c, common/command.c).   *)
(* A line is a sequence of characters.                                     *)
(***************************************************************************)
EXTENDS LineHistory, SequencesExt, FiniteSetsExt

CONSTANTS
  Chars,      \* the characters of a line
  Others,     \* lines that begin with CREAD_HIST_CHAR; they are not remembered
  CbSize,     \* CONFIG_SYS_CBSIZE
  MaxArgs,    \* CONFIG_SYS_MAXARGS
  Table,      \* the command table: what each name says of its command
  Meanings    \* lists of commands that are tried for Understood

ASSUME OthersAssumption == Others \cap Lines = {} /\ NoLine \notin Others
ASSUME TextAssumption   == Lines \cup Others \subseteq Seq(Chars) /\ "$" \in Chars
ASSUME SizesAssumption  == CbSize \in Nat \ {0} /\ MaxArgs \in Nat \ {0}
ASSUME TableAssumption  == \A n \in DOMAIN Table : Table[n].maxargs \in Nat

VARIABLES
  pc,          \* "prompt", or where cli_simple_run_command stands
  lastcommand,
  repeat,      \* CMD_FLAG_REPEAT
  rc,          \* of cli_simple_loop
  str,         \* what is still to be done of the line
  before,      \* the character before str
  argv,
  result,      \* rc of cli_simple_run_command
  repeatable,
  spoilt       \* history: a command of the line failed or is not repeatable

loop    == <<pc, lastcommand, repeat, rc, str, before, argv, result, repeatable, spoilt>>
allVars == <<vars, loop>>
-----------------------------------------------------------------------------
(* The parser.                                                             *)

Blanks == {" "}

Preceding(s, i, b) == IF i = 1 THEN b ELSE s[i - 1]

\* Where a line is cut: not at its first character, not within quotes, and not
\* after a backslash; the other form does not look for one.
InQuotes(s, i, b) ==
  Cardinality({j \in 1 .. i : s[j] = "'" /\ Preceding(s, j, b) # "\\"}) % 2 = 1
CutAnywhere(s, b) == {i \in 2 .. Len(s) : s[i] = ";" /\ ~InQuotes(s, i, b)}
Cut(s, b)         == {i \in 2 .. Len(s) : s[i] = ";" /\ ~InQuotes(s, i, b) /\ s[i - 1] # "\\"}

Token(s, b) == IF Cut(s, b) = {} THEN s ELSE SubSeq(s, 1, Min(Cut(s, b)) - 1)
Rest(s, b)  == IF Cut(s, b) = {} THEN <<>> ELSE SubSeq(s, Min(Cut(s, b)) + 1, Len(s))

\* cli_simple_process_macros, one character on: a backslash makes of the next one
\* what it is.  No variable has a value.
Start == [state |-> "text", prev |-> "NUL", escape |-> FALSE, out |-> <<>>]
Expand(m, c) ==
  LET plain       == m.escape \/ m.prev = "\\"
      quote       == c = "'" /\ ~plain
      to(st, out) == [state |-> st, prev |-> c, escape |-> FALSE, out |-> m.out \o out]
  IN CASE c = "\\" /\ ~plain /\ m.state # "quoted" -> [m EXCEPT !.escape = TRUE]
       [] OTHER ->
            CASE m.state = "text" /\ quote -> to("quoted", <<>>)
              [] m.state = "text" /\ c = "$" /\ ~plain -> to("dollar", <<>>)
              [] m.state = "text" -> to("text", <<c>>)
              [] m.state = "dollar" /\ c \in {"(", "{"} -> to("name", <<>>)
              [] m.state = "dollar" -> to("text", <<"$", c>>)
              [] m.state = "name" -> to(IF c \in {")", "}"} THEN "text" ELSE "name", <<>>)
              [] m.state = "quoted" /\ quote -> to("text", <<>>)
              [] m.state = "quoted" -> to("quoted", <<c>>)
Macros(s) ==
  LET m[i \in 0 .. Len(s)] == IF i = 0 THEN Start ELSE Expand(m[i - 1], s[i])
  IN m[Len(s)].out

\* cli_simple_parse_line with room for n words.  What follows the last is left out.
Begins(s)    == {i \in 1 .. Len(s) : s[i] \notin Blanks /\ (i = 1 \/ s[i - 1] \in Blanks)}
WordAt(s, i) == SubSeq(s, i, Max({j \in i .. Len(s) : \A k \in i .. j : s[k] \notin Blanks}))
Words(s, n) ==
  LET count  == Cardinality(Begins(s))
      nth(k) == CHOOSE i \in Begins(s) : Cardinality({j \in Begins(s) : j < i}) = k - 1
  IN [k \in 1 .. IF count < n THEN count ELSE n |-> WordAt(s, nth(k))]

Argv(token) == Words(Macros(token), MaxArgs)

\* find_cmd_tbl: the name up to the first dot in full, or the only one it begins.
Find(word) ==
  LET dots == {i \in 1 .. Len(word) : word[i] = "."}
      name == IF dots = {} THEN word ELSE SubSeq(word, 1, Min(dots) - 1)
      begun == {n \in DOMAIN Table : Len(n) >= Len(name) /\ SubSeq(n, 1, Len(name)) = name}
  IN IF name \in begun THEN {name} ELSE IF Cardinality(begun) = 1 THEN begun ELSE {}
-----------------------------------------------------------------------------
(* cli_simple_loop                                                         *)

LoopInit ==
  /\ Init
  /\ pc = "prompt" /\ lastcommand = NoLine /\ repeat = FALSE /\ rc = 1
  /\ str = <<>> /\ before = "NUL" /\ argv = <<>> /\ result = 0 /\ repeatable = 1
  /\ spoilt = FALSE

\* What is forgotten: all that may not be repeated, and a form that keeps a command
\* that did not fail.
ForgetFailed(r) == r < 0
Forget(r)       == r <= 0
Kept(r, l)      == IF Forget(r) THEN NoLine ELSE l

\* A line that fills the buffer has no room for the terminator; the other form
\* counts without it.
TooLongLate(l) == Len(l) > CbSize
TooLong(l)     == Len(l) >= CbSize

\* cli_simple_run_command begins.  The test of the first character for a quote
\* reads the byte before the buffer, which may be any.
Run(l) ==
  IF l = NoLine \/ TooLong(l)
  THEN /\ rc' = -1 /\ lastcommand' = Kept(-1, l)
       /\ UNCHANGED <<pc, str, before, argv, result, repeatable>>
  ELSE /\ pc' = "scan" /\ str' = l /\ before' \in {"\\", "NUL"}
       /\ result' = 0 /\ repeatable' = 1
       /\ lastcommand' = l
       /\ UNCHANGED <<rc, argv>>

Typed(l) ==
  /\ pc = "prompt"
  /\ IF l \in Lines THEN Enter(l) ELSE EnterOther
  /\ repeat' = FALSE /\ spoilt' = FALSE
  /\ Run(l)

\* Return on an empty line.
Again ==
  /\ pc = "prompt"
  /\ EnterOther
  /\ repeat' = TRUE /\ UNCHANGED spoilt
  /\ Run(lastcommand)

\* ^C: rc is that of the line before.
Interrupted ==
  /\ pc = "prompt"
  /\ Break
  /\ lastcommand' = Kept(rc, lastcommand)
  /\ repeat' = FALSE
  /\ UNCHANGED <<pc, rc, str, before, argv, result, repeatable, spoilt>>

Walk == pc = "prompt" /\ (Up \/ Down) /\ UNCHANGED loop

\* The next command of the line, and its words.
Scan ==
  /\ pc = "scan" /\ str # <<>>
  /\ argv' = Argv(Token(str, before))
  /\ str' = Rest(str, before) /\ before' = "NUL"
  /\ IF argv' = <<>>
     THEN result' = -1 /\ spoilt' = TRUE /\ UNCHANGED pc
     ELSE pc' = "process" /\ UNCHANGED <<result, spoilt>>
  /\ UNCHANGED <<vars, lastcommand, repeat, rc, repeatable>>

\* cmd_process: the command is not found, is given too many words, or is called
\* and succeeds or fails.
Process ==
  /\ pc = "process"
  /\ pc' = "scan"
  /\ \/ /\ \A n \in Find(argv[1]) : Len(argv) > Table[n].maxargs
        /\ result' = -1 /\ spoilt' = TRUE
        /\ UNCHANGED repeatable
     \/ \E n \in Find(argv[1]), failed \in BOOLEAN :
          /\ Len(argv) <= Table[n].maxargs
          /\ repeatable' = IF Table[n].rep THEN repeatable ELSE 0
          /\ result' = IF failed THEN -1 ELSE result
          /\ spoilt' = (spoilt \/ failed \/ ~Table[n].rep)
  /\ UNCHANGED <<vars, lastcommand, repeat, rc, str, before, argv>>

Done ==
  /\ pc = "scan" /\ str = <<>>
  /\ rc' = IF result # 0 THEN result ELSE repeatable
  /\ lastcommand' = Kept(rc', lastcommand)
  /\ pc' = "prompt"
  /\ UNCHANGED <<vars, repeat, str, before, argv, result, repeatable, spoilt>>

LoopNext ==
  \/ \E l \in Lines \cup Others : Typed(l)
  \/ Again \/ Interrupted \/ Walk
  \/ Scan \/ Process \/ Done

LoopSpec == LoopInit /\ [][LoopNext]_allVars
-----------------------------------------------------------------------------
(* Properties.                                                             *)

\* The history's indices stay in its ring, what is cut up fits the parser's buffer, and
\* a command is called with a word at least.
LoopTypeOK ==
  /\ TypeOK
  /\ pc \in {"prompt", "scan", "process"}
  /\ lastcommand \in Lines \cup Others \cup {NoLine}
  /\ repeat \in BOOLEAN /\ spoilt \in BOOLEAN
  /\ rc \in -1 .. 1 /\ result \in -1 .. 0 /\ repeatable \in 0 .. 1
  /\ Len(str) < CbSize
  /\ Len(argv) <= MaxArgs /\ (pc = "process" => argv # <<>>)

\* An empty line repeats what the newest entry of the history shows, and only if
\* every command of it is repeatable and none has failed since it was typed,
\* whatever was broken off or refused in between.
RepeatsNewest ==
  [][pc = "prompt" /\ repeat' /\ pc' = "scan" =>
       ~spoilt /\ (str' \in Lines => list[Before(add)] = str')]_allVars

\* What can be meant: a backslash cannot be written, and a command has at least its
\* name and not more words than it is given.
Word    == Seq(Chars \ (Blanks \cup {"\\"})) \ {<<>>}
Command == {words \in Seq(Word) : Len(words) \in 1 .. MaxArgs}
ASSUME MeaningsAssumption == Meanings \subseteq Seq(Command)

\* How a list of commands is written with a backslash before every character that
\* would mean something else.
Special == {";", "'", "$"}
Escaped(text) ==
  FlattenSeq([i \in DOMAIN text |-> IF text[i] \in Special THEN <<"\\", text[i]>> ELSE <<text[i]>>])
Joined(parts, c) ==
  FlattenSeq([i \in DOMAIN parts |-> IF i = 1 THEN parts[i] ELSE <<c>> \o parts[i]])
Written(cmds) == Joined([i \in DOMAIN cmds |-> Escaped(Joined(cmds[i], " "))], ";")

\* What is executed of a line.
Parsed(s, b) ==
  LET p[n \in 0 .. Len(s)] ==
        LET t == SubSeq(s, Len(s) + 1 - n, Len(s))
            c == IF n = Len(s) THEN b ELSE "NUL"
        IN IF n = 0 THEN <<>> ELSE <<Argv(Token(t, c))>> \o p[Len(Rest(t, c))]
  IN p[Len(s)]

\* A line in which every special character is escaped is executed as it was meant:
\* the search for separators and the expansion, which read it one after the other
\* with the character before in view, take the same characters for escaped, up
\* to the longest line and whatever stands before the buffer.
Understood ==
  cur = -1 => \A cmds \in Meanings, b \in {"\\", "NUL"} :
                Len(Written(cmds)) < CbSize => Parsed(Written(cmds), b) = cmds
=============================================================================
