---------------------------- MODULE MCCommandLoop ---------------------------
(* Instances of CommandLoop, and with it of LineHistory, for TLC.          *)
EXTENDS CommandLoop

MCChars == {"a", "n", "o", "!", ";", "'", "$", " "}

\* One command, a list with one that is not repeatable, one with too many words, one
\* that begins with a quote, and a line that fills the buffer.
MCLines ==
  {<<"a">>, <<"a", ";", "n">>, <<"a", " ", "a">>, <<"'", "a", ";", "a">>, [i \in 1 .. 10 |-> "a"]}
MCNoLine == <<>>
MCOthers == {<<"!", ";", " ">>}

\* The second is also found by its first letter.
MCTable == (<<"a">> :> [maxargs |-> 1, rep |-> TRUE]) @@ (<<"n", "o">> :> [maxargs |-> 2, rep |-> FALSE])

MCWords    == (SeqOf({"a", ";", "'"}, 2) \ {<<>>}) \cup {<<"$">>, <<"a", "$">>, <<"$", "a">>}
MCCommands == SeqOf(MCWords, 2) \ {<<>>}
MCMeanings == {<<c>> : c \in MCCommands} \cup (MCCommands \X MCCommands)
=============================================================================
