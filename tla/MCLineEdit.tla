----------------------------- MODULE MCLineEdit -----------------------------
(* Instances of LineEdit for TLC.                                          *)
EXTENDS LineEdit

\* One letter, and the characters of one arrow key and one longer sequence.
MCChars == {"x", "ESC", "[", "D", "3", "~"}
MCRecalled == {<<"x">>, <<"x", "D", "x">>}
MCCompleted == {<<"x">>, <<"x", "x">>}
=============================================================================
