---------------------------- MODULE MCPerfRounds ----------------------------
(***************************************************************************)
(* Instances of PerfRounds for TLC: two channels, transfers of two blocks. *)
(***************************************************************************)
EXTENDS PerfRounds

OneLength == {PerfLen}
=============================================================================
