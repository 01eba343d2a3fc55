---------------------------- MODULE MCPerfSampler ---------------------------
(***************************************************************************)
(* Instances of PerfSampler for TLC: three rows, so that seven samples go  *)
(* round the buffer more than twice; a valid group beside the default, one *)
(* that is refused and a negative one that is stored.                      *)
(***************************************************************************)
EXTENDS PerfSampler

MCGroups == {0, 5, 12, -1}
=============================================================================
