------------------------------ MODULE MCDmaLlp ------------------------------
(***************************************************************************)
(* Instances of DmaLlp for TLC.  Two channels are the least that let one   *)
(* handler run while another channel's engine works; the lengths give one, *)
(* two and three blocks, the last one short or whole.                      *)
(***************************************************************************)
EXTENDS DmaLlp

OneLength  == {3}
\* Two full blocks and a shorter one.
DriverLengths == {5}
\* Three full blocks, and the length of zero that dmac_start does not refuse.
TwoLengths == {0, 6}
SeqLengths == {8}
=============================================================================
