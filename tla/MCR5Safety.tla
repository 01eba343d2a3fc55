----------------------------- MODULE MCR5Safety -----------------------------
(* Instances of R5Safety for TLC.                                          *)
EXTENDS R5Safety

CONSTANTS irq1, fiq1, fiq2, here, there, inIrq, inFiq

MCIrqs       == {irq1}
MCFiqs       == {fiq1, fiq2}
MCRegistered == {irq1, fiq1}
MCPlaces     == {here, there}
MCFound      == {here, inIrq}
=============================================================================
