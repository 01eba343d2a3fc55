----------------------------- MODULE MCI2cPolled ----------------------------
(* Instances of I2cPolled for TLC.                                         *)
EXTENDS I2cPolled

\* Nothing, the last byte alone, and more bytes than the FIFO has places.
MCLens == {0, 1, 3}
MCAddrLens == {0, 1}
=============================================================================
