--------------------------- MODULE MCXmodemReceive --------------------------
(* Instances of XmodemReceive for TLC.                                     *)
EXTENDS XmodemReceive

\* Short packets and long ones; a buffer of six ends within the fifth packet.
MCUpto == [n \in 0 .. Packets |-> <<0, 1, 3, 4, 5, 7, 8, 10>>[n + 1]]

\* Data that are nothing to the receiver, that end the file, that cancel, that
\* look like a packet, and that end in half a cancellation.
MCBodies == {<<"junk", "junk">>, <<"junk", "EOT">>, <<"CAN", "CAN">>, <<"SOH", "junk">>,
             <<"junk", "CAN">>}
=============================================================================
