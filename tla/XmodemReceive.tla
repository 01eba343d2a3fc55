---------------------------- MODULE XmodemReceive ---------------------------
(***************************************************************************)
(* The Xmodem receiver (arch/r5_secure/kernel/Xmodem.c, xmodemReceive), a  *)
(* line that loses and damages what it carries, and a sender that repeats. *)
(*                                                                         *)
(* A packet of the file is represented by its place k, a byte by its place *)
(* in the file.  An item on the line remembers whether it belongs to the   *)
(* sender's last transmission (last): answers carry no number, and a       *)
(* sender cannot tell.  Its data are the file's, or others with the same   *)
(* 8-bit sum, or others that check() sees.                                 *)
(***************************************************************************)
EXTENDS Integers, Sequences

CONSTANTS
  Packets,   \* packets in the file
  Upto,      \* Upto[n]: bytes of the file up to packet n, of 128 or 1024 each
  Capacity,  \* destsz
  Numbers,   \* 256, the packet numbers of an unsigned char
  Retries,   \* the 60 of the loop that waits for a header
  MaxRetrans,\* MAXRETRANS
  LineMax,   \* bound on the items on the line in each direction
  Unseen,    \* bound on the damage no sum shows: a first byte lost, an equal sum
  Passes,    \* bound on the second kind alone
  Bodies     \* what a packet without its first byte may look like

ASSUME SizeAssumption   == Packets \in Nat \ {0} /\ Capacity \in Nat
ASSUME UptoAssumption   ==
  /\ Upto \in [0 .. Packets -> Nat] /\ Upto[0] = 0
  /\ \A m, n \in 0 .. Packets : m < n => Upto[m] < Upto[n]
ASSUME NumberAssumption == Numbers \in Nat /\ Numbers > 2
ASSUME CountAssumption  == Retries \in Nat \ {0} /\ MaxRetrans \in Nat \ {0}
ASSUME LineAssumption   == LineMax \in Nat \ {0} /\ Unseen \in Nat /\ Passes \in Nat

\* What is under way each way is at most half of the numbers: between the ends are
\* only the FIFOs of the UARTs, shorter than a packet, and the code has 256 numbers.
ASSUME WindowAssumption == 2 * LineMax <= Numbers

VARIABLES
  packetno,  \* the number expected
  retry,     \* tries of the header loop
  retrans,   \* duplicates still accepted
  trychar,   \* a NAK is sent before every try
  count,     \* len
  dest,      \* dest[i] is the byte of the file stored at place i, 0 for another
  ret,       \* what xmodemReceive has returned
  k,         \* sender: the packet it is on, Packets + 1 for the end of the file
  sender,    \* sender: "start", "wait", "done" or "quit"
  toRecv,    \* on the line to the receiver
  toSend,    \* on the line to the sender
  crossed,   \* history: an answer was taken for one to a later transmission
  broken,    \* history: packets that have lost their first byte
  passed     \* history: packets damaged to data with the same sum

receiver == <<packetno, retry, retrans, trychar, count, dest, ret>>
peer     == <<k, sender>>
line     == <<toRecv, toSend>>
history  == <<crossed, broken, passed>>
vars     == <<receiver, peer, line, history>>

Byte   == {"EOT", "CAN", "SOH", "junk"}
ASSUME BodiesAssumption == Bodies \subseteq Seq(Byte)

Answer == {"ACK", "NAK", "CAN"}
Data   == {"file", "same sum", "other sum"}
Item(kind, n) == [kind |-> kind, k |-> n, data |-> "file", last |-> TRUE]

\* The first NAK goes out before the first wait.
Init ==
  /\ packetno = 1 /\ retry = 0 /\ retrans = MaxRetrans /\ trychar = TRUE
  /\ count = 0 /\ dest = [i \in 1 .. 0 |-> 0] /\ ret = "none"
  /\ k = 1 /\ sender = "start"
  /\ toRecv = <<>> /\ toSend = <<[kind |-> "NAK", last |-> TRUE]>>
  /\ crossed = FALSE /\ broken = 0 /\ passed = 0

Older(s) == [i \in DOMAIN s |-> [s[i] EXCEPT !.last = FALSE]]
-----------------------------------------------------------------------------
(* The receiver.                                                           *)

\* An answer to an item belongs to the transmission the item belongs to.
Reply(a, last) == toSend' = Append(toSend, [kind |-> a, last |-> last])

RoomToReply == Len(toSend) < LineMax
Running     == ret = "none" /\ RoomToReply

\* The header loop is left for good after Retries tries.
Spent(n) == n >= Retries

\* The next try: a NAK goes out first as long as no packet has begun.  After the
\* last the sender is told to stop.
NextTry(last) ==
  /\ retry' = retry + 1
  /\ IF Spent(retry + 1)
     THEN ret' = "silence" /\ Reply("CAN", last)
     ELSE /\ IF trychar THEN Reply("NAK", last) ELSE UNCHANGED toSend
          /\ UNCHANGED ret

Heard(kind) == toRecv # <<>> /\ Head(toRecv).kind = kind

\* Nothing comes for three seconds.
HeaderTimeout ==
  /\ Running /\ toRecv = <<>>
  /\ NextTry(TRUE)
  /\ UNCHANGED <<packetno, retrans, trychar, count, dest, peer, toRecv, history>>

\* A byte that begins nothing.
Junk ==
  /\ Running /\ Heard("junk")
  /\ toRecv' = Tail(toRecv)
  /\ NextTry(FALSE)
  /\ UNCHANGED <<packetno, retrans, trychar, count, dest, peer, history>>

\* EOT: the transfer is over.
EndOfFile ==
  /\ Running /\ Heard("EOT")
  /\ toRecv' = Tail(toRecv)
  /\ Reply("ACK", Head(toRecv).last)
  /\ ret' = "len"
  /\ UNCHANGED <<packetno, retry, retrans, trychar, count, dest, peer, history>>

\* The packet at place i loses its first byte; what is left is a run of bytes, of
\* which what was before it is gone too.
Break(i) ==
  /\ toRecv[i].kind = "packet"
  /\ broken + passed < Unseen /\ broken' = broken + 1
  /\ \E body \in Bodies :
       toRecv' = [j \in DOMAIN body |-> Item(body[j], 0)] \o SubSeq(toRecv, i + 1, Len(toRecv))

\* CAN, and within a second another one.  When none comes, port_inbyte returns a
\* variable it has not set, which may hold that value.
Cancelled ==
  /\ Running /\ Heard("CAN")
  /\ \/ Len(toRecv) > 1 /\ toRecv[2].kind = "CAN" /\ toRecv' = SubSeq(toRecv, 3, Len(toRecv))
     \/ toRecv' = Tail(toRecv)
  /\ Reply("ACK", FALSE)
  /\ ret' = "cancelled"
  /\ UNCHANGED <<packetno, retry, retrans, trychar, count, dest, peer, history>>

\* Otherwise the next byte, if it comes in time, is lost with the CAN.
CancelAlone ==
  /\ Running /\ Heard("CAN")
  /\ \/ toRecv' = Tail(toRecv) /\ UNCHANGED broken
     \/ Len(toRecv) > 1 /\ toRecv[2].kind \in Byte \ {"CAN"}
        /\ toRecv' = SubSeq(toRecv, 3, Len(toRecv)) /\ UNCHANGED broken
     \/ Len(toRecv) > 1 /\ Break(2)
  /\ NextTry(FALSE)
  /\ UNCHANGED <<packetno, retrans, trychar, count, dest, peer, crossed, passed>>

\* start_recv: from here on no try is announced, and the count begins anew when
\* the packet has been dealt with.
Begun == trychar' = FALSE /\ retry' = 0

\* The data have the sum sent behind them, and the number is the one expected, or
\* the one before.  That one is computed as an int, so that 0 has none; the other
\* form has none at all.
Good     == Heard("packet") /\ Head(toRecv).data # "other sum"
Number   == Head(toRecv).k % Numbers
Forgets(n) == FALSE
Repeated(n) == n = packetno - 1

\* The first m bytes of the packet go behind what is there.
Put(m) ==
  /\ count' = count + m
  /\ dest' = [i \in 1 .. count' |->
                IF i <= count THEN dest[i]
                ELSE IF Head(toRecv).data = "file" THEN Upto[Head(toRecv).k - 1] + (i - count) ELSE 0]

\* A packet that is new is stored as far as there is room, the one with which the
\* room ends in part; the form that does not look stores each whole.
Bytes(n)    == Upto[n] - Upto[n - 1]
StoreAll(n) == Put(Bytes(n))
Store(n)    == IF count < Capacity
               THEN Put(IF Bytes(n) < Capacity - count THEN Bytes(n) ELSE Capacity - count)
               ELSE UNCHANGED <<count, dest>>

Accept ==
  /\ Running /\ Good /\ Number = packetno
  /\ Store(Head(toRecv).k)
  /\ packetno' = (packetno + 1) % Numbers
  /\ retrans' = MaxRetrans
  /\ Reply("ACK", Head(toRecv).last)
  /\ Begun
  /\ toRecv' = Tail(toRecv)
  /\ UNCHANGED <<ret, peer, history>>

\* One too many of the same, and the sender is told to stop.
Duplicate ==
  /\ Running /\ Good /\ Number # packetno /\ Repeated(Number)
  /\ retrans' = retrans - 1
  /\ IF retrans' <= 0
     THEN ret' = "duplicates" /\ Reply("CAN", Head(toRecv).last)
     ELSE UNCHANGED ret /\ Reply("ACK", Head(toRecv).last)
  /\ Begun
  /\ toRecv' = Tail(toRecv)
  /\ UNCHANGED <<packetno, count, dest, peer, history>>

\* What is sent for a packet that is refused, and a form that sends the other.
AnswerYes == "ACK"
AnswerNo  == "NAK"

Reject ==
  /\ Running /\ Heard("packet")
  /\ Good => Number # packetno /\ ~Repeated(Number)
  /\ Reply(AnswerNo, Head(toRecv).last)
  /\ Begun
  /\ toRecv' = Tail(toRecv)
  /\ UNCHANGED <<packetno, retrans, count, dest, ret, peer, history>>

\* An SOH with no packet behind it takes the bytes that follow for one, until
\* none comes for a second or a packet has been broken.
FalseStart ==
  /\ Running /\ Heard("SOH")
  /\ \E i \in DOMAIN toRecv :
       /\ \A j \in 1 .. i - 1 : toRecv[j].kind # "packet"
       /\ \/ toRecv' = SubSeq(toRecv, i + 1, Len(toRecv)) /\ UNCHANGED broken
             /\ toRecv[i].kind # "packet"
          \/ Break(i)
  /\ Reply("NAK", FALSE)
  /\ Begun
  /\ UNCHANGED <<packetno, retrans, count, dest, ret, peer, crossed, passed>>

Receiver ==
  \/ HeaderTimeout \/ Junk \/ EndOfFile \/ Cancelled \/ CancelAlone
  \/ Accept \/ Duplicate \/ Reject \/ FalseStart
-----------------------------------------------------------------------------
(* The sender at the other end, as the protocol has it.                    *)

Send(items) ==
  /\ Len(toRecv) + Len(items) <= LineMax
  /\ toRecv' = Older(toRecv) \o items

Transmission(n) ==
  IF n > Packets THEN <<Item("EOT", 0)>> ELSE <<Item("packet", n)>>

\* The first NAK, a NAK, or no answer for a while: the packet is sent, again.
Transmit ==
  /\ \/ sender = "start" /\ toSend # <<>> /\ Head(toSend).kind = "NAK" /\ sender' = "wait"
        /\ toSend' = Older(Tail(toSend))
     \/ sender = "wait" /\ toSend # <<>> /\ Head(toSend).kind = "NAK" /\ UNCHANGED sender
        /\ toSend' = Older(Tail(toSend))
     \/ sender = "wait" /\ toSend = <<>> /\ UNCHANGED <<sender, toSend>>
  /\ Send(Transmission(k))
  /\ UNCHANGED <<receiver, k, history>>

\* ACK: on to the next.
Proceed ==
  /\ sender = "wait" /\ toSend # <<>> /\ Head(toSend).kind = "ACK"
  /\ crossed' = (crossed \/ ~Head(toSend).last)
  /\ toSend' = Older(Tail(toSend))
  /\ IF k > Packets
     THEN sender' = "done" /\ UNCHANGED <<k, toRecv>>
     ELSE k' = k + 1 /\ Send(Transmission(k')) /\ UNCHANGED sender
  /\ UNCHANGED <<receiver, broken, passed>>

Stopped ==
  /\ sender \in {"start", "wait"} /\ toSend # <<>> /\ Head(toSend).kind = "CAN"
  /\ sender' = "quit"
  /\ toSend' = Tail(toSend)
  /\ UNCHANGED <<receiver, k, toRecv, history>>

\* What is not understood, or comes after the end.
Ignore ==
  /\ toSend # <<>>
  /\ sender \in {"done", "quit"} \/ (sender = "start" /\ Head(toSend).kind = "ACK")
  /\ toSend' = Tail(toSend)
  /\ UNCHANGED <<receiver, peer, toRecv, history>>

Quit ==
  /\ sender \in {"start", "wait"}
  /\ sender' = "quit"
  /\ Send(<<Item("CAN", 0), Item("CAN", 0)>>)
  /\ UNCHANGED <<receiver, k, toSend, history>>

Sender == Transmit \/ Proceed \/ Stopped \/ Ignore
-----------------------------------------------------------------------------
(* The line.                                                               *)

LoseItem ==
  /\ toRecv # <<>>
  /\ toRecv' = Tail(toRecv)
  /\ UNCHANGED <<receiver, peer, toSend, history>>

LoseAnswer ==
  /\ toSend # <<>>
  /\ toSend' = Tail(toSend)
  /\ UNCHANGED <<receiver, peer, toRecv, history>>

\* The sum tells most damage,
Damage ==
  /\ Good
  /\ toRecv' = [toRecv EXCEPT ![1].data = "other sum"]
  /\ UNCHANGED <<receiver, peer, toSend, history>>

\* but not all.
Disguise ==
  /\ Heard("packet") /\ Head(toRecv).data = "file"
  /\ passed < Passes /\ broken + passed < Unseen /\ passed' = passed + 1
  /\ toRecv' = [toRecv EXCEPT ![1].data = "same sum"]
  /\ UNCHANGED <<receiver, peer, toSend, crossed, broken>>

Unframe ==
  /\ toRecv # <<>> /\ Break(1)
  /\ UNCHANGED <<receiver, peer, toSend, crossed, passed>>

Noise == LoseItem \/ LoseAnswer \/ Damage \/ Disguise \/ Unframe
-----------------------------------------------------------------------------
Next == Receiver \/ Sender \/ Quit \/ Noise

Spec == Init /\ [][Next]_vars

\* Receiver and sender go on, and a packet that is sent often enough arrives.
LiveSpec ==
  /\ Spec
  /\ WF_vars(Receiver) /\ WF_vars(Sender)
  /\ SF_vars(Accept) /\ SF_vars(Duplicate)
-----------------------------------------------------------------------------
(* Properties.                                                             *)

\* Whatever the line does, the buffer is a growing beginning of the file: no byte
\* twice, none left out before another, none beyond the end of the buffer, none
\* after the return, and none that is not the file's before damage has got past
\* the sum.
Copy    == INSTANCE XmodemCopy WITH Length <- Upto[Packets]
Refines == Copy!Spec

\* A length is returned only when the whole file has arrived, as far as there is
\* room, unless an answer was taken for one to a later packet or the bytes of a
\* packet were taken for control characters.
Whole ==
  ret = "len" /\ ~crossed /\ broken = 0 =>
    count = IF Upto[Packets] < Capacity THEN Upto[Packets] ELSE Capacity

\* The sender repeats a packet that is neither expected nor recognised as the one
\* before: it is ahead, or the one before has the number Numbers - 1.
OutOfStep == (k - packetno) % Numbers # 0 /\ (packetno > 0 => k % Numbers # packetno - 1)

\* The call returns, or the two ends have got out of step: refused packets are
\* not counted, and then are sent and refused for ever.
Ends == ret = "none" ~> (ret # "none" \/ OutOfStep)
=============================================================================
