------------------------------ MODULE I2cPolled -----------------------------
(***************************************************************************)
(* The polled I2C master (module/i2c/i2c-noirq.c) on one bus: reads,       *)
(* writes, probes and changes of speed, each a run of register accesses    *)
(* with counted polls, and beside it the bus controller with its two       *)
(* FIFOs and a slave that answers, refuses, or holds the clock.            *)
(*                                                                         *)
(* A byte or command is represented by the call that asked for it: this    *)
(* one, the call in progress, or one before.  When a call begins, all that *)
(* is left becomes that of one before.                                     *)
(***************************************************************************)
EXTENDS Integers, Sequences

CONSTANTS
  Depth,       \* places in each FIFO
  Polls,       \* the 1000 a time-out count starts with
  Tries,       \* the 100 of dw_i2c_enable
  Lens,        \* lengths asked for
  AddrLens,    \* lengths of the address within the chip
  Interrupted  \* a handler may run between two reads of the status

ASSUME DepthAssumption == Depth \in Nat \ {0}
ASSUME PollsAssumption == Polls \in Nat /\ Tries \in Nat
ASSUME LensAssumption  == Lens \subseteq Nat /\ AddrLens \subseteq Nat
ASSUME InterruptAssumption == Interrupted \in BOOLEAN

VARIABLES
  pc,       \* where the driver stands
  op,       \* the call being made
  left,     \* time_bb, start_time_rx, start_time_tx, start_stop or timeout
  alen,     \* address bytes still to be pushed
  len,      \* bytes still to be moved
  active,   \* a read command was pushed for the byte awaited
  ending,   \* i2c_wait_for_bb is called by i2c_xfer_finish
  again,    \* the controller is to be enabled after it was disabled
  ret,      \* what the last call returned
  en,       \* ic_enable
  tx, rx,   \* the FIFOs
  bus,      \* the controller's state on the bus; not "free" is IC_STATUS_MA
  cur,      \* the command being carried out
  abrt,     \* a refused transfer holds the transmit FIFO empty
  stopDet,  \* IC_STOP_DET
  owner,    \* history: the call that began the transfer on the bus
  own       \* history: every byte stored was asked for by this call

driver     == <<pc, op, left, alen, len, active, ending, again, ret>>
controller == <<en, tx, rx, bus, cur, abrt, stopDet>>
history    == <<owner, own>>
vars       == <<driver, controller, history>>

Origin  == {"this", "before"}
Command == [read : BOOLEAN, stop : BOOLEAN, by : Origin]
NoCommand == [read |-> FALSE, stop |-> FALSE, by |-> "before"]

\* After i2c_init with nobody on the bus.
Init ==
  /\ pc = "idle" /\ op = "none" /\ left = Polls
  /\ alen = 0 /\ len = 0 /\ active = FALSE
  /\ ending = FALSE /\ again = TRUE /\ ret = "none"
  /\ en = TRUE /\ tx = <<>> /\ rx = <<>>
  /\ bus = "free" /\ cur = NoCommand /\ abrt = FALSE /\ stopDet = FALSE
  /\ owner = "before" /\ own = TRUE

GoTo(l) == pc' = l
\* A loop is entered with its count anew.
Enter(l, n) == pc' = l /\ left' = n
\* The test of a count, and one that lets it go one further.
SpentLate == left < -1
Spent     == left < 0
Return(r) == pc' = "idle" /\ ret' = r
-----------------------------------------------------------------------------
(* A call begins.                                                          *)

Disown ==
  /\ tx' = [i \in DOMAIN tx |-> [tx[i] EXCEPT !.by = "before"]]
  /\ rx' = [i \in DOMAIN rx |-> "before"]
  /\ cur' = [cur EXCEPT !.by = "before"]
  /\ owner' = "before" /\ own' = TRUE

Call(o, a, n) ==
  /\ pc = "idle"
  /\ op' = o /\ alen' = a /\ len' = n
  /\ active' = FALSE /\ ending' = FALSE
  /\ Enter("bb", Polls)
  /\ ret' = "none"
  /\ Disown
  /\ UNCHANGED <<again, en, bus, abrt, stopDet>>

Read(a, n)  == Call("read", a, n)
Write(a, n) == Call("write", a, n)
\* dw_i2c_probe reads one byte at address 0.
Probe       == Call("probe", 1, 1)

\* __dw_i2c_set_bus_speed disables the controller if it was enabled.
SetSpeed ==
  /\ pc = "idle"
  /\ op' = "speed" /\ again' = en /\ ret' = "none"
  /\ GoTo("disable")
  /\ Disown
  /\ UNCHANGED <<left, alen, len, active, ending, en, bus, abrt, stopDet>>
-----------------------------------------------------------------------------
(* i2c_wait_for_bb: two reads of the status, first the activity of the     *)
(* master, then the transmit FIFO.                                         *)

\* A probe that failed initialises the controller anew.
Fail ==
  /\ ret' = "failed"
  /\ again' = TRUE
  /\ IF op = "probe" THEN GoTo("disable") ELSE GoTo("idle")

\* The count has run out, and the form that takes this for success.
GaveUpPassing == /\ GoTo(IF ending THEN "flush" ELSE "disable")
                 /\ again' = TRUE /\ UNCHANGED ret
GaveUp        == Fail

StillBusy ==
  IF Spent
  THEN GaveUp /\ UNCHANGED left
  ELSE Enter("bb", left - 1) /\ UNCHANGED <<ret, again>>

\* IC_STATUS_MA is clear, or is taken to be as soon as the stop is under way.
BusFreeSoon == bus \in {"free", "stop"}
BusFree     == bus = "free"

WaitActive ==
  /\ pc = "bb"
  /\ IF BusFree THEN GoTo("tfe") /\ UNCHANGED <<left, ret, again>> ELSE StillBusy
  /\ UNCHANGED <<op, alen, len, active, ending, controller, history>>

WaitEmpty ==
  /\ pc = "tfe"
  /\ IF tx = <<>>
     THEN /\ GoTo(IF ending THEN "flush" ELSE "disable")
          /\ again' = TRUE
          /\ UNCHANGED <<left, ret>>
     ELSE StillBusy
  /\ UNCHANGED <<op, alen, len, active, ending, controller, history>>
-----------------------------------------------------------------------------
(* dw_i2c_enable, called with both values by i2c_setaddress and others.    *)

\* What the controller drops when it is disabled; the other form keeps the
\* bytes received.
DropSent == tx' = <<>> /\ abrt' = FALSE /\ UNCHANGED rx
DropAll  == tx' = <<>> /\ abrt' = FALSE /\ rx' = <<>>

Disable ==
  /\ pc = "disable"
  /\ en' = FALSE
  /\ DropAll
  /\ Enter("disabled", Tries)
  /\ UNCHANGED <<op, alen, len, active, ending, again, ret, bus, cur, stopDet, history>>

\* __dw_i2c_init returns and leaves it disabled; the form that does not look.
InitGoesOn  == FALSE
InitGivesUp == op = "probe" /\ ret = "failed" /\ ~BusFree

\* The controller's own state follows when the byte on the bus is done.  Nobody
\* else looks at the result.
Disabled ==
  /\ pc = "disabled"
  /\ IF BusFree \/ left = 0
     THEN /\ IF ~again \/ InitGivesUp
             THEN GoTo("idle") ELSE GoTo("enable")
          /\ UNCHANGED left
     ELSE left' = left - 1 /\ UNCHANGED pc
  /\ UNCHANGED <<op, alen, len, active, ending, again, ret, controller, history>>

Xfer == op \in {"read", "write"} \/ (op = "probe" /\ ret # "failed")

Enable ==
  /\ pc = "enable"
  /\ en' = TRUE
  /\ GoTo(IF Xfer THEN "address" ELSE "idle")
  /\ UNCHANGED <<op, left, alen, len, active, ending, again, ret, tx, rx, bus, cur, abrt, stopDet,
                 history>>
-----------------------------------------------------------------------------
(* i2c_xfer_init pushes the address, __dw_i2c_read and __dw_i2c_write move *)
(* the bytes.                                                              *)

Room == Len(tx) < Depth

\* A write to ic_cmd_data; what finds no room, or a FIFO that is held empty, is
\* lost.
Push(read, stop) ==
  LET taken == en /\ ~abrt /\ Room
      cmd   == [read |-> read, stop |-> stop, by |-> "this"]
  IN /\ tx' = IF taken THEN Append(tx, cmd) ELSE tx
     /\ UNCHANGED <<en, rx, bus, cur, abrt, stopDet, owner>>

Address ==
  /\ pc = "address"
  /\ IF alen > 0
     THEN /\ alen' = alen - 1
          /\ Push(FALSE, FALSE)
          /\ UNCHANGED <<pc, left>>
     ELSE /\ Enter(IF op = "write" THEN "write" ELSE "read", Polls)
          /\ UNCHANGED <<alen, controller, owner>>
  /\ UNCHANGED <<op, len, active, ending, again, ret, own>>

\* One command for each byte, so that the loop never asks for a byte twice; the
\* last carries the stop.
ReadAsk ==
  /\ pc = "read" /\ len > 0 /\ ~active
  /\ Push(TRUE, len = 1)
  /\ active' = TRUE
  /\ UNCHANGED <<pc, op, left, alen, len, ending, again, ret, own>>

\* The count of a poll that found nothing, and a form that forgets it.
CountForgotten == left
Count          == left - 1

ReadPoll ==
  /\ pc = "read" /\ len > 0 /\ active
  /\ IF rx # <<>>
     THEN /\ own' = (own /\ Head(rx) = "this")
          /\ rx' = Tail(rx)
          /\ len' = len - 1
          /\ active' = FALSE
          /\ left' = Polls - 1
          /\ UNCHANGED <<pc, ret, again>>
     ELSE /\ IF Spent THEN Fail /\ UNCHANGED left ELSE left' = Count /\ UNCHANGED <<pc, ret, again>>
          /\ UNCHANGED <<len, active, rx, own>>
  /\ UNCHANGED <<op, alen, ending, en, tx, bus, cur, abrt, stopDet, owner>>

\* start_time_tx is tested but nothing ever lowers it.
WriteByte ==
  /\ pc = "write" /\ len > 0
  /\ IF Room
     THEN /\ Push(FALSE, len = 1)
          /\ len' = len - 1
          /\ left' = Polls
          /\ UNCHANGED <<pc, ret, again>>
     ELSE /\ IF Spent THEN Fail ELSE UNCHANGED <<pc, ret, again>>
          /\ UNCHANGED <<len, left, controller, owner>>
  /\ UNCHANGED <<op, alen, active, ending, own>>

\* i2c_xfer_finish: the stop condition, or enough polls,
Finish ==
  /\ pc \in {"read", "write"} /\ len = 0
  /\ Enter("stop", Polls)
  /\ UNCHANGED <<op, alen, len, active, ending, again, ret, controller, history>>

WaitStop ==
  /\ pc = "stop"
  /\ IF stopDet \/ Spent
     THEN /\ stopDet' = FALSE
          /\ ending' = TRUE
          /\ Enter("bb", Polls)
     ELSE /\ left' = left - 1
          /\ UNCHANGED <<pc, ending, stopDet>>
  /\ UNCHANGED <<op, alen, len, active, again, ret, en, tx, rx, bus, cur, abrt, history>>

\* then the wait for the bus and the flush of what was received.
Flush ==
  /\ pc = "flush"
  /\ rx' = <<>>
  /\ Return("ok")
  /\ UNCHANGED <<op, left, alen, len, active, ending, again, en, tx, bus, cur, abrt, stopDet, history>>

Driver ==
  \/ WaitActive \/ WaitEmpty \/ Disable \/ Disabled \/ Enable
  \/ Address \/ ReadAsk \/ ReadPoll \/ WriteByte \/ Finish \/ WaitStop \/ Flush
-----------------------------------------------------------------------------
(* The bus controller and the slave.                                       *)

\* START on a free bus.
Begin ==
  /\ en /\ bus = "free" /\ tx # <<>>
  /\ bus' = "held" /\ owner' = Head(tx).by
  /\ UNCHANGED <<driver, en, tx, rx, cur, abrt, stopDet, own>>

\* The next command of the transfer; without one the bus stays held.  Two reads
\* of the status in a row are over before an address has been sent.
Take ==
  /\ bus = "held" /\ en /\ tx # <<>>
  /\ ~Interrupted => pc # "tfe"
  /\ cur' = Head(tx) /\ tx' = Tail(tx)
  /\ bus' = "byte"
  /\ UNCHANGED <<driver, en, rx, abrt, stopDet, history>>

\* The slave answers; a byte that arrives after the controller was disabled, or
\* finds no room, is dropped.
Answer ==
  /\ bus = "byte"
  /\ rx' = IF cur.read /\ en /\ Len(rx) < Depth THEN Append(rx, cur.by) ELSE rx
  /\ bus' = IF cur.stop \/ ~en THEN "stop" ELSE "held"
  /\ UNCHANGED <<driver, en, tx, cur, abrt, stopDet, history>>

\* The slave refuses: the commands are dropped and the transfer is stopped.
Refuse ==
  /\ bus = "byte"
  /\ tx' = <<>>
  /\ abrt' = en
  /\ bus' = "stop"
  /\ UNCHANGED <<driver, en, rx, cur, stopDet, history>>

\* A transfer that is not going on ends when the controller is disabled.
GiveBus ==
  /\ bus = "held" /\ ~en
  /\ bus' = "stop"
  /\ UNCHANGED <<driver, en, tx, rx, cur, abrt, stopDet, history>>

Stop ==
  /\ bus = "stop"
  /\ stopDet' = TRUE
  /\ bus' = "free"
  /\ UNCHANGED <<driver, en, tx, rx, cur, abrt, history>>

Controller == Begin \/ Take \/ Answer \/ Refuse \/ GiveBus \/ Stop
-----------------------------------------------------------------------------
Calls ==
  \/ \E a \in AddrLens, n \in Lens : Read(a, n) \/ Write(a, n)
  \/ Probe
  \/ SetSpeed

Next == Calls \/ Driver \/ Controller

Spec == Init /\ [][Next]_vars

\* A call goes on until it returns.  The slave may hold the clock for ever.
LiveSpec == Spec /\ WF_vars(Driver)
-----------------------------------------------------------------------------
(* Properties.                                                             *)

DriverType ==
  /\ pc \in {"idle", "bb", "tfe", "disable", "disabled", "enable", "address", "read", "write",
             "stop", "flush"}
  /\ op \in {"none", "read", "write", "probe", "speed"}
  /\ left \in Int /\ left >= -1
  /\ alen \in Nat /\ len \in Nat
  /\ active \in BOOLEAN /\ ending \in BOOLEAN /\ again \in BOOLEAN
  /\ ret \in {"none", "ok", "failed"}

ControllerType ==
  /\ en \in BOOLEAN
  /\ tx \in Seq(Command) /\ Len(tx) <= Depth
  /\ rx \in Seq(Origin) /\ Len(rx) <= Depth
  /\ bus \in {"free", "held", "byte", "stop"}
  /\ cur \in Command
  /\ abrt \in BOOLEAN /\ stopDet \in BOOLEAN
  /\ owner \in Origin /\ own \in BOOLEAN

TypeOK == DriverType /\ ControllerType

\* The bytes a read has stored are those it asked for: one that the slave sent
\* late, after the read that had asked for it gave up, goes to no other.
OwnBytes == own

\* The commands of two calls are never mixed in one transfer on the bus: a call
\* does not go on with a transfer that one before it has left open.
OneCallPerTransfer == bus = "byte" => cur.by = owner

\* A call that reports success has left the bus free and nothing behind, though
\* the stop condition it waited for may be one of an earlier transfer.
CleanSuccess == pc = "idle" /\ ret = "ok" => bus = "free" /\ tx = <<>> /\ rx = <<>>

\* Every call returns, a write that finds the transmit FIFO full for good
\* excepted.
CallsEnd == pc # "idle" ~> (pc = "idle" \/ (pc = "write" /\ ~Room))

\* If the slave lets go of the clock, a probe that failed has freed the bus,
\* also when it found it held and the controller could not be disabled in time.
Recovers ==
  WF_vars(Controller) => ((pc = "disable" /\ op = "probe" /\ ret = "failed") ~> bus = "free")
=============================================================================
