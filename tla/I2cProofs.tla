------------------------------ MODULE I2cProofs -----------------------------
(***************************************************************************)
(* Theorems about I2cPolled: the type invariant, and what keeps two calls  *)
(* apart when nothing runs between two reads of the status.                *)
(***************************************************************************)
EXTENDS I2cPolled, TLAPS

LEMMA TailFacts ==
  ASSUME NEW S, NEW s \in Seq(S), s # <<>>
  PROVE  /\ Tail(s) \in Seq(S) /\ Len(Tail(s)) = Len(s) - 1 /\ Len(s) >= 1
         /\ \A i \in 1 .. Len(s) - 1 : Tail(s)[i] = s[i + 1]
         /\ Head(s) = s[1] /\ s[1] \in S
  OBVIOUS

LEMMA AppendFacts ==
  ASSUME NEW S, NEW s \in Seq(S), NEW e \in S
  PROVE  /\ Append(s, e) \in Seq(S) /\ Len(Append(s, e)) = Len(s) + 1
         /\ \A i \in 1 .. Len(s) : Append(s, e)[i] = s[i]
         /\ Append(s, e)[Len(s) + 1] = e
         /\ Append(s, e) # <<>>
  OBVIOUS

LEMMA EmptyFacts ==
  ASSUME NEW S
  PROVE  <<>> \in Seq(S) /\ Len(<<>>) = 0
  OBVIOUS

LEMMA ByFacts ==
  ASSUME NEW c \in Command
  PROVE  /\ [c EXCEPT !.by = "before"] \in Command
         /\ [c EXCEPT !.by = "before"].by = "before"
         /\ c.by \in Origin
  BY DEF Command, Origin

\* Disowning leaves the FIFOs as long as they were.
LEMMA DisownSent ==
  ASSUME NEW s \in Seq(Command), NEW t, t = [i \in DOMAIN s |-> [s[i] EXCEPT !.by = "before"]]
  PROVE  t \in Seq(Command) /\ Len(t) = Len(s) /\ \A i \in 1 .. Len(s) : t[i].by = "before"
<1>1. DOMAIN s = 1 .. Len(s) /\ Len(s) \in Nat /\ \A i \in 1 .. Len(s) : s[i] \in Command
  OBVIOUS
<1>2. \A i \in 1 .. Len(s) : t[i] \in Command /\ t[i].by = "before"
  BY <1>1, ByFacts
<1>3. t \in [1 .. Len(s) -> Command]
  BY <1>1, <1>2
<1> QED BY <1>1, <1>2, <1>3

LEMMA DisownReceived ==
  ASSUME NEW r \in Seq(Origin), NEW u, u = [i \in DOMAIN r |-> "before"]
  PROVE  u \in Seq(Origin) /\ Len(u) = Len(r) /\ \A i \in 1 .. Len(r) : u[i] = "before"
<1>1. DOMAIN r = 1 .. Len(r) /\ Len(r) \in Nat
  OBVIOUS
<1>2. u \in [1 .. Len(r) -> Origin]
  BY <1>1 DEF Origin
<1> QED BY <1>1, <1>2
-----------------------------------------------------------------------------
(* Every variable keeps its type.                                          *)

\* The count of dw_i2c_enable, unlike the others, is not lowered below zero.
Counting == pc = "disabled" => left >= 0

LEMMA DriverTypeStep == TypeOK /\ Counting /\ [Next]_vars => DriverType' /\ Counting'
<1> SUFFICES ASSUME DriverType, ControllerType, Counting, [Next]_vars PROVE DriverType' /\ Counting'
  BY DEF TypeOK
<1> USE DEF DriverType, Counting
<1>polls. Polls \in Int /\ Polls >= 0 /\ Tries \in Int /\ Tries >= 0
  BY PollsAssumption
<1>calls. ASSUME Calls PROVE DriverType' /\ Counting'
  <2>1. ASSUME NEW o \in {"read", "write", "probe"}, NEW a \in Nat, NEW n \in Nat, Call(o, a, n)
        PROVE DriverType' /\ Counting'
    <3>1. active' \in BOOLEAN /\ ending' \in BOOLEAN /\ again' \in BOOLEAN
      BY <2>1, Zenon DEF Call
    <3> QED BY <2>1, <3>1, <1>polls DEF Call, Enter
  <2>2. ASSUME NEW a \in AddrLens, NEW n \in Lens, Read(a, n) \/ Write(a, n) PROVE DriverType' /\ Counting'
    BY <2>1, <2>2, LensAssumption DEF Read, Write
  <2>3. CASE Probe
    BY <2>1, <2>3 DEF Probe
  <2>4. CASE SetSpeed
    BY <2>4 DEF SetSpeed, GoTo, ControllerType
  <2> QED BY <1>calls, <2>2, <2>3, <2>4 DEF Calls
<1>fail. Fail => pc' \in {"disable", "idle"} /\ ret' = "failed" /\ again' = TRUE
  BY DEF Fail, GoTo
<1>busy. StillBusy => /\ pc' \in {"disable", "idle", "bb"} /\ ret' \in {"none", "ok", "failed"}
                      /\ again' \in BOOLEAN /\ left' \in Int /\ left' >= -1
  <2>1. CASE Spent
    BY <1>fail, <2>1 DEF StillBusy, GaveUp
  <2>2. CASE ~Spent
    BY <2>2 DEF StillBusy, Enter, Spent
  <2> QED BY <2>1, <2>2
<1>2. CASE WaitActive
  <2>1. CASE BusFree
    BY <1>2, <2>1 DEF WaitActive, GoTo
  <2>2. CASE ~BusFree
    BY <1>2, <2>2, <1>busy DEF WaitActive
  <2> QED BY <2>1, <2>2
<1>3. CASE WaitEmpty
  <2>1. CASE tx = <<>>
    BY <1>3, <2>1 DEF WaitEmpty, GoTo
  <2>2. CASE tx # <<>>
    BY <1>3, <2>2, <1>busy DEF WaitEmpty
  <2> QED BY <2>1, <2>2
<1>4. CASE Disable
  BY <1>4, <1>polls DEF Disable, Enter
<1>5. CASE Disabled
  <2>1. CASE BusFree \/ left = 0
    BY <1>5, <2>1 DEF Disabled, GoTo
  <2>2. CASE ~(BusFree \/ left = 0)
    BY <1>5, <2>2 DEF Disabled
  <2> QED BY <2>1, <2>2
<1>6. CASE Enable
  BY <1>6 DEF Enable, GoTo
<1>7. CASE Address
  <2>1. CASE alen > 0
    BY <1>7, <2>1 DEF Address
  <2>2. CASE ~(alen > 0)
    BY <1>7, <2>2, <1>polls DEF Address, Enter
  <2> QED BY <2>1, <2>2
<1>8. CASE ReadAsk
  BY <1>8 DEF ReadAsk
<1>9. CASE ReadPoll
  <2>1. CASE rx # <<>>
    <3>1. active' \in BOOLEAN /\ again' \in BOOLEAN
      BY <1>9, <2>1, Zenon DEF ReadPoll
    <3> QED BY <1>9, <2>1, <3>1, <1>polls DEF ReadPoll
  <2>2. CASE rx = <<>> /\ Spent
    BY <1>9, <2>2, <1>fail DEF ReadPoll
  <2>3. CASE rx = <<>> /\ ~Spent
    BY <1>9, <2>3 DEF ReadPoll, Spent, Count
  <2> QED BY <2>1, <2>2, <2>3
<1>10. CASE WriteByte
  <2>1. CASE Room
    BY <1>10, <2>1, <1>polls DEF WriteByte
  <2>2. CASE ~Room
    BY <1>10, <2>2, <1>fail DEF WriteByte
  <2> QED BY <2>1, <2>2
<1>11. CASE Finish
  BY <1>11, <1>polls DEF Finish, Enter
<1>12. CASE WaitStop
  <2>1. CASE stopDet \/ Spent
    <3>1. ending' \in BOOLEAN
      BY <1>12, <2>1, Zenon DEF WaitStop
    <3> QED BY <1>12, <2>1, <3>1, <1>polls DEF WaitStop, Enter
  <2>2. CASE ~(stopDet \/ Spent)
    BY <1>12, <2>2 DEF WaitStop, Spent
  <2> QED BY <2>1, <2>2
<1>13. CASE Flush
  BY <1>13 DEF Flush, Return
<1>14. CASE Controller
  BY <1>14 DEF Controller, Begin, Take, Answer, Refuse, GiveBus, Stop, driver
<1>15. CASE UNCHANGED vars
  BY <1>15 DEF vars, driver
<1> QED
  BY <1>calls, <1>2, <1>3, <1>4, <1>5, <1>6, <1>7, <1>8, <1>9, <1>10, <1>11, <1>12, <1>13,
     <1>14, <1>15
  DEF Next, Driver

LEMMA ControllerTypeStep == TypeOK /\ [Next]_vars => ControllerType'
<1> SUFFICES ASSUME DriverType, ControllerType, [Next]_vars PROVE ControllerType'
  BY DEF TypeOK
<1> USE DepthAssumption DEF ControllerType
<1>disown. Disown => /\ tx' \in Seq(Command) /\ Len(tx') <= Depth
                     /\ rx' \in Seq(Origin) /\ Len(rx') <= Depth
                     /\ cur' \in Command /\ owner' \in Origin /\ own' \in BOOLEAN
  BY DisownSent, DisownReceived, ByFacts DEF Disown, Origin
<1>none. <<>> \in Seq(Command) /\ <<>> \in Seq(Origin) /\ Len(<<>>) = 0
  BY EmptyFacts
<1>len. Len(tx) \in Nat /\ Len(rx) \in Nat
  OBVIOUS
<1>same. UNCHANGED <<controller, history>> => ControllerType'
  BY DEF controller, history
<1>push. ASSUME NEW r \in BOOLEAN, NEW s \in BOOLEAN, Push(r, s), UNCHANGED own PROVE ControllerType'
  <2> DEFINE c == [read |-> r, stop |-> s, by |-> "this"]
  <2>1. c \in Command
    BY DEF Command, Origin
  <2>2. Append(tx, c) \in Seq(Command) /\ Len(Append(tx, c)) = Len(tx) + 1
    BY <2>1, AppendFacts
  <2>3. (tx' = Append(tx, c) /\ Room) \/ tx' = tx
    BY <1>push DEF Push
  <2>4. tx' \in Seq(Command) /\ Len(tx') <= Depth
    <3>1. CASE tx' = Append(tx, c) /\ Room
      BY <2>2, <3>1, <1>len DEF Room
    <3>2. CASE tx' = tx
      BY <3>2
    <3> QED BY <2>3, <3>1, <3>2
  <2> QED BY <2>4, <1>push DEF Push
<1>1. CASE Calls
  BY <1>1, <1>disown DEF Calls, Read, Write, Probe, Call, SetSpeed
<1>2. CASE WaitActive \/ WaitEmpty \/ Disabled \/ Finish
  BY <1>2, <1>same DEF WaitActive, WaitEmpty, Disabled, Finish
<1>3. CASE Disable
  <2>1. en' \in BOOLEAN /\ abrt' \in BOOLEAN
    BY <1>3, Zenon DEF Disable, DropAll
  <2> QED BY <1>3, <2>1, <1>none DEF Disable, DropAll, history
<1>4. CASE Enable
  BY <1>4 DEF Enable, history
<1>5. CASE Address
  <2>1. CASE alen > 0
    BY <1>5, <2>1, <1>push DEF Address
  <2>2. CASE ~(alen > 0)
    BY <1>5, <2>2, <1>same DEF Address, history
  <2> QED BY <2>1, <2>2
<1>6. CASE ReadAsk
  BY <1>6, <1>push DEF ReadAsk
<1>7. CASE ReadPoll
  <2>1. CASE rx # <<>>
    <3>1. Tail(rx) \in Seq(Origin) /\ Len(Tail(rx)) = Len(rx) - 1
      BY <2>1, TailFacts
    <3> QED BY <1>7, <2>1, <3>1, <1>len DEF ReadPoll
  <2>2. CASE rx = <<>>
    BY <1>7, <2>2, <1>same DEF ReadPoll, controller, history
  <2> QED BY <2>1, <2>2
<1>8. CASE WriteByte
  <2>1. CASE Room
    BY <1>8, <2>1, <1>push DEF WriteByte
  <2>2. CASE ~Room
    BY <1>8, <2>2, <1>same DEF WriteByte, history
  <2> QED BY <2>1, <2>2
<1>9. CASE WaitStop
  BY <1>9 DEF WaitStop, history
<1>10. CASE Flush
  BY <1>10, <1>none DEF Flush, history
<1>11. CASE Begin
  <2>1. Head(tx).by \in Origin
    BY <1>11, TailFacts, ByFacts DEF Begin
  <2> QED BY <1>11, <2>1 DEF Begin
<1>12. CASE Take
  <2>1. Tail(tx) \in Seq(Command) /\ Len(Tail(tx)) = Len(tx) - 1 /\ Head(tx) \in Command
    BY <1>12, TailFacts DEF Take
  <2> QED BY <1>12, <2>1, <1>len DEF Take, history
<1>13. CASE Answer
  <2>1. Append(rx, cur.by) \in Seq(Origin) /\ Len(Append(rx, cur.by)) = Len(rx) + 1
    <3>1. cur.by \in Origin
      BY ByFacts
    <3> QED BY <3>1, AppendFacts
  <2>2. rx' \in Seq(Origin) /\ Len(rx') <= Depth
    BY <1>13, <2>1, <1>len DEF Answer
  <2> QED BY <1>13, <2>2 DEF Answer, history
<1>14. CASE Refuse
  BY <1>14, <1>none DEF Refuse, history
<1>15. CASE GiveBus \/ Stop
  BY <1>15 DEF GiveBus, Stop, history
<1>16. CASE UNCHANGED vars
  BY <1>16, <1>same DEF vars
<1> QED
  BY <1>1, <1>2, <1>3, <1>4, <1>5, <1>6, <1>7, <1>8, <1>9, <1>10, <1>11, <1>12, <1>13,
     <1>14, <1>15, <1>16
  DEF Next, Driver, Controller

LEMMA TypeInit == Init => TypeOK
<1>1. NoCommand \in Command /\ <<>> \in Seq(Command) /\ <<>> \in Seq(Origin) /\ Len(<<>>) = 0
  BY EmptyFacts DEF NoCommand, Command, Origin
<1>2. Init => /\ active \in BOOLEAN /\ ending \in BOOLEAN /\ again \in BOOLEAN
              /\ en \in BOOLEAN /\ abrt \in BOOLEAN /\ stopDet \in BOOLEAN /\ own \in BOOLEAN
  BY Zenon DEF Init
<1>3. Init => DriverType
  BY <1>2, PollsAssumption DEF Init, DriverType
<1>4. Init => ControllerType
  BY <1>1, <1>2, DepthAssumption DEF Init, ControllerType, Origin
<1> QED
  BY <1>3, <1>4 DEF TypeOK

\* The driver and the controller keep their types, a count one below zero
\* included, and no FIFO holds more than it has places (i2c-noirq.c).
THEOREM TypeCorrect == Spec => []TypeOK
<1>1. TypeOK /\ Counting /\ [Next]_vars => TypeOK' /\ Counting'
  BY DriverTypeStep, ControllerTypeStep DEF TypeOK
<1>2. Init => Counting
  BY DEF Init, Counting
<1> QED BY TypeInit, <1>1, <1>2, PTL DEF Spec
-----------------------------------------------------------------------------
(***************************************************************************)
(* What keeps two calls apart.  All that the controller holds is of one    *)
(* origin, and of the call in progress once that has pushed anything.  The *)
(* change from one to the other is made with a free bus and empty FIFOs,   *)
(* which is what i2c_wait_for_bb and the disabling in i2c_setaddress are   *)
(* for, and the wait sees it although it reads the status twice.           *)
(***************************************************************************)

Marked(o) ==
  /\ \A i \in 1 .. Len(tx) : tx[i].by = o
  /\ \A i \in 1 .. Len(rx) : rx[i] = o
  /\ bus # "free" => owner = o
  /\ bus = "byte" => cur.by = o

Working == pc \in {"address", "read", "write", "stop", "flush"} \/ (pc \in {"bb", "tfe"} /\ ending)

OneOrigin == Marked("this") \/ Marked("before")
Worked    == Working => Marked("this")
Quiet     == pc = "tfe" => bus = "free" \/ (tx # <<>> /\ bus # "byte")
Fresh ==
  /\ pc \in {"disable", "disabled", "enable"} /\ Xfer => tx = <<>> /\ bus = "free"
  /\ pc \in {"disabled", "enable"} /\ Xfer => rx = <<>>
Over ==
  /\ pc = "flush" => bus = "free" /\ tx = <<>>
  /\ ret = "ok" => pc = "idle"

Apart == OneOrigin /\ Worked /\ Quiet /\ Fresh /\ Over /\ OwnBytes /\ CleanSuccess

LEMMA MarkedSame ==
  ASSUME NEW o, Marked(o), UNCHANGED <<tx, rx, bus, cur, owner>>
  PROVE  Marked(o)'
  BY DEF Marked

LEMMA MarkedPush ==
  ASSUME TypeOK, Marked("this"), NEW r \in BOOLEAN, NEW s \in BOOLEAN, Push(r, s)
  PROVE  Marked("this")'
<1> DEFINE c == [read |-> r, stop |-> s, by |-> "this"]
<1>1. c \in Command /\ c.by = "this"
  BY DEF Command, Origin
<1>2. Len(tx) \in Nat /\ tx \in Seq(Command)
  BY DEF TypeOK, ControllerType
<1>3. tx' = Append(tx, c) \/ tx' = tx
  BY DEF Push
<1>4. \A i \in 1 .. Len(tx') : tx'[i].by = "this"
  <2> HIDE DEF c
  <2>1. \A i \in 1 .. Len(Append(tx, c)) : Append(tx, c)[i].by = "this"
    BY <1>1, <1>2, AppendFacts DEF Marked
  <2> QED BY <1>3, <2>1 DEF Marked
<1> QED BY <1>4 DEF Push, Marked

\* The controller and the slave put nothing of another origin into the FIFOs.
LEMMA MarkedController ==
  ASSUME TypeOK, NEW o \in Origin, Marked(o), Controller
  PROVE  Marked(o)'
<1> USE DEF Marked
<1>1. tx \in Seq(Command) /\ rx \in Seq(Origin) /\ cur \in Command
  BY DEF TypeOK, ControllerType
<1>2. CASE Begin
  <2>1. Head(tx).by = o
    BY <1>1, <1>2, TailFacts DEF Begin
  <2> QED BY <1>2, <2>1 DEF Begin
<1>3. CASE Take
  <2>1. Head(tx).by = o /\ \A i \in 1 .. Len(Tail(tx)) : Tail(tx)[i].by = o
    BY <1>1, <1>3, TailFacts DEF Take
  <2> QED BY <1>3, <2>1 DEF Take, history
<1>4. CASE Answer
  <2>1. cur.by = o /\ owner = o
    BY <1>4 DEF Answer
  <2>2. \A i \in 1 .. Len(Append(rx, o)) : Append(rx, o)[i] = o
    BY <1>1, AppendFacts
  <2>3. \A i \in 1 .. Len(rx') : rx'[i] = o
    BY <1>4, <2>1, <2>2 DEF Answer
  <2>4. bus' \in {"stop", "held"} /\ UNCHANGED <<tx, cur, owner>>
    BY <1>4 DEF Answer, history
  <2> QED BY <2>1, <2>3, <2>4
<1>5. CASE Refuse
  <2>1. tx' = <<>> /\ Len(<<>>) = 0
    BY <1>5, EmptyFacts DEF Refuse
  <2> QED BY <1>5, <2>1 DEF Refuse, history
<1>6. CASE GiveBus \/ Stop
  BY <1>6 DEF GiveBus, Stop, history
<1> QED BY <1>2, <1>3, <1>4, <1>5, <1>6 DEF Controller

LEMMA ApartStep ==
  ASSUME ~Interrupted
  PROVE  TypeOK /\ Apart /\ [Next]_vars => Apart'
<1> SUFFICES ASSUME TypeOK, Apart, [Next]_vars PROVE Apart'
  OBVIOUS
<1>type. tx \in Seq(Command) /\ rx \in Seq(Origin) /\ cur \in Command
  BY DEF TypeOK, ControllerType
<1>0. OneOrigin /\ Worked /\ Quiet /\ Fresh /\ Over /\ OwnBytes /\ CleanSuccess
  BY DEF Apart
<1>none. Len(<<>>) = 0
  BY EmptyFacts
\* A step that leaves what the controller holds, or keeps it of its origin.
<1>keeps. ASSUME \A o \in Origin : Marked(o) => Marked(o)', Working' => Working
          PROVE  OneOrigin' /\ Worked'
  BY <1>0, <1>keeps DEF OneOrigin, Worked, Origin
<1>same. UNCHANGED <<tx, rx, bus, cur, owner>> => \A o \in Origin : Marked(o) => Marked(o)'
  BY MarkedSame
<1>calls. CASE Calls
  <2>1. Disown /\ ret' = "none" /\ UNCHANGED bus
        /\ ((pc' = "bb" /\ ending' = FALSE) \/ (pc' = "disable" /\ op' = "speed"))
    <3>1. ASSUME NEW o, NEW a, NEW n, Call(o, a, n)
          PROVE  Disown /\ ending' = FALSE /\ ret' = "none" /\ UNCHANGED bus /\ pc' = "bb"
      BY <3>1, Zenon DEF Call, Enter
    <3>2. CASE SetSpeed
      BY <3>2, Zenon DEF SetSpeed, GoTo
    <3> QED BY <1>calls, <3>1, <3>2, Zenon DEF Calls, Read, Write, Probe
  <2>2. Marked("before")'
    BY <2>1, <1>type, DisownSent, DisownReceived, ByFacts DEF Disown, Marked
  <2>3. ~Working'
    BY <2>1 DEF Working
  <2>4. own' = TRUE
    BY <2>1 DEF Disown
  <2>5. Quiet' /\ Fresh' /\ Over' /\ CleanSuccess'
    BY <2>1 DEF Quiet, Fresh, Xfer, Over, CleanSuccess
  <2> QED BY <2>2, <2>3, <2>4, <2>5 DEF Apart, OneOrigin, Worked, OwnBytes
<1>fail. Fail => ret' = "failed" /\ (pc' = "idle" \/ (pc' = "disable" /\ op = "probe"))
  BY DEF Fail, GoTo
\* Nothing is disturbed by a step of the driver alone that gives up.
<1>stop. ASSUME Fail, UNCHANGED <<op, tx, rx, bus, cur, owner, own>> PROVE Apart'
  <2>1. ~Working'
    BY <1>stop, <1>fail DEF Working
  <2>2. OneOrigin' /\ Worked'
    BY <1>stop, <2>1, <1>same, <1>keeps
  <2>3. Quiet' /\ Fresh' /\ Over' /\ OwnBytes' /\ CleanSuccess'
    BY <1>stop, <1>fail, <1>0 DEF Quiet, Fresh, Xfer, Over, OwnBytes, CleanSuccess
  <2> QED BY <2>2, <2>3 DEF Apart
<1>2. CASE WaitActive
  <2>0. UNCHANGED <<op, ending, tx, rx, bus, cur, owner, own>> /\ pc = "bb"
    BY <1>2 DEF WaitActive, controller, history
  <2>1. CASE ~BusFree /\ Spent
    BY <1>2, <2>0, <2>1, <1>stop DEF WaitActive, StillBusy, GaveUp
  <2>2. CASE BusFree \/ ~Spent
    <3>1. pc' \in {"bb", "tfe"} /\ UNCHANGED ret /\ (pc' = "tfe" => bus = "free")
      BY <1>2, <2>2 DEF WaitActive, StillBusy, GoTo, Enter, BusFree
    <3>2. Working' => Working
      BY <2>0, <3>1 DEF Working
    <3>3. OneOrigin' /\ Worked'
      BY <2>0, <3>2, <1>same, <1>keeps
    <3>4. Quiet' /\ Fresh' /\ Over' /\ OwnBytes' /\ CleanSuccess'
      BY <2>0, <3>1, <1>0 DEF Quiet, Fresh, Over, OwnBytes, CleanSuccess
    <3> QED BY <3>3, <3>4 DEF Apart
  <2> QED BY <2>1, <2>2
<1>3. CASE WaitEmpty
  <2>0. UNCHANGED <<op, ending, tx, rx, bus, cur, owner, own>> /\ pc = "tfe"
    BY <1>3 DEF WaitEmpty, controller, history
  <2>1. CASE tx # <<>> /\ Spent
    BY <1>3, <2>0, <2>1, <1>stop DEF WaitEmpty, StillBusy, GaveUp
  <2>2. CASE tx # <<>> /\ ~Spent
    <3>1. pc' = "bb" /\ UNCHANGED ret
      BY <1>3, <2>2 DEF WaitEmpty, StillBusy, Enter
    <3>2. Working' => Working
      BY <2>0, <3>1 DEF Working
    <3>3. OneOrigin' /\ Worked'
      BY <2>0, <3>2, <1>same, <1>keeps
    <3>4. Quiet' /\ Fresh' /\ Over' /\ OwnBytes' /\ CleanSuccess'
      BY <2>0, <3>1, <1>0 DEF Quiet, Fresh, Over, OwnBytes, CleanSuccess
    <3> QED BY <3>3, <3>4 DEF Apart
  <2>3. CASE tx = <<>>
    <3>1. UNCHANGED ret /\ bus = "free" /\ (pc' = "disable" \/ (pc' = "flush" /\ ending))
      BY <1>3, <2>0, <2>3, <1>0 DEF WaitEmpty, GoTo, Quiet
    <3>2. Working' => Working
      BY <2>0, <3>1 DEF Working
    <3>3. OneOrigin' /\ Worked'
      BY <2>0, <3>2, <1>same, <1>keeps
    <3>4. Quiet' /\ Fresh' /\ Over' /\ OwnBytes' /\ CleanSuccess'
      BY <2>0, <2>3, <3>1, <1>0 DEF Quiet, Fresh, Over, OwnBytes, CleanSuccess
    <3> QED BY <3>3, <3>4 DEF Apart
  <2> QED BY <2>1, <2>2, <2>3
<1>4. CASE Disable
  <2>1. pc = "disable" /\ pc' = "disabled" /\ tx' = <<>> /\ rx' = <<>>
        /\ UNCHANGED <<op, ret, bus, cur, owner, own>>
    BY <1>4 DEF Disable, DropAll, Enter, history
  <2>2. \A o \in Origin : Marked(o) => Marked(o)'
    BY <2>1, <1>none DEF Marked
  <2>3. ~Working'
    BY <2>1 DEF Working
  <2>4. OneOrigin' /\ Worked'
    BY <2>2, <2>3, <1>keeps
  <2>5. Quiet' /\ Fresh' /\ Over' /\ OwnBytes' /\ CleanSuccess'
    BY <2>1, <1>0 DEF Quiet, Fresh, Xfer, Over, OwnBytes, CleanSuccess
  <2> QED BY <2>4, <2>5 DEF Apart
<1>5. CASE Disabled
  <2>1. pc = "disabled" /\ pc' \in {"disabled", "enable", "idle"}
        /\ UNCHANGED <<op, ret, tx, rx, bus, cur, owner, own>>
    BY <1>5 DEF Disabled, GoTo, controller, history
  <2>2. ~Working'
    BY <2>1 DEF Working
  <2>3. OneOrigin' /\ Worked'
    BY <2>1, <2>2, <1>same, <1>keeps
  <2>4. Quiet' /\ Fresh' /\ Over' /\ OwnBytes' /\ CleanSuccess'
    BY <2>1, <1>0 DEF Quiet, Fresh, Xfer, Over, OwnBytes, CleanSuccess
  <2> QED BY <2>3, <2>4 DEF Apart
<1>6. CASE Enable
  <2>1. pc = "enable" /\ (pc' = "idle" \/ (pc' = "address" /\ Xfer))
        /\ UNCHANGED <<op, ret, tx, rx, bus, cur, owner, own>>
    BY <1>6 DEF Enable, GoTo, history
  <2>2. Xfer => Marked("this")
    BY <2>1, <1>0, <1>none DEF Fresh, Marked
  <2>3. OneOrigin' /\ (Xfer => Marked("this")')
    BY <2>1, <2>2, <1>0, <1>same DEF OneOrigin, Origin
  <2>4. Worked'
    BY <2>1, <2>3 DEF Worked, Working
  <2>5. Quiet' /\ Fresh' /\ Over' /\ OwnBytes' /\ CleanSuccess'
    BY <2>1, <1>0 DEF Quiet, Fresh, Xfer, Over, OwnBytes, CleanSuccess
  <2> QED BY <2>3, <2>4, <2>5 DEF Apart
\* From here to the flush all that is held is of this call.
<1>work. ASSUME Marked("this")', pc' \in {"address", "read", "write", "stop", "bb"},
                UNCHANGED ret, pc # "idle", own' = TRUE
         PROVE  Apart'
  BY <1>work, <1>0
  DEF Apart, OneOrigin, Worked, Quiet, Fresh, Over, OwnBytes, CleanSuccess
<1>this. Working => Marked("this")
  BY <1>0 DEF Worked
<1>keep. Working /\ UNCHANGED <<tx, rx, bus, cur, owner>> => Marked("this")'
  BY <1>this, <1>same DEF Origin
<1>push. ASSUME NEW r \in BOOLEAN, NEW s \in BOOLEAN, Push(r, s), Working PROVE Marked("this")'
  BY <1>push, <1>this, MarkedPush
<1>own. own = TRUE
  BY <1>0 DEF OwnBytes
<1>7. CASE Address
  <2>0. pc = "address" /\ UNCHANGED <<ret, own>>
    BY <1>7 DEF Address
  <2>w. Working
    BY <2>0 DEF Working
  <2>1. CASE alen > 0
    <3>1. Marked("this")' /\ UNCHANGED pc
      BY <1>7, <2>1, <2>w, <1>push DEF Address
    <3> QED BY <3>1, <2>0, <1>own, <1>work
  <2>2. CASE ~(alen > 0)
    <3>1. pc' \in {"read", "write"} /\ UNCHANGED <<tx, rx, bus, cur, owner>>
      BY <1>7, <2>2 DEF Address, Enter, controller
    <3> QED BY <3>1, <2>0, <2>w, <1>own, <1>keep, <1>work
  <2> QED BY <2>1, <2>2
<1>8. CASE ReadAsk
  <2>1. pc = "read" /\ UNCHANGED <<pc, ret, own>> /\ Working
    BY <1>8 DEF ReadAsk, Working
  <2>2. Marked("this")'
    BY <1>8, <2>1, <1>push DEF ReadAsk
  <2> QED BY <2>1, <2>2, <1>own, <1>work
<1>9. CASE ReadPoll
  <2>0. pc = "read" /\ UNCHANGED <<op, tx, bus, cur, owner>> /\ Working
    BY <1>9 DEF ReadPoll, Working
  <2>1. CASE rx # <<>>
    <3>1. rx' = Tail(rx) /\ UNCHANGED <<pc, ret>> /\ own' = (own /\ Head(rx) = "this")
      BY <1>9, <2>1 DEF ReadPoll
    <3>2. Head(rx) = "this" /\ \A i \in 1 .. Len(Tail(rx)) : Tail(rx)[i] = "this"
      BY <2>0, <2>1, <1>this, <1>type, TailFacts DEF Marked
    <3>3. Marked("this")'
      BY <2>0, <3>1, <3>2, <1>this DEF Marked
    <3>4. own' = TRUE
      BY <3>1, <3>2, <1>own
    <3> QED BY <2>0, <3>1, <3>3, <3>4, <1>work
  <2>2. CASE rx = <<>> /\ Spent
    BY <1>9, <2>0, <2>2, <1>stop DEF ReadPoll
  <2>3. CASE rx = <<>> /\ ~Spent
    <3>1. UNCHANGED <<pc, ret, rx, own>>
      BY <1>9, <2>3 DEF ReadPoll
    <3> QED BY <2>0, <3>1, <1>own, <1>keep, <1>work
  <2> QED BY <2>1, <2>2, <2>3
<1>10. CASE WriteByte
  <2>0. pc = "write" /\ UNCHANGED <<op, own>> /\ Working
    BY <1>10 DEF WriteByte, Working
  <2>1. CASE Room
    <3>1. UNCHANGED <<pc, ret>> /\ Marked("this")'
      BY <1>10, <2>0, <2>1, <1>push DEF WriteByte
    <3> QED BY <2>0, <3>1, <1>own, <1>work
  <2>2. CASE ~Room
    <3>1. UNCHANGED <<tx, rx, bus, cur, owner>>
      BY <1>10, <2>2 DEF WriteByte, controller
    <3>2. CASE Spent
      BY <1>10, <2>0, <2>2, <3>1, <3>2, <1>stop DEF WriteByte
    <3>3. CASE ~Spent
      BY <1>10, <2>0, <2>2, <3>1, <3>3, <1>own, <1>keep, <1>work DEF WriteByte
    <3> QED BY <3>2, <3>3
  <2> QED BY <2>1, <2>2
<1>11. CASE Finish
  <2>1. pc \in {"read", "write"} /\ pc' = "stop" /\ UNCHANGED <<ret, tx, rx, bus, cur, owner, own>>
    BY <1>11 DEF Finish, Enter, controller, history
  <2>2. Working
    BY <2>1 DEF Working
  <2> QED BY <2>1, <2>2, <1>own, <1>keep, <1>work
<1>12. CASE WaitStop
  <2>1. pc = "stop" /\ pc' \in {"stop", "bb"} /\ UNCHANGED <<ret, tx, rx, bus, cur, owner, own>>
    BY <1>12 DEF WaitStop, Enter, history
  <2>2. Working
    BY <2>1 DEF Working
  <2> QED BY <2>1, <2>2, <1>own, <1>keep, <1>work
<1>13. CASE Flush
  <2>1. pc = "flush" /\ pc' = "idle" /\ rx' = <<>> /\ UNCHANGED <<op, tx, bus, cur, owner, own>>
    BY <1>13 DEF Flush, Return, history
  <2>2. \A o \in Origin : Marked(o) => Marked(o)'
    BY <2>1, <1>none DEF Marked
  <2>3. ~Working'
    BY <2>1 DEF Working
  <2>4. OneOrigin' /\ Worked'
    BY <2>2, <2>3, <1>keeps
  <2>5. Quiet' /\ Fresh' /\ Over' /\ OwnBytes' /\ CleanSuccess'
    BY <2>1, <1>0 DEF Quiet, Fresh, Over, OwnBytes, CleanSuccess
  <2> QED BY <2>4, <2>5 DEF Apart
<1>14. CASE Controller
  <2>0. UNCHANGED <<pc, op, ending, ret, own>>
    BY <1>14 DEF Controller, Begin, Take, Answer, Refuse, GiveBus, Stop, driver, history
  <2>1. \A o \in Origin : Marked(o) => Marked(o)'
    BY <1>14, MarkedController
  <2>2. OneOrigin' /\ Worked'
    BY <2>0, <2>1, <1>keeps DEF Working
  \* A free bus with nothing to send stays so, and nothing comes in.
  <2>3. bus = "free" /\ tx = <<>> => UNCHANGED <<tx, rx, bus>>
    BY <1>14 DEF Controller, Begin, Take, Answer, Refuse, GiveBus, Stop
  \* At the second read of the status the first is not outdated.
  <2>4. Quiet'
    <3>1. CASE pc = "tfe"
      <4>1. ~Take
        BY <3>1 DEF Take
      <4>2. bus = "free" => ~Refuse /\ ~Answer /\ ~GiveBus /\ ~Stop
        BY DEF Refuse, Answer, GiveBus, Stop
      <4>3. bus # "byte" => ~Refuse /\ ~Answer
        BY DEF Refuse, Answer
      <4>4. Begin \/ GiveBus \/ Stop
        BY <1>14, <1>0, <3>1, <4>1, <4>2, <4>3 DEF Controller, Quiet
      <4> QED BY <4>4, <1>0, <3>1 DEF Begin, GiveBus, Stop, Quiet
    <3>2. CASE pc # "tfe"
      BY <2>0, <3>2 DEF Quiet
    <3> QED BY <3>1, <3>2
  <2>5. Fresh' /\ Over' /\ OwnBytes' /\ CleanSuccess'
    BY <2>0, <2>3, <1>0 DEF Fresh, Xfer, Over, OwnBytes, CleanSuccess
  <2> QED BY <2>2, <2>4, <2>5 DEF Apart
<1>15. CASE UNCHANGED vars
  <2>0. UNCHANGED <<pc, op, ending, ret, tx, rx, bus, cur, owner, own>>
    BY <1>15 DEF vars, driver, controller, history
  <2>1. OneOrigin' /\ Worked'
    BY <2>0, <1>same, <1>keeps DEF Working
  <2>2. Quiet' /\ Fresh' /\ Over' /\ OwnBytes' /\ CleanSuccess'
    BY <2>0, <1>0 DEF Quiet, Fresh, Xfer, Over, OwnBytes, CleanSuccess
  <2> QED BY <2>1, <2>2 DEF Apart
<1> QED
  BY <1>calls, <1>2, <1>3, <1>4, <1>5, <1>6, <1>7, <1>8, <1>9, <1>10, <1>11, <1>12, <1>13,
     <1>14, <1>15
  DEF Next, Driver

LEMMA ApartInit == Init => Apart
<1>1. Len(<<>>) = 0
  BY EmptyFacts
<1> QED
  BY <1>1
  DEF Init, Apart, OneOrigin, Marked, Worked, Working, Quiet, Fresh, Xfer, Over, OwnBytes, CleanSuccess

LEMMA AlwaysApart == ASSUME ~Interrupted PROVE Spec => []Apart
<1>1. TypeOK /\ Apart /\ [Next]_vars => Apart'
  BY ApartStep
<1>2. Spec => []TypeOK
  BY TypeCorrect
<1> QED BY <1>1, <1>2, ApartInit, PTL DEF Spec

\* No read takes a byte that a call before it asked for (__dw_i2c_read), whatever
\* the lengths, the depth of the FIFOs and the counts of the polls.
THEOREM OwnBytesOnly == ASSUME ~Interrupted PROVE Spec => []OwnBytes
<1>1. Apart => OwnBytes
  BY DEF Apart
<1> QED BY <1>1, AlwaysApart, PTL

\* No call goes on with a transfer that one before it has left on the bus
\* (i2c_wait_for_bb, i2c_setaddress).
THEOREM NeverMixed == ASSUME ~Interrupted PROVE Spec => []OneCallPerTransfer
<1>1. Apart => OneCallPerTransfer
  BY DEF Apart, OneOrigin, Marked, OneCallPerTransfer
<1> QED BY <1>1, AlwaysApart, PTL

\* Success leaves a free bus and empty FIFOs (i2c_xfer_finish).
THEOREM SuccessIsClean == ASSUME ~Interrupted PROVE Spec => []CleanSuccess
<1>1. Apart => CleanSuccess
  BY DEF Apart
<1> QED BY <1>1, AlwaysApart, PTL
=============================================================================
