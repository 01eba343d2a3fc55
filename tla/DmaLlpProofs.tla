---------------------------- MODULE DmaLlpProofs ----------------------------
(***************************************************************************)
(* What the GDMA driver guarantees for any number of channels, any block   *)
(* size and any lengths, whether or not the engine is prompt, the bus      *)
(* fails, or the controller is initialised again under a transfer: types,  *)
(* the inductive invariant with what follows from it, and the refinement   *)
(* of DmaCopy.                                                             *)
(***************************************************************************)
EXTENDS DmaLlp, TLAPS

USE MaxChanAssumption, BlockMaxAssumption, LengthsAssumption, SwitchAssumption

LEMMA InitType == Init => TypeOK
<1> SUFFICES ASSUME Init PROVE TypeOK
  OBVIOUS
<1>1. 0 \in Chan /\ 0 \in Desc
  BY DEF Chan, Desc
<1>2. Blank \in Block /\ [off |-> 0, left |-> 0] \in Slot /\ "READY" \in Status
  BY DEF Blank, Block, Slot, Status
<1>3. isr \in [at : {"none", "handle", "wait"}, ch : Chan, seen : SUBSET Event]
  BY <1>1 DEF Init, NoIsr
<1>4. runAt \in 0 .. MaxChan
  BY DEF Init
<1>5. QED
  BY <1>1, <1>2, <1>3, <1>4 DEF Init, TypeOK

\* What one slot of a transfer turns into keeps its type.
LEMMA SlotTypes ==
  ASSUME NEW t \in Slot
  PROVE  Fill(t) \in Block /\ After(t) \in Slot /\ MarkFor(t.left) \in Status
BY DEF Slot, Block, Fill, After, Slice, Beats, MarkFor, Status, PtrStep

LEMMA AcceptType ==
  ASSUME TypeOK, NEW c \in Chan, NEW n \in Nat, Accept(c, n)
  PROVE  /\ lli' \in [Chan -> [Desc -> Block]]
         /\ stat' \in [Chan -> [Desc -> Status]]
         /\ todo' \in [Chan -> [Desc -> Slot]]
         /\ cur' \in [Chan -> Desc] /\ llp' \in [Chan -> Desc]
         /\ eng' \in [Chan -> {"off", "fetch", "copy", "halt", "end", "stop"}]
         /\ want' \in [Chan -> Nat] /\ moved' \in [Chan -> Nat]
         /\ image' \in [Chan -> SUBSET Nat]
         /\ UNCHANGED <<blk, ints, finished>>
<1> DEFINE t == [off |-> 0, left |-> n]
<1>1. t \in Slot /\ t.left = n
  BY DEF Slot
<1>2. Fill(t) \in Block /\ After(t) \in Slot /\ MarkFor(n) \in Status
  BY <1>1, SlotTypes
<1>3. Blank \in Block
  BY DEF Blank, Block
<1>4. cur[c] \in Desc /\ Other(cur[c]) \in Desc
  BY DEF TypeOK, Desc, Other
<1>5. Beats(n) \in Nat
  BY DEF Beats
<1> HIDE DEF t
<1>6. QED
  BY <1>2, <1>3, <1>4, <1>5 DEF Accept, TypeOK, t
-----------------------------------------------------------------------------
\* The engine's steps keep the types.
LEMMA EngineType ==
  ASSUME TypeOK, NEW c \in Chan, Engine(c) \/ EngineError(c)
  PROVE  TypeOK'
<1>1. CASE EngineFetch(c)
  <2>1. lli[c][llp[c]] \in Block
    BY DEF TypeOK
  <2>2. Other(llp[c]) \in Desc
    <3>1. llp[c] \in Desc
      BY DEF TypeOK
    <3>2. QED
      BY <3>1 DEF Desc, Other
  <2>3. ints[c] \cup {"INV"} \in SUBSET Event
    BY DEF TypeOK, Event
  <2>4. CASE lli[c][llp[c]].valid
    <3>1. /\ blk' = [blk EXCEPT ![c] = lli[c][llp[c]]]
          /\ llp' = [llp EXCEPT ![c] = Other(llp[c])]
          /\ eng' = [eng EXCEPT ![c] = "copy"]
          /\ UNCHANGED ints
      BY <1>1, <2>4 DEF EngineFetch
    <3>2. blk' \in [Chan -> Block] /\ llp' \in [Chan -> Desc]
      BY <2>1, <2>2, <3>1 DEF TypeOK
    <3>3. QED
      BY <1>1, <3>1, <3>2 DEF TypeOK, EngineFetch, drvVars, histVars, mainVars
  <2>5. CASE ~lli[c][llp[c]].valid
    <3>1. /\ ints' = [ints EXCEPT ![c] = ints[c] \cup {"INV"}]
          /\ eng' = [eng EXCEPT ![c] = "halt"]
          /\ UNCHANGED <<blk, llp>>
      BY <1>1, <2>5 DEF EngineFetch
    <3>2. QED
      BY <1>1, <2>3, <3>1 DEF TypeOK, EngineFetch, drvVars, histVars, mainVars
  <2>6. QED
    BY <2>4, <2>5
<1>2. CASE EngineCopy(c)
  <2>1. moved[c] + blk[c].len \in Nat
    BY DEF TypeOK, Block
  <2>2. image[c] \cup (blk[c].off .. blk[c].off + blk[c].len - 1) \in SUBSET Nat
    BY DEF TypeOK, Block
  <2>3. ints[c] \cup {"BLOCK"} \in SUBSET Event
    BY DEF TypeOK, Event
  <2>4. QED
    BY <1>2, <2>1, <2>2, <2>3 DEF TypeOK, EngineCopy, drvVars, mainVars
<1>3. CASE EngineEnd(c)
  BY <1>3 DEF TypeOK, EngineEnd, Event, drvVars, histVars, mainVars
<1>4. CASE EngineStop(c)
  BY <1>4 DEF TypeOK, EngineStop, drvVars, histVars, mainVars
<1>5. CASE EngineError(c)
  BY <1>5 DEF TypeOK, EngineError, Event, drvVars, histVars, mainVars
<1>6. QED
  BY <1>1, <1>2, <1>3, <1>4, <1>5 DEF Engine

\* So do the handler's.
LEMMA HandlerType ==
  ASSUME TypeOK, NEW c \in Chan, IsrEnter(c) \/ IsrBody(c)
  PROVE  TypeOK'
<1>1. CASE IsrEnter(c)
  BY <1>1 DEF TypeOK, IsrEnter, drvVars, hwVars, histVars, mainVars
<1>2. CASE IsrDone(c)
  BY <1>2 DEF TypeOK, IsrDone, MarkBoth, ClearInts, Status, histVars, mainVars
<1>3. CASE IsrError(c)
  BY <1>3 DEF TypeOK, IsrError, MarkBoth, ClearInts, Status, histVars, mainVars
<1>4. CASE IsrRefill(c)
  <2> DEFINE d == cur[c]
             t == todo[c][d]
  <2>1. d \in Desc /\ Other(d) \in Desc /\ t \in Slot
    BY DEF TypeOK, Desc, Other
  <2>2. Fill(t) \in Block /\ After(t) \in Slot /\ MarkFor(t.left) \in Status
    BY <2>1, SlotTypes
  <2>3. Refill(c, d) \in [Desc -> Block]
    BY <2>2 DEF Refill, Blank, Block
  <2>4. Resume(eng[c]) \in {"off", "fetch", "copy", "halt", "end", "stop"}
    BY DEF TypeOK, Resume
  <2>5. isr' \in [at : {"none", "handle", "wait"}, ch : Chan, seen : SUBSET Event]
    BY <1>4 DEF IsrRefill, NoIsr, Chan
  <2> HIDE DEF d, t
  <2>6. QED
    BY <1>4, <2>1, <2>2, <2>3, <2>4, <2>5
    DEF TypeOK, IsrRefill, ClearInts, histVars, mainVars, d, t
<1>5. CASE IsrNothing(c)
  <2>1. isr' \in [at : {"none", "handle", "wait"}, ch : Chan, seen : SUBSET Event]
    BY <1>5 DEF IsrNothing, NoIsr, Chan
  <2>2. QED
    BY <1>5, <2>1 DEF TypeOK, IsrNothing, ClearInts, drvVars, histVars, mainVars
<1>6. CASE IsrExit(c)
  <2>1. isr' \in [at : {"none", "handle", "wait"}, ch : Chan, seen : SUBSET Event]
    BY <1>6 DEF IsrExit, NoIsr, Chan
  <2>2. QED
    BY <1>6, <2>1 DEF TypeOK, IsrExit, drvVars, hwVars, histVars, mainVars
<1>7. QED
  BY <1>1, <1>2, <1>3, <1>4, <1>5, <1>6 DEF IsrBody

\* And the commands.
LEMMA CommandType ==
  ASSUME TypeOK, Commands
  PROVE  TypeOK'
<1>1. ASSUME NEW c \in Chan, NEW n \in Lengths, Start(c, n)
      PROVE  TypeOK'
  <2>1. CASE Accept(c, n)
    BY <1>1, <2>1, AcceptType DEF TypeOK, Start
  <2>2. CASE Refuse(c)
    BY <1>1, <2>2 DEF TypeOK, Start, Refuse, drvVars, hwVars, histVars
  <2>3. QED
    BY <1>1, <2>1, <2>2 DEF Start, Memcpy
<1>2. CASE RunBegin
  BY <1>2 DEF TypeOK, RunBegin, drvVars, hwVars, histVars
<1>3. ASSUME NEW n \in Lengths \cup {0}, RunSkip(n)
      PROVE  TypeOK'
  BY <1>3 DEF TypeOK, RunSkip, drvVars, hwVars, histVars
<1>4. ASSUME NEW n \in Lengths \cup {0}, RunChannel(n)
      PROVE  TypeOK'
  <2>1. runAt \in Chan /\ runAt + 1 \in 0 .. MaxChan /\ n \in Nat
    BY <1>4 DEF TypeOK, RunChannel, Chan
  <2>2. CASE Accept(runAt, n)
    BY <1>4, <2>1, <2>2, AcceptType DEF TypeOK, RunChannel
  <2>3. CASE Refuse(runAt)
    BY <1>4, <2>1, <2>3 DEF TypeOK, RunChannel, Refuse, drvVars, hwVars, histVars
  <2>4. QED
    BY <1>4, <2>2, <2>3 DEF RunChannel, Memcpy
<1>5. CASE HwInit
  BY <1>5 DEF TypeOK, HwInit, Reset, drvVars, histVars
<1>6. CASE HwInitTimeout
  BY <1>6 DEF TypeOK, HwInitTimeout, Reset, drvVars, histVars
<1>7. ASSUME NEW c \in Chan, FlagClear(c)
      PROVE  TypeOK'
  BY <1>7 DEF TypeOK, FlagClear, drvVars, hwVars, histVars, mainVars
<1>8. QED
  BY <1>1, <1>2, <1>3, <1>4, <1>5, <1>6, <1>7 DEF Commands, RunStep

LEMMA StutterType == TypeOK /\ UNCHANGED vars => TypeOK'
BY DEF TypeOK, vars, drvVars, hwVars, histVars, mainVars

\* Every variable keeps its type.
THEOREM TypeCorrect == Spec => []TypeOK
<1>1. Init => TypeOK
  BY InitType
<1>2. TypeOK /\ [Next]_vars => TypeOK'
  BY EngineType, HandlerType, CommandType, StutterType DEF Next, Hardware, Handler
<1>3. QED
  BY <1>1, <1>2, PTL DEF Spec
-----------------------------------------------------------------------------
(***************************************************************************)
(* The inductive invariant.                                                *)
(*                                                                         *)
(* Idea: a channel whose engine is at work always has exactly one block    *)
(* prepared or held, that of the words due next, and the record of the     *)
(* other descriptor tells what comes after it (EngineInv).  The handler    *)
(* runs with events that are still pending (IsrInv), and a pending event   *)
(* tells where the engine stands (EventInv).                               *)
(***************************************************************************)

\* The block of a slot with words left, and the slot that follows it.
LEMMA BlockFacts ==
  ASSUME NEW w \in Nat, NEW m \in Nat, m < w,
         NEW t, t = [off |-> PtrStep * m, left |-> w - m]
  PROVE  /\ Fill(t).valid
         /\ Fill(t).off = PtrStep * m
         /\ Fill(t).len = Slice(w - m)
         /\ Fill(t).len \in Nat
         /\ m + Fill(t).len <= w
         /\ Fill(t).last <=> m + Fill(t).len = w
         /\ Fill(t).last <=> t.left <= BlockMax
         /\ After(t) = [off  |-> PtrStep * (m + Fill(t).len),
                        left |-> w - (m + Fill(t).len)]
<1>1. /\ t.off = 2 * m /\ t.left = w - m /\ t.left \in Nat /\ t.left > 0
      /\ PtrStep = 2
  BY DEF PtrStep
<1>2. CASE t.left > BlockMax
  <2>1. Slice(t.left) = BlockMax /\ Beats(BlockMax) = BlockMax /\ (t.left <= BlockMax) = FALSE
    BY <1>1, <1>2 DEF Slice, Beats
  <2>2. Fill(t) = [valid |-> TRUE, off |-> 2 * m, len |-> BlockMax, last |-> FALSE]
    BY <1>1, <1>2, <2>1 DEF Fill
  <2>3. After(t) = [off |-> 2 * m + 2 * BlockMax, left |-> w - m - BlockMax]
    BY <1>1, <2>1 DEF After
  <2>4. QED
    BY <1>1, <1>2, <2>1, <2>2, <2>3
<1>3. CASE t.left <= BlockMax
  <2>1. Slice(t.left) = t.left /\ Beats(t.left) = t.left
    BY <1>1, <1>3 DEF Slice, Beats
  <2>2. Fill(t) = [valid |-> TRUE, off |-> 2 * m, len |-> w - m, last |-> TRUE]
    BY <1>1, <1>3, <2>1 DEF Fill
  <2>3. After(t) = [off |-> 2 * m + 2 * (w - m), left |-> 0]
    BY <1>1, <2>1 DEF After
  <2>4. QED
    BY <1>1, <1>3, <2>1, <2>2, <2>3
<1>4. QED
  BY <1>1, <1>2, <1>3

\* Nothing the invariant says of channel e has changed but for the handler.
SameChannel(e) ==
  /\ eng'[e] = eng[e] /\ llp'[e] = llp[e] /\ blk'[e] = blk[e] /\ ints'[e] = ints[e]
  /\ cur'[e] = cur[e] /\ stat'[e] = stat[e] /\ todo'[e] = todo[e] /\ lli'[e] = lli[e]
  /\ want'[e] = want[e] /\ moved'[e] = moved[e]

LEMMA Frame ==
  ASSUME NEW e \in Chan, SameChannel(e), EngineInv(e), EventInv(e), StatusInv(e),
         eng[e] = "stop" /\ isr.at = "wait" /\ isr.ch = e => isr'.at = "wait" /\ isr'.ch = e
  PROVE  EngineInv(e)' /\ EventInv(e)' /\ StatusInv(e)'
<1>1. EngineInv(e)'
  BY DEF SameChannel, EngineInv, HasNext, AwaitsRefill, HoldsNext, Recorded, Position, Busy, Idle
<1>2. EventInv(e)'
  BY DEF SameChannel, EventInv
<1>3. StatusInv(e)'
  BY DEF SameChannel, StatusInv, Done, Idle
<1>4. QED
  BY <1>1, <1>2, <1>3

\* One channel is stepped, the others stay.
LEMMA OneChannel ==
  ASSUME ChanInv, NEW c \in Chan,
         \A e \in Chan \ {c} : SameChannel(e),
         \A e \in Chan \ {c} : eng[e] = "stop" /\ isr.at = "wait" /\ isr.ch = e
                                 => isr'.at = "wait" /\ isr'.ch = e,
         EngineInv(c)', EventInv(c)', StatusInv(c)'
  PROVE  ChanInv'
<1>1. ASSUME NEW e \in Chan \ {c}
      PROVE  EngineInv(e)' /\ EventInv(e)' /\ StatusInv(e)'
  BY <1>1, Frame DEF ChanInv
<1>2. Chan' = Chan
  BY DEF Chan
<1>3. QED
  BY <1>1, <1>2 DEF ChanInv

LEMMA TwoDesc == \A d \in Desc : Other(d) \in Desc /\ Other(d) # d /\ Other(Other(d)) = d
BY DEF Desc, Other

LEMMA AllSlots == \A d, e \in Desc : e = d \/ e = Other(d)
BY DEF Desc, Other
-----------------------------------------------------------------------------
(* The engine.                                                             *)

LEMMA FetchInv ==
  ASSUME TypeOK, ChanInv, IsrInv, NEW c \in Chan, EngineFetch(c)
  PROVE  ChanInv' /\ IsrInv'
<1> USE DEF drvVars, histVars, mainVars
<1>1. moved[c] \in Nat /\ want[c] \in Nat /\ llp[c] \in Desc /\ cur[c] \in Desc
  BY DEF TypeOK
<1>2. /\ EngineInv(c) /\ EventInv(c) /\ StatusInv(c) /\ eng[c] = "fetch"
      /\ moved[c] < want[c] /\ Busy(c) /\ (HasNext(c) \/ AwaitsRefill(c))
  BY DEF ChanInv, EngineInv, EngineFetch
<1>3. /\ Position(c)' = Position(c) /\ Busy(c)' /\ ~Idle(c)' /\ ~Done(c)'
      /\ UNCHANGED <<cur, stat, todo, lli, want, moved, isr>>
  BY <1>2 DEF EngineFetch, Position, Busy, Idle, Done, Free, Desc
<1>4. Fill(Position(c)).valid
  BY <1>1, <1>2, BlockFacts DEF Position
<1>5. CASE lli[c][llp[c]].valid
  <2>1. /\ blk' = [blk EXCEPT ![c] = lli[c][llp[c]]]
        /\ llp' = [llp EXCEPT ![c] = Other(llp[c])]
        /\ eng' = [eng EXCEPT ![c] = "copy"]
        /\ UNCHANGED ints
    BY <1>5 DEF EngineFetch
  <2>2. blk'[c] = lli[c][llp[c]] /\ llp'[c] = Other(llp[c]) /\ eng'[c] = "copy"
    BY <2>1 DEF TypeOK
  <2>3. HasNext(c)
    BY <1>2, <1>5 DEF AwaitsRefill
  <2>4. HoldsNext(c)'
    BY <1>1, <1>3, <2>2, <2>3, TwoDesc DEF HasNext, HoldsNext, Recorded
  <2>5. EngineInv(c)' /\ EventInv(c)' /\ StatusInv(c)'
    BY <1>2, <1>3, <2>1, <2>2, <2>4 DEF EngineInv, EventInv, StatusInv
  <2>6. \A e \in Chan \ {c} : SameChannel(e)
    BY <1>3, <2>1 DEF SameChannel, TypeOK
  <2>7. QED
    BY <1>3, <2>1, <2>5, <2>6, OneChannel DEF IsrInv, Busy, Idle
<1>6. CASE ~lli[c][llp[c]].valid
  <2>1. /\ ints' = [ints EXCEPT ![c] = ints[c] \cup {"INV"}]
        /\ eng' = [eng EXCEPT ![c] = "halt"]
        /\ UNCHANGED <<blk, llp>>
    BY <1>6 DEF EngineFetch
  <2>2. ints'[c] = ints[c] \cup {"INV"} /\ eng'[c] = "halt"
    BY <2>1 DEF TypeOK
  <2>3. AwaitsRefill(c)
    BY <1>2, <1>4, <1>6 DEF HasNext
  <2>4. AwaitsRefill(c)'
    BY <1>3, <2>1, <2>3 DEF AwaitsRefill
  <2>5. EngineInv(c)' /\ EventInv(c)' /\ StatusInv(c)'
    BY <1>2, <1>3, <2>1, <2>2, <2>4 DEF EngineInv, EventInv, StatusInv
  <2>6. \A e \in Chan \ {c} : SameChannel(e)
    BY <1>3, <2>1 DEF SameChannel, TypeOK
  <2>7. \A e \in Chan : ints[e] \subseteq ints'[e]
    BY <2>1 DEF TypeOK
  <2>8. QED
    BY <1>3, <2>5, <2>6, <2>7, OneChannel DEF IsrInv, Busy, Idle, TypeOK
<1>7. QED
  BY <1>5, <1>6

LEMMA CopyInv ==
  ASSUME TypeOK, ChanInv, IsrInv, NEW c \in Chan, EngineCopy(c)
  PROVE  ChanInv' /\ IsrInv'
<1> DEFINE n == blk[c].len
<1>1. moved[c] \in Nat /\ want[c] \in Nat
  BY DEF TypeOK
<1>2. /\ EngineInv(c) /\ EventInv(c) /\ StatusInv(c) /\ eng[c] = "copy"
      /\ moved[c] < want[c] /\ Busy(c) /\ HoldsNext(c)
  BY DEF ChanInv, EngineInv, EngineCopy
<1>3. /\ Busy(c)' /\ ~Idle(c)' /\ ~Done(c)'
      /\ UNCHANGED <<cur, stat, todo, lli, llp, blk, want, isr>>
  BY <1>2 DEF EngineCopy, Busy, Idle, Done, Free, Desc, drvVars
<1>4. /\ moved' = [moved EXCEPT ![c] = moved[c] + n]
      /\ ints' = [ints EXCEPT ![c] = ints[c] \cup {"BLOCK"}]
      /\ eng' = [eng EXCEPT ![c] = IF blk[c].last THEN "end" ELSE "fetch"]
  BY DEF EngineCopy
<1>5. /\ moved'[c] = moved[c] + n /\ ints'[c] = ints[c] \cup {"BLOCK"}
      /\ eng'[c] = IF blk[c].last THEN "end" ELSE "fetch"
  BY <1>4 DEF TypeOK
<1>6. /\ n \in Nat /\ moved[c] + n <= want[c]
      /\ blk[c].last <=> moved[c] + n = want[c]
      /\ blk[c].last <=> Position(c).left <= BlockMax
      /\ Position(c).left \in Nat
      /\ After(Position(c)) = [off |-> PtrStep * (moved[c] + n), left |-> want[c] - (moved[c] + n)]
  BY <1>1, <1>2, BlockFacts DEF HoldsNext, Position
<1>7. After(Position(c)) = Position(c)'
  BY <1>3, <1>5, <1>6 DEF Position
<1>8. ~blk[c].last => AwaitsRefill(c)'
  <2>1. ~blk[c].last => todo[c][cur[c]] = After(Position(c))
    BY <1>2, <1>6 DEF HoldsNext, Recorded
  <2>2. QED
    BY <1>2, <1>3, <1>7, <2>1 DEF HoldsNext, AwaitsRefill
<1>9. EngineInv(c)'
  <2>1. CASE blk[c].last
    BY <1>3, <1>5, <1>6, <2>1 DEF EngineInv
  <2>2. CASE ~blk[c].last
    BY <1>1, <1>3, <1>5, <1>6, <1>8, <2>2 DEF EngineInv
  <2>3. QED
    BY <2>1, <2>2
<1>10. EventInv(c)' /\ StatusInv(c)'
  BY <1>2, <1>3, <1>5 DEF EventInv, StatusInv
<1>11. \A e \in Chan \ {c} : SameChannel(e)
  BY <1>3, <1>4 DEF SameChannel, TypeOK
<1>12. \A e \in Chan : ints[e] \subseteq ints'[e]
  BY <1>4 DEF TypeOK
<1>13. QED
  BY <1>3, <1>9, <1>10, <1>11, <1>12, OneChannel DEF IsrInv, Busy, Idle, TypeOK

\* The end of the transfer, a bus error, and the channel going off.
LEMMA FinishInv ==
  ASSUME TypeOK, ChanInv, IsrInv, NEW c \in Chan,
         EngineEnd(c) \/ EngineError(c) \/ EngineStop(c)
  PROVE  ChanInv' /\ IsrInv'
<1>1. EngineInv(c) /\ EventInv(c) /\ StatusInv(c)
  BY DEF ChanInv
<1>2. UNCHANGED <<cur, stat, todo, lli, llp, blk, want, moved, isr>>
  BY DEF EngineEnd, EngineError, EngineStop, drvVars, histVars
<1>3. (Idle(c)' <=> Idle(c)) /\ (Done(c)' <=> Done(c)) /\ (Busy(c) <=> ~Idle(c))
  BY <1>2 DEF Idle, Done, Busy
<1>4. CASE EngineEnd(c)
  <2>1. /\ eng' = [eng EXCEPT ![c] = "stop"] /\ eng[c] = "end"
        /\ ints' = [ints EXCEPT ![c] = ints[c] \cup {"DONE"}]
    BY <1>4 DEF EngineEnd
  <2>2. eng'[c] = "stop" /\ ints'[c] = ints[c] \cup {"DONE"}
    BY <2>1 DEF TypeOK
  <2>3. ~Idle(c) /\ moved[c] = want[c]
    BY <1>1, <1>3, <2>1 DEF EngineInv
  <2>4. EngineInv(c)' /\ EventInv(c)' /\ StatusInv(c)'
    BY <1>1, <1>2, <1>3, <2>1, <2>2, <2>3 DEF EngineInv, EventInv, StatusInv
  <2>5. \A e \in Chan \ {c} : SameChannel(e)
    BY <1>2, <2>1 DEF SameChannel, TypeOK
  <2>6. \A e \in Chan : ints[e] \subseteq ints'[e]
    BY <2>1 DEF TypeOK
  <2>7. QED
    BY <1>2, <2>4, <2>5, <2>6, OneChannel DEF IsrInv, Busy, Idle, TypeOK
<1>5. CASE EngineError(c)
  <2>1. /\ eng' = [eng EXCEPT ![c] = "stop"] /\ eng[c] = "copy"
        /\ ints' = [ints EXCEPT ![c] = ints[c] \cup {"ERR"}]
    BY <1>5 DEF EngineError
  <2>2. eng'[c] = "stop" /\ ints'[c] = ints[c] \cup {"ERR"}
    BY <2>1 DEF TypeOK
  <2>3. ~Idle(c) /\ ~Done(c)
    BY <1>1, <1>3, <2>1 DEF EngineInv, Idle, Done, Free
  <2>4. EngineInv(c)' /\ EventInv(c)' /\ StatusInv(c)'
    BY <1>1, <1>2, <1>3, <2>1, <2>2, <2>3 DEF EngineInv, EventInv, StatusInv
  <2>5. \A e \in Chan \ {c} : SameChannel(e)
    BY <1>2, <2>1 DEF SameChannel, TypeOK
  <2>6. \A e \in Chan : ints[e] \subseteq ints'[e]
    BY <2>1 DEF TypeOK
  <2>7. QED
    BY <1>2, <2>4, <2>5, <2>6, OneChannel DEF IsrInv, Busy, Idle, TypeOK
<1>6. CASE EngineStop(c)
  <2>1. eng' = [eng EXCEPT ![c] = "off"] /\ eng[c] = "stop" /\ UNCHANGED ints
    BY <1>6 DEF EngineStop
  <2>2. eng'[c] = "off"
    BY <2>1 DEF TypeOK
  <2>3. EngineInv(c)' /\ EventInv(c)' /\ StatusInv(c)'
    BY <1>1, <1>2, <1>3, <2>1, <2>2 DEF EngineInv, EventInv, StatusInv
  <2>4. \A e \in Chan \ {c} : SameChannel(e)
    BY <1>2, <2>1 DEF SameChannel, TypeOK
  <2>5. QED
    BY <1>2, <2>1, <2>3, <2>4, OneChannel DEF IsrInv, Busy, Idle
<1>7. QED
  BY <1>4, <1>5, <1>6
-----------------------------------------------------------------------------
(* The handler.                                                            *)

LEMMA EnterInv ==
  ASSUME TypeOK, ChanInv, IsrInv, NEW c \in Chan, IsrEnter(c)
  PROVE  ChanInv' /\ IsrInv'
<1> USE DEF drvVars, hwVars, histVars, mainVars
<1>1. /\ isr.at = "none" /\ ints[c] # {}
      /\ isr' = [at |-> "handle", ch |-> c, seen |-> ints[c]]
      /\ UNCHANGED <<cur, stat, todo, lli, eng, llp, blk, ints, want, moved>>
  BY DEF IsrEnter, MainRuns
<1>2. Busy(c)
  BY <1>1 DEF ChanInv, StatusInv, Busy
<1>3. Busy(c)'
  BY <1>1, <1>2 DEF Busy, Idle
<1>4. IsrInv'
  BY <1>1, <1>3 DEF IsrInv
<1>5. \A e \in Chan : SameChannel(e)
  BY <1>1 DEF SameChannel
<1>6. EngineInv(c)' /\ EventInv(c)' /\ StatusInv(c)'
  BY <1>1, <1>5, Frame DEF ChanInv
<1>7. QED
  BY <1>1, <1>4, <1>5, <1>6, OneChannel

\* The two ways a handler ends a transfer: both descriptors become free and
\* the handler goes on to wait for the channel.
LEMMA EndInv ==
  ASSUME TypeOK, ChanInv, IsrInv, NEW c \in Chan, IsrDone(c) \/ IsrError(c)
  PROVE  ChanInv' /\ IsrInv'
<1> USE DEF histVars, mainVars
<1>1. /\ isr.at = "handle" /\ isr.ch = c
      /\ isr' = [isr EXCEPT !.at = "wait"]
      /\ ints' = [ints EXCEPT ![c] = {}]
      /\ UNCHANGED <<cur, todo, lli, eng, llp, blk, want, moved>>
  BY DEF IsrDone, IsrError, ClearInts
<1>2. /\ isr'.at = "wait" /\ isr'.ch = c /\ isr'.seen = isr.seen
      /\ ints'[c] = {}
  BY <1>1 DEF TypeOK
<1>3. /\ "DONE" \in isr.seen \/ "ERR" \in isr.seen
      /\ isr.seen \subseteq ints[c]
  BY <1>1 DEF IsrDone, IsrError, Verdict, IsrInv
<1>4. eng[c] \in {"stop", "off"}
  BY <1>3 DEF ChanInv, EventInv
<1>5. Idle(c)' /\ (Done(c)' => moved[c] = want[c])
  <2>1. CASE IsrDone(c)
    <3>1. "DONE" \in ints[c]
      BY <1>3, <2>1 DEF IsrDone, Verdict
    <3>2. moved[c] = want[c]
      BY <3>1 DEF ChanInv, EventInv
    <3>3. stat'[c] = [d \in Desc |-> "FINISH"]
      BY <2>1 DEF IsrDone, MarkBoth, TypeOK
    <3>4. QED
      BY <3>2, <3>3 DEF Idle, Free
  <2>2. CASE IsrError(c)
    <3>1. stat'[c] = [d \in Desc |-> "READY"]
      BY <2>2 DEF IsrError, MarkBoth, TypeOK
    <3>2. QED
      BY <3>1 DEF Idle, Free, Done, Desc
  <2>3. QED
    BY <2>1, <2>2
<1>6. EngineInv(c)' /\ EventInv(c)' /\ StatusInv(c)'
  BY <1>1, <1>2, <1>4, <1>5 DEF EngineInv, EventInv, StatusInv
<1>7. \A e \in Chan \ {c} : stat'[e] = stat[e]
  BY DEF IsrDone, IsrError, TypeOK
<1>8. \A e \in Chan \ {c} : SameChannel(e)
  BY <1>1, <1>7 DEF SameChannel, TypeOK
<1>9. IsrInv'
  BY <1>2, <1>5 DEF IsrInv
<1>10. QED
  BY <1>1, <1>6, <1>8, <1>9, OneChannel

LEMMA RefillInv ==
  ASSUME TypeOK, ChanInv, IsrInv, NEW c \in Chan, IsrRefill(c)
  PROVE  ChanInv' /\ IsrInv'
<1> DEFINE d == cur[c]
           t == todo[c][d]
<1> USE DEF histVars, mainVars
<1>1. /\ isr.at = "handle" /\ isr.ch = c /\ "INV" \in isr.seen
      /\ isr' = NoIsr
      /\ UNCHANGED <<llp, blk, want, moved>>
  BY DEF IsrRefill, Verdict
<1>2. d \in Desc /\ Other(d) \in Desc /\ Other(d) # d /\ Other(Other(d)) = d
  BY TwoDesc DEF TypeOK
<1>3. /\ eng[c] = "halt" /\ moved[c] < want[c] /\ AwaitsRefill(c)
  BY <1>1 DEF IsrInv, ChanInv, EventInv, EngineInv
<1>4. t = Position(c) /\ llp[c] = d
  BY <1>3 DEF AwaitsRefill
<1>5. /\ lli'[c] = [e \in Desc |-> IF e = d THEN Fill(t) ELSE Blank]
      /\ stat'[c][d] = MarkFor(t.left)
      /\ todo'[c][Other(d)] = After(t)
      /\ cur'[c] = Other(d)
      /\ ints'[c] = {}
      /\ eng'[c] = "fetch"
  BY <1>2, <1>3 DEF IsrRefill, Refill, ClearInts, Resume, TypeOK
<1>6. Busy(c)' /\ ~Done(c)'
  BY <1>2, <1>5 DEF Busy, Idle, Done, Free, MarkFor
<1>7. Position(c)' = Position(c)
  BY <1>1 DEF Position
<1>8. lli'[c][d] = Fill(t) /\ lli'[c][Other(d)] = Blank
  BY <1>2, <1>5
<1> HIDE DEF d, t
<1>9. HasNext(c)'
  <2>1. llp'[c] = Other(cur'[c])
    BY <1>1, <1>2, <1>4, <1>5
  <2>2. lli'[c][llp'[c]] = Fill(Position(c)')
    BY <1>1, <1>4, <1>7, <1>8
  <2>3. ~lli'[c][cur'[c]].valid
    BY <1>5, <1>8 DEF Blank
  <2>4. Recorded(c)'
    BY <1>4, <1>5, <1>7 DEF Recorded
  <2>5. QED
    BY <2>1, <2>2, <2>3, <2>4 DEF HasNext
<1>10. EngineInv(c)' /\ EventInv(c)' /\ StatusInv(c)'
  BY <1>1, <1>3, <1>5, <1>6, <1>9 DEF EngineInv, EventInv, StatusInv, Busy
<1>11. \A e \in Chan \ {c} : SameChannel(e)
  BY <1>1 DEF IsrRefill, ClearInts, SameChannel, TypeOK
<1>12. IsrInv'
  BY <1>1 DEF IsrInv, NoIsr
<1>13. QED
  BY <1>1, <1>10, <1>11, <1>12, OneChannel

LEMMA LeaveInv ==
  ASSUME TypeOK, ChanInv, IsrInv, NEW c \in Chan, IsrNothing(c) \/ IsrExit(c)
  PROVE  ChanInv' /\ IsrInv'
<1> USE DEF drvVars, hwVars, histVars, mainVars
<1>1. /\ isr.ch = c /\ isr' = NoIsr
      /\ UNCHANGED <<cur, stat, todo, lli, eng, llp, blk, want, moved>>
  BY DEF IsrNothing, IsrExit
<1>2. ints'[c] \subseteq ints[c] /\ \A e \in Chan \ {c} : ints'[e] = ints[e]
  BY DEF IsrNothing, IsrExit, ClearInts, TypeOK
<1>3. eng[c] = "stop" => isr.at # "wait"
  BY DEF IsrNothing, IsrExit, ChannelOff
<1>4. EngineInv(c) /\ EventInv(c) /\ StatusInv(c)
  BY DEF ChanInv
<1>5. EngineInv(c)'
  BY <1>1, <1>4
  DEF EngineInv, HasNext, AwaitsRefill, HoldsNext, Recorded, Position, Busy, Idle
<1>6. EventInv(c)' /\ StatusInv(c)'
  BY <1>1, <1>2, <1>3, <1>4 DEF EventInv, StatusInv, Idle, Done
<1>7. \A e \in Chan \ {c} : SameChannel(e)
  BY <1>1, <1>2 DEF SameChannel
<1>8. IsrInv'
  BY <1>1 DEF IsrInv, NoIsr
<1>9. QED
  BY <1>1, <1>5, <1>6, <1>7, <1>8, OneChannel
-----------------------------------------------------------------------------
(* The commands.                                                           *)

\* The test of the driver covers both descriptors of the channel.
LEMMA AcceptIdle ==
  ASSUME TypeOK, NEW c \in Chan, CanAccept(c)
  PROVE  Idle(c)
<1>1. cur[c] \in Desc
  BY DEF TypeOK
<1>2. \A d \in Desc : d = cur[c] \/ d = Other(cur[c])
  BY <1>1, AllSlots
<1>3. QED
  BY <1>2 DEF CanAccept, Idle

\* For the engine a length of zero is that of a whole block.
LEMMA AsLong ==
  ASSUME NEW n \in Nat
  PROVE  /\ Beats(n) \in Nat /\ Beats(n) > 0
         /\ Fill([off |-> 0, left |-> Beats(n)]) = Fill([off |-> 0, left |-> n])
         /\ Beats(n) > BlockMax
              => After([off |-> 0, left |-> Beats(n)]) = After([off |-> 0, left |-> n])
<1>1. CASE n = 0
  <2>1. Beats(n) = BlockMax /\ Slice(n) = n /\ Slice(BlockMax) = BlockMax /\ Beats(BlockMax) = BlockMax
    BY <1>1 DEF Beats, Slice
  <2>2. /\ Fill([off |-> 0, left |-> n]) = [valid |-> TRUE, off |-> 0, len |-> BlockMax, last |-> TRUE]
        /\ Fill([off |-> 0, left |-> BlockMax]) = [valid |-> TRUE, off |-> 0, len |-> BlockMax, last |-> TRUE]
    <3>1. (n <= BlockMax) = TRUE /\ (BlockMax <= BlockMax) = TRUE
      BY <1>1
    <3>2. QED
      BY <2>1, <3>1 DEF Fill
  <2>3. QED
    BY <2>1, <2>2
<1>2. CASE n # 0
  <2>1. Beats(n) = n
    BY <1>2 DEF Beats
  <2>2. QED
    BY <1>2, <2>1
<1>3. QED
  BY <1>1, <1>2

LEMMA AcceptInv ==
  ASSUME TypeOK, ChanInv, IsrInv, NEW c \in Chan, NEW n \in Nat,
         MainRuns, Accept(c, n), isr' = isr
  PROVE  ChanInv' /\ IsrInv'
<1> DEFINE d == cur[c]
           t == [off |-> 0, left |-> n]
<1>1. d \in Desc /\ Other(d) \in Desc /\ Other(d) # d /\ Other(Other(d)) = d
  BY TwoDesc DEF TypeOK
<1>2. Idle(c)
  BY AcceptIdle DEF Accept
<1>3. ints[c] = {}
  BY <1>2 DEF ChanInv, StatusInv
<1>4. /\ lli'[c] = [e \in Desc |-> IF e = d THEN Fill(t) ELSE Blank]
      /\ stat'[c][d] = MarkFor(n)
      /\ todo'[c][Other(d)] = After(t)
      /\ cur'[c] = Other(d)
      /\ llp'[c] = d
      /\ eng'[c] = "fetch"
      /\ want'[c] = Beats(n) /\ moved'[c] = 0
      /\ UNCHANGED ints
  BY <1>1 DEF Accept, TypeOK
<1>5. lli'[c][d] = Fill(t) /\ lli'[c][Other(d)] = Blank
  BY <1>1, <1>4
<1>6. Busy(c)' /\ ~Done(c)'
  BY <1>1, <1>4 DEF Busy, Idle, Done, Free, MarkFor
<1>7. Position(c)' = [off |-> 0, left |-> Beats(n)]
  <2>1. Beats(n) \in Nat
    BY DEF Beats
  <2>2. PtrStep * 0 = 0 /\ Beats(n) - 0 = Beats(n)
    BY <2>1 DEF PtrStep
  <2>3. QED
    BY <1>4, <2>2 DEF Position
<1>8. /\ Beats(n) > 0
      /\ Fill(Position(c)') = Fill(t)
      /\ Position(c)'.left > BlockMax => After(Position(c)') = After(t)
  BY <1>7, AsLong
<1> HIDE DEF d, t
<1>9. HasNext(c)'
  <2>1. llp'[c] = Other(cur'[c])
    BY <1>1, <1>4
  <2>2. lli'[c][llp'[c]] = Fill(Position(c)')
    BY <1>4, <1>5, <1>8
  <2>3. ~lli'[c][cur'[c]].valid
    BY <1>4, <1>5 DEF Blank
  <2>4. Recorded(c)'
    BY <1>4, <1>8 DEF Recorded
  <2>5. QED
    BY <2>1, <2>2, <2>3, <2>4 DEF HasNext
<1>10. EngineInv(c)' /\ EventInv(c)' /\ StatusInv(c)'
  BY <1>3, <1>4, <1>6, <1>8, <1>9 DEF EngineInv, EventInv, StatusInv, Busy
<1>11. \A e \in Chan \ {c} : SameChannel(e)
  BY DEF Accept, SameChannel, TypeOK
<1>12. IsrInv'
  BY DEF IsrInv, MainRuns
<1>13. QED
  BY <1>10, <1>11, <1>12, OneChannel DEF MainRuns

\* A command that leaves every channel alone.
LEMMA SameInv ==
  ASSUME ChanInv, IsrInv, UNCHANGED <<drvVars, hwVars, histVars, isr>>
  PROVE  ChanInv' /\ IsrInv'
<1> USE DEF drvVars, hwVars, histVars
<1>1. \A e \in Chan : SameChannel(e)
  BY DEF SameChannel
<1>2. ASSUME NEW e \in Chan PROVE EngineInv(e)' /\ EventInv(e)' /\ StatusInv(e)'
  BY <1>1, Frame DEF ChanInv
<1>3. Chan' = Chan
  BY DEF Chan
<1>4. IsrInv'
  BY DEF IsrInv, Busy, Idle
<1>5. QED
  BY <1>2, <1>3, <1>4 DEF ChanInv

\* A reset switches every channel off and withdraws its events.
LEMMA ResetInv ==
  ASSUME TypeOK, ChanInv, IsrInv, Reset
  PROVE  ChanInv' /\ IsrInv'
<1>1. \A c \in Chan : eng'[c] = "off" /\ ints'[c] = {}
  BY DEF Reset
<1>2. UNCHANGED <<stat, want, moved, isr>> /\ isr.at = "none"
  BY DEF Reset, drvVars, histVars, MainRuns
<1>3. ASSUME NEW c \in Chan PROVE EngineInv(c)' /\ EventInv(c)' /\ StatusInv(c)'
  BY <1>1, <1>2, <1>3 DEF ChanInv, EngineInv, EventInv, StatusInv, Done, Idle
<1>4. Chan' = Chan
  BY DEF Chan
<1>5. QED
  BY <1>2, <1>3, <1>4 DEF ChanInv, IsrInv

LEMMA CommandInv ==
  ASSUME TypeOK, ChanInv, IsrInv, Commands
  PROVE  ChanInv' /\ IsrInv'
<1>1. ASSUME NEW c \in Chan, NEW n \in Lengths, Start(c, n)
      PROVE  ChanInv' /\ IsrInv'
  <2>1. CASE Accept(c, n)
    BY <1>1, <2>1, AcceptInv DEF Start
  <2>2. CASE Refuse(c)
    BY <1>1, <2>2, SameInv DEF Start, Refuse
  <2>3. QED
    BY <1>1, <2>1, <2>2 DEF Start, Memcpy
<1>2. CASE RunBegin
  BY <1>2, SameInv DEF RunBegin
<1>3. ASSUME NEW n \in Lengths \cup {0}, RunSkip(n)
      PROVE  ChanInv' /\ IsrInv'
  BY <1>3, SameInv DEF RunSkip
<1>4. ASSUME NEW n \in Lengths \cup {0}, RunChannel(n)
      PROVE  ChanInv' /\ IsrInv'
  <2>1. runAt \in Chan /\ n \in Nat
    BY <1>4 DEF TypeOK, RunChannel, Chan
  <2>2. CASE Accept(runAt, n)
    BY <1>4, <2>1, <2>2, AcceptInv DEF RunChannel
  <2>3. CASE Refuse(runAt)
    BY <1>4, <2>3, SameInv DEF RunChannel, Refuse
  <2>4. QED
    BY <1>4, <2>2, <2>3 DEF RunChannel, Memcpy
<1>5. CASE HwInit \/ HwInitTimeout
  BY <1>5, ResetInv DEF HwInit, HwInitTimeout
<1>6. ASSUME NEW c \in Chan, FlagClear(c)
      PROVE  ChanInv' /\ IsrInv'
  BY <1>6, SameInv DEF FlagClear
<1>7. QED
  BY <1>1, <1>2, <1>3, <1>4, <1>5, <1>6 DEF Commands, RunStep
-----------------------------------------------------------------------------
LEMMA InitInv == Init => ChanInv /\ IsrInv
BY DEF Init, ChanInv, IsrInv, EngineInv, EventInv, StatusInv, Done, NoIsr

\* The inductive invariant, for every number of channels and every block size,
\* whatever the switches say.
THEOREM Invariance == Spec => []IInv
<1>1. Init => IInv
  BY InitType, InitInv DEF IInv
<1>2. IInv /\ [Next]_vars => IInv'
  <2> SUFFICES ASSUME TypeOK, ChanInv, IsrInv, [Next]_vars PROVE IInv'
    BY DEF IInv
  <2>1. TypeOK'
    BY EngineType, HandlerType, CommandType, StutterType DEF Next, Hardware, Handler
  <2>2. CASE Commands
    BY <2>2, CommandInv, <2>1 DEF IInv
  <2>3. CASE Hardware
    BY <2>3, FetchInv, CopyInv, FinishInv, <2>1 DEF Hardware, Engine, IInv
  <2>4. CASE Handler
    BY <2>4, EnterInv, EndInv, RefillInv, LeaveInv, <2>1 DEF Handler, IsrBody, IInv
  <2>5. CASE UNCHANGED vars
    BY <2>5, SameInv, <2>1 DEF vars, IInv
  <2>6. QED
    BY <2>2, <2>3, <2>4, <2>5 DEF Next
<1>3. QED
  BY <1>1, <1>2, PTL DEF Spec

\* Every block the engine moves is the next one of its transfer: see
\* BlockInPlace.
THEOREM InPlace == Spec => []BlockInPlace
<1>1. IInv => BlockInPlace
  <2> SUFFICES ASSUME IInv, NEW c \in Chan, eng[c] = "copy"
               PROVE  /\ blk[c].off = PtrStep * moved[c]
                      /\ blk[c].len = Slice(want[c] - moved[c])
                      /\ blk[c].last <=> moved[c] + blk[c].len = want[c]
    BY DEF BlockInPlace
  <2>1. moved[c] \in Nat /\ want[c] \in Nat
    BY DEF IInv, TypeOK
  <2>2. moved[c] < want[c] /\ blk[c] = Fill(Position(c))
    BY DEF IInv, ChanInv, EngineInv, HoldsNext
  <2>3. QED
    BY <2>1, <2>2, BlockFacts DEF Position
<1>2. QED
  BY <1>1, Invariance, PTL

\* A transfer is reported finished only when all of its words were moved: see
\* WholeLength.
THEOREM Whole == Spec => []WholeLength
<1>1. IInv => WholeLength
  BY DEF IInv, ChanInv, StatusInv, WholeLength
<1>2. QED
  BY <1>1, Invariance, PTL

\* A channel that is free is quiet: see FreeMeansOff.
THEOREM Quiet == Spec => []FreeMeansOff
<1>1. IInv => FreeMeansOff
  BY DEF IInv, ChanInv, StatusInv, FreeMeansOff
<1>2. QED
  BY <1>1, Invariance, PTL
-----------------------------------------------------------------------------
(* With a prompt engine no event is lost.  A handler then runs only for an *)
(* engine that stands, so that what it has read is all that is pending     *)
(* when it clears the status; and while the engine can still post, nothing *)
(* is pending.                                                             *)

\* The part of NoOrphan that concerns channel c, and when nothing is pending.
Alive(c) ==
  /\ eng[c] = "fetch" /\ lli[c][llp[c]].valid => ints[c] = {}
  /\ eng[c] = "copy" => ints[c] = {}
  /\ Busy(c) => \/ eng[c] \in {"fetch", "copy", "end"}
                \/ eng[c] = "halt" /\ "INV" \in ints[c]
                \/ eng[c] \in {"stop", "off"} /\ ints[c] \cap {"DONE", "ERR"} # {}

\* The handler has read all that is pending.
ReadAll ==
  isr.at = "handle" => eng[isr.ch] \in {"halt", "stop", "off"} /\ isr.seen = ints[isr.ch]

AllAlive == ReadAll /\ \A c \in Chan : Alive(c)

\* A step of one channel that leaves the others as they were.
LEMMA AliveOthers ==
  ASSUME AllAlive, NEW c \in Chan, \A e \in Chan \ {c} : SameChannel(e),
         Alive(c)', ReadAll'
  PROVE  AllAlive'
<1>1. ASSUME NEW e \in Chan \ {c} PROVE Alive(e)'
  BY DEF AllAlive, Alive, SameChannel, Busy, Idle
<1>2. Chan' = Chan
  BY DEF Chan
<1>3. QED
  BY <1>1, <1>2 DEF AllAlive

LEMMA AliveEngine ==
  ASSUME IInv, AllAlive, NEW c \in Chan, Engine(c) \/ EngineError(c)
  PROVE  AllAlive'
<1>1. EngineInv(c) /\ Alive(c) /\ TypeOK /\ ReadAll
  BY DEF IInv, ChanInv, AllAlive
<1>2. UNCHANGED <<cur, stat, todo, lli, want, isr>>
  BY DEF Engine, EngineFetch, EngineCopy, EngineEnd, EngineStop, EngineError, drvVars, histVars
<1>3. \A e \in Chan \ {c} : SameChannel(e)
  BY <1>1, <1>2 DEF Engine, EngineFetch, EngineCopy, EngineEnd, EngineStop, EngineError,
                    SameChannel, TypeOK, histVars, drvVars
<1>4. Alive(c)'
  <2>1. CASE EngineFetch(c) /\ lli[c][llp[c]].valid
    <3>1. eng'[c] = "copy" /\ ints'[c] = {}
      BY <1>1, <2>1 DEF EngineFetch, Alive, TypeOK
    <3>2. QED
      BY <3>1 DEF Alive
  <2>2. CASE EngineFetch(c) /\ ~lli[c][llp[c]].valid
    <3>1. eng'[c] = "halt" /\ "INV" \in ints'[c]
      BY <1>1, <2>2 DEF EngineFetch, TypeOK
    <3>2. QED
      BY <3>1 DEF Alive
  <2>3. CASE EngineCopy(c)
    <3>1. eng'[c] \in {"fetch", "end"} /\ llp' = llp /\ ~lli[c][llp[c]].valid
      BY <1>1, <2>3 DEF EngineCopy, EngineInv, HoldsNext, TypeOK
    <3>2. QED
      BY <1>2, <3>1 DEF Alive
  <2>4. CASE EngineEnd(c) \/ EngineError(c)
    <3>1. eng'[c] = "stop" /\ ("DONE" \in ints'[c] \/ "ERR" \in ints'[c])
      BY <1>1, <2>4 DEF EngineEnd, EngineError, TypeOK
    <3>2. QED
      BY <3>1 DEF Alive
  <2>5. CASE EngineStop(c)
    <3>1. eng'[c] = "off" /\ ints' = ints /\ eng[c] = "stop"
      BY <1>1, <2>5 DEF EngineStop, TypeOK
    <3>2. QED
      BY <1>1, <1>2, <3>1 DEF Alive, Busy, Idle
  <2>6. QED
    BY <2>1, <2>2, <2>3, <2>4, <2>5 DEF Engine
<1>5. ReadAll'
  <2> SUFFICES ASSUME isr.at = "handle"
               PROVE  eng'[isr.ch] \in {"halt", "stop", "off"} /\ ints'[isr.ch] = ints[isr.ch]
    BY <1>1, <1>2 DEF ReadAll
  <2>1. isr.ch \in Chan
    BY <1>1 DEF TypeOK
  <2>2. CASE isr.ch # c
    BY <1>1, <1>3, <2>1, <2>2 DEF ReadAll, SameChannel
  <2>3. CASE isr.ch = c
    <3>1. EngineStop(c)
      BY <1>1, <2>3 DEF ReadAll, Engine, EngineFetch, EngineCopy, EngineEnd, EngineError
    <3>2. QED
      BY <1>1, <2>3, <3>1 DEF EngineStop, TypeOK
  <2>4. QED
    BY <2>2, <2>3
<1>6. QED
  BY <1>3, <1>4, <1>5, AliveOthers

LEMMA AliveHandler ==
  ASSUME PromptEngine, IInv, IInv', AllAlive, NEW c \in Chan, IsrEnter(c) \/ IsrBody(c)
  PROVE  AllAlive'
<1>1. Alive(c) /\ TypeOK /\ EventInv(c) /\ IsrInv /\ ReadAll
  BY DEF IInv, ChanInv, AllAlive
<1>2. UNCHANGED <<llp, want, moved, blk>>
  BY DEF IsrEnter, IsrBody, IsrDone, IsrError, IsrRefill, IsrNothing, IsrExit, hwVars, histVars
<1>3. \A e \in Chan \ {c} : SameChannel(e)
  BY <1>1, <1>2 DEF IsrEnter, IsrBody, IsrDone, IsrError, IsrRefill, IsrNothing, IsrExit,
                    ClearInts, SameChannel, TypeOK, hwVars, drvVars
<1>4. CASE IsrEnter(c)
  <2>1. eng[c] \in {"halt", "stop", "off"}
    BY <1>1, <1>4 DEF IsrEnter, Alive, TypeOK
  <2>2. /\ isr' = [at |-> "handle", ch |-> c, seen |-> ints[c]]
        /\ UNCHANGED <<eng, ints, lli, stat>>
    BY <1>4 DEF IsrEnter, hwVars, drvVars
  <2>3. QED
    BY <1>1, <1>2, <1>3, <2>1, <2>2, AliveOthers DEF Alive, ReadAll, Busy, Idle
<1>5. CASE IsrDone(c) \/ IsrError(c)
  <2>1. isr'.at = "wait" /\ isr'.ch = c /\ ints'[c] = {}
    BY <1>1, <1>5 DEF IsrDone, IsrError, ClearInts, TypeOK
  <2>2. ~Busy(c)'
    BY <2>1 DEF IInv, IsrInv, Busy, Idle
  <2>3. QED
    BY <1>3, <2>1, <2>2, AliveOthers DEF Alive, ReadAll
<1>6. CASE IsrRefill(c)
  <2>1. eng[c] = "halt"
    BY <1>1, <1>6 DEF IsrRefill, Verdict, IsrInv, EventInv
  <2>2. isr'.at = "none" /\ ints'[c] = {} /\ eng'[c] = "fetch"
    BY <1>1, <1>6, <2>1 DEF IsrRefill, ClearInts, Resume, NoIsr, TypeOK
  <2>3. QED
    BY <1>3, <2>2, AliveOthers DEF Alive, ReadAll
<1>7. CASE IsrNothing(c)
  <2>1. ints[c] \cap {"DONE", "ERR", "INV"} = {} /\ eng[c] \in {"halt", "stop", "off"}
    BY <1>1, <1>7 DEF IsrNothing, Verdict, ReadAll
  <2>2. Busy(c)
    BY <1>1, <1>7 DEF IsrNothing, IsrInv
  <2>3. QED
    BY <1>1, <2>1, <2>2 DEF Alive
<1>8. CASE IsrExit(c)
  <2>1. isr'.at = "none" /\ UNCHANGED <<eng, ints, lli, stat>>
    BY <1>8 DEF IsrExit, NoIsr, hwVars, drvVars
  <2>2. QED
    BY <1>1, <1>2, <1>3, <2>1, AliveOthers DEF Alive, ReadAll, Busy, Idle
<1>9. QED
  BY <1>4, <1>5, <1>6, <1>7, <1>8 DEF IsrBody

LEMMA AliveSame ==
  ASSUME AllAlive, UNCHANGED <<drvVars, hwVars, isr>>
  PROVE  AllAlive'
BY DEF AllAlive, Alive, ReadAll, Busy, Idle, Chan, drvVars, hwVars

LEMMA AliveAccept ==
  ASSUME IInv, IInv', AllAlive, NEW c \in Chan, NEW n \in Nat, MainRuns, Accept(c, n), isr' = isr
  PROVE  AllAlive'
<1>1. Idle(c) /\ TypeOK
  BY AcceptIdle DEF Accept, IInv
<1>2. eng'[c] = "fetch" /\ ints'[c] = {}
  BY <1>1 DEF Accept, IInv, ChanInv, StatusInv, TypeOK
<1>3. \A e \in Chan \ {c} : SameChannel(e)
  BY <1>1 DEF Accept, SameChannel, TypeOK
<1>4. QED
  BY <1>2, <1>3, AliveOthers DEF Alive, ReadAll, MainRuns

LEMMA AliveCommand ==
  ASSUME ~ReinitBusy, IInv, IInv', AllAlive, Commands
  PROVE  AllAlive'
<1>1. ASSUME NEW c \in Chan, NEW n \in Lengths, Start(c, n)
      PROVE  AllAlive'
  BY <1>1, AliveAccept, AliveSame DEF Start, Memcpy, Refuse
<1>2. CASE RunBegin
  BY <1>2, AliveSame DEF RunBegin
<1>3. ASSUME NEW n \in Lengths \cup {0}, RunSkip(n)
      PROVE  AllAlive'
  BY <1>3, AliveSame DEF RunSkip
<1>4. ASSUME NEW n \in Lengths \cup {0}, RunChannel(n)
      PROVE  AllAlive'
  <2>1. runAt \in Chan
    BY <1>4 DEF IInv, TypeOK, RunChannel, Chan
  <2>2. QED
    BY <1>4, <2>1, AliveAccept, AliveSame DEF RunChannel, Memcpy, Refuse
<1>5. CASE HwInit \/ HwInitTimeout
  <2>1. /\ \A c \in Chan : Idle(c) /\ eng'[c] = "off"
        /\ isr.at = "none" /\ isr' = isr /\ stat' = stat
    BY <1>5 DEF HwInit, HwInitTimeout, Reset, MainRuns, drvVars
  <2>2. Chan' = Chan
    BY DEF Chan
  <2>3. QED
    BY <2>1, <2>2 DEF AllAlive, Alive, ReadAll, Busy, Idle
<1>6. ASSUME NEW c \in Chan, FlagClear(c)
      PROVE  AllAlive'
  BY <1>6, AliveSame DEF FlagClear
<1>7. QED
  BY <1>1, <1>2, <1>3, <1>4, <1>5, <1>6 DEF Commands, RunStep

\* No busy channel is left without something that will bring its handler, as
\* long as an event that follows a block is posted before a handler can read
\* the status, and dma_init is not called under a transfer: see NoOrphan.
THEOREM NoneOrphaned ==
  ASSUME PromptEngine, ~ReinitBusy
  PROVE  Spec => []NoOrphan
<1>1. Init => AllAlive
  BY DEF Init, AllAlive, Alive, ReadAll, NoIsr, Busy, Idle, Free
<1>2. IInv /\ IInv' /\ AllAlive /\ [Next]_vars => AllAlive'
  <2> SUFFICES ASSUME IInv, IInv', AllAlive, [Next]_vars PROVE AllAlive'
    OBVIOUS
  <2>1. CASE Commands
    BY <2>1, AliveCommand
  <2>2. CASE Hardware
    BY <2>2, AliveEngine DEF Hardware
  <2>3. CASE Handler
    BY <2>3, AliveHandler DEF Handler
  <2>4. CASE UNCHANGED vars
    BY <2>4, AliveSame DEF vars
  <2>5. QED
    BY <2>1, <2>2, <2>3, <2>4 DEF Next
<1>3. IInv /\ AllAlive => NoOrphan
  BY DEF AllAlive, Alive, NoOrphan
<1>4. Spec => []AllAlive
  BY <1>1, <1>2, Invariance, PTL DEF Spec
<1>5. QED
  BY <1>3, <1>4, Invariance, PTL
-----------------------------------------------------------------------------
(***************************************************************************)
(* The driver with its engine and its handler implements DmaCopy, and the  *)
(* driver never writes the descriptor the engine is reading.               *)
(*                                                                         *)
(* A transfer is submitted when dmac_ll_memcpy accepts it, moved block by  *)
(* block by the engine, and completed or failed by the handler, whatever   *)
(* else happens between; every other step is invisible to a client.        *)
(***************************************************************************)

\* What a client sees of the driver.
View == <<[c \in Chan |-> Busy(c)], want, moved, finished>>

LEMMA SameView ==
  UNCHANGED <<stat, want, moved, finished>> => UNCHANGED View
BY DEF View, Busy, Idle

\* How the busy flags move when only one channel's descriptors change.
LEMMA BusyStep ==
  ASSUME NEW c \in Chan, \A e \in Chan \ {c} : stat'[e] = stat[e]
  PROVE  [e \in Chan |-> Busy(e)]'
           = [[e \in Chan |-> Busy(e)] EXCEPT ![c] = Busy(c)']
<1>1. \A e \in Chan \ {c} : Busy(e)' = Busy(e)
  BY DEF Busy, Idle
<1>2. Chan' = Chan
  BY DEF Chan
<1>3. QED
  BY <1>1, <1>2
-----------------------------------------------------------------------------
LEMMA AcceptView ==
  ASSUME IInv, IInv', NEW c \in Chan, NEW n \in Lengths, Accept(c, n)
  PROVE  Promise!Submit(c)
<1>1. Idle(c)
  BY AcceptIdle DEF IInv, Accept
<1>2. /\ want' = [want EXCEPT ![c] = Promise!Due(n)] /\ moved' = [moved EXCEPT ![c] = 0]
      /\ UNCHANGED finished
  BY DEF Accept, Beats, Promise!Due
<1>3. Busy(c)'
  <2>1. eng'[c] = "fetch"
    BY DEF Accept, IInv, TypeOK
  <2>2. Chan' = Chan
    BY DEF Chan
  <2>3. QED
    BY <2>1, <2>2 DEF IInv, ChanInv, EngineInv
<1>4. \A e \in Chan \ {c} : stat'[e] = stat[e]
  BY DEF Accept, IInv, TypeOK
<1>5. [e \in Chan |-> Busy(e)]' = [[e \in Chan |-> Busy(e)] EXCEPT ![c] = TRUE]
  <2>1. [e \in Chan |-> Busy(e)]' = [[e \in Chan |-> Busy(e)] EXCEPT ![c] = Busy(c)']
    BY <1>4, BusyStep
  <2>2. Busy(c)' = TRUE
    BY <1>3 DEF Busy
  <2>3. QED
    BY <2>1, <2>2
<1>6. ~[e \in Chan |-> Busy(e)][c]
  BY <1>1 DEF Busy
<1>7. QED
  BY <1>2, <1>5, <1>6 DEF Promise!Submit

LEMMA CopyView ==
  ASSUME IInv, NEW c \in Chan, EngineCopy(c)
  PROVE  Promise!Move(c)
<1>1. moved[c] \in Nat /\ want[c] \in Nat
  BY DEF IInv, TypeOK
<1>2. /\ moved[c] < want[c] /\ Busy(c) /\ blk[c] = Fill(Position(c))
  BY DEF IInv, ChanInv, EngineInv, HoldsNext, EngineCopy
<1>3. blk[c].len = Slice(want[c] - moved[c])
  BY <1>1, <1>2, BlockFacts DEF Position
<1>4. moved[c] + blk[c].len
        = IF want[c] - moved[c] > BlockMax THEN moved[c] + BlockMax ELSE want[c]
  BY <1>1, <1>3 DEF Slice
<1>5. moved' = [moved EXCEPT ![c] = moved[c] + blk[c].len]
  BY DEF EngineCopy
<1>6. UNCHANGED <<[e \in Chan |-> Busy(e)], want, finished>>
  BY DEF EngineCopy, drvVars, Busy, Idle
<1>7. [e \in Chan |-> Busy(e)][c]
  BY <1>2
<1>8. moved' = [moved EXCEPT ![c] =
                  IF want[c] - @ > BlockMax THEN @ + BlockMax ELSE want[c]]
  BY <1>4, <1>5
<1>9. QED
  BY <1>2, <1>6, <1>7, <1>8 DEF Promise!Move

LEMMA EndView ==
  ASSUME IInv, NEW c \in Chan, IsrDone(c) \/ IsrError(c)
  PROVE  Promise!Complete(c) \/ Promise!Fail(c)
<1>1. /\ isr.at = "handle" /\ isr.ch = c /\ UNCHANGED <<want, moved>>
  BY DEF IsrDone, IsrError, histVars
<1>2. Busy(c)
  BY <1>1 DEF IInv, IsrInv
<1>3. [e \in Chan |-> Busy(e)][c]
  BY <1>2
<1>4. \A e \in Chan \ {c} : stat'[e] = stat[e]
  BY DEF IsrDone, IsrError, IInv, TypeOK
<1>5. Idle(c)'
  <2>1. stat'[c] = [d \in Desc |-> "FINISH"] \/ stat'[c] = [d \in Desc |-> "READY"]
    BY DEF IsrDone, IsrError, MarkBoth, IInv, TypeOK
  <2>2. QED
    BY <2>1 DEF Idle, Free
<1>6. [e \in Chan |-> Busy(e)]' = [[e \in Chan |-> Busy(e)] EXCEPT ![c] = FALSE]
  <2>1. [e \in Chan |-> Busy(e)]' = [[e \in Chan |-> Busy(e)] EXCEPT ![c] = Busy(c)']
    BY <1>4, BusyStep
  <2>2. Busy(c)' = FALSE
    BY <1>5 DEF Busy
  <2>3. QED
    BY <2>1, <2>2
<1>7. CASE IsrDone(c)
  <2>1. "DONE" \in ints[c]
    BY <1>1, <1>7 DEF IsrDone, Verdict, IInv, IsrInv
  <2>2. moved[c] = want[c]
    BY <2>1 DEF IInv, ChanInv, EventInv
  <2>3. finished' = [finished EXCEPT ![c] = TRUE]
    BY <1>7 DEF IsrDone
  <2>4. QED
    BY <1>1, <1>3, <1>6, <2>2, <2>3 DEF Promise!Complete
<1>8. CASE IsrError(c)
  BY <1>1, <1>3, <1>6, <1>8 DEF IsrError, Promise!Fail
<1>9. QED
  BY <1>7, <1>8

LEMMA AckView ==
  ASSUME IInv, NEW c \in Chan, FlagClear(c)
  PROVE  Promise!Acknowledge(c) \/ UNCHANGED View
<1>1. /\ finished' = [finished EXCEPT ![c] = FALSE]
      /\ UNCHANGED <<[e \in Chan |-> Busy(e)], want, moved>>
  BY DEF FlagClear, drvVars, histVars, Busy, Idle
<1>2. CASE finished[c]
  BY <1>1, <1>2 DEF Promise!Acknowledge
<1>3. CASE ~finished[c]
  <2>1. finished[c] = FALSE
    BY <1>3 DEF IInv, TypeOK
  <2>2. finished' = finished
    BY <1>1, <2>1 DEF IInv, TypeOK
  <2>3. QED
    BY <1>1, <2>2 DEF View
<1>4. QED
  BY <1>2, <1>3
-----------------------------------------------------------------------------
LEMMA CommandView ==
  ASSUME IInv, IInv', Commands
  PROVE  (\E c \in Chan : Promise!Submit(c) \/ Promise!Acknowledge(c)) \/ UNCHANGED View
<1>1. ASSUME NEW c \in Chan, NEW n \in Lengths, Start(c, n)
      PROVE  Promise!Submit(c) \/ UNCHANGED View
  BY <1>1, AcceptView, SameView DEF Start, Memcpy, Refuse, drvVars, histVars
<1>2. ASSUME NEW n \in Lengths \cup {0}, RunChannel(n)
      PROVE  Promise!Submit(runAt) \/ UNCHANGED View
  <2>1. runAt \in Chan /\ n \in Lengths
    BY <1>2 DEF IInv, TypeOK, RunChannel, Chan
  <2>2. QED
    BY <1>2, <2>1, AcceptView, SameView DEF RunChannel, Memcpy, Refuse, drvVars, histVars
<1>3. ASSUME NEW n \in Lengths \cup {0}, RunChannel(n)
      PROVE  runAt \in Chan
  BY <1>3 DEF IInv, TypeOK, RunChannel, Chan
<1>4. ASSUME NEW n \in Lengths \cup {0}, RunSkip(n)
      PROVE  UNCHANGED View
  BY <1>4, SameView DEF RunSkip, drvVars, histVars
<1>5. CASE RunBegin \/ HwInit \/ HwInitTimeout
  BY <1>5, SameView DEF RunBegin, HwInit, HwInitTimeout, Reset, drvVars, histVars
<1>6. QED
  BY <1>1, <1>2, <1>3, <1>4, <1>5, AckView DEF Commands, RunStep

LEMMA HardwareView ==
  ASSUME IInv, Hardware
  PROVE  (\E c \in Chan : Promise!Move(c)) \/ UNCHANGED View
<1>1. PICK c \in Chan : Engine(c) \/ EngineError(c)
  BY DEF Hardware
<1>2. CASE EngineCopy(c)
  BY <1>2, CopyView
<1>3. CASE EngineFetch(c) \/ EngineEnd(c) \/ EngineStop(c) \/ EngineError(c)
  BY <1>3, SameView
  DEF EngineFetch, EngineEnd, EngineStop, EngineError, drvVars, histVars
<1>4. QED
  BY <1>1, <1>2, <1>3 DEF Engine

LEMMA RefillView ==
  ASSUME IInv, IInv', NEW c \in Chan, IsrRefill(c)
  PROVE  UNCHANGED View
<1>1. isr.at = "handle" /\ isr.ch = c /\ UNCHANGED <<want, moved, finished>>
  BY DEF IsrRefill, histVars
<1>2. Busy(c)
  BY <1>1 DEF IInv, IsrInv
<1>3. eng[c] = "halt"
  BY <1>1 DEF IsrRefill, Verdict, IInv, IsrInv, ChanInv, EventInv
<1>4. eng'[c] = "fetch" /\ Chan' = Chan
  BY <1>3 DEF IsrRefill, Resume, IInv, TypeOK, Chan
<1>5. Busy(c)'
  BY <1>4 DEF IInv, ChanInv, EngineInv
<1>6. \A e \in Chan \ {c} : stat'[e] = stat[e]
  BY DEF IsrRefill, IInv, TypeOK
<1>7. [e \in Chan |-> Busy(e)]' = [[e \in Chan |-> Busy(e)] EXCEPT ![c] = Busy(c)']
  BY <1>6, BusyStep
<1>8. Busy(c)' = Busy(c)
  BY <1>2, <1>5 DEF Busy
<1>9. QED
  BY <1>1, <1>7, <1>8 DEF View

LEMMA HandlerView ==
  ASSUME IInv, IInv', Handler
  PROVE  (\E c \in Chan : Promise!Complete(c) \/ Promise!Fail(c)) \/ UNCHANGED View
<1>1. PICK c \in Chan : IsrEnter(c) \/ IsrBody(c)
  BY DEF Handler
<1>2. CASE IsrDone(c) \/ IsrError(c)
  BY <1>2, EndView
<1>3. CASE IsrRefill(c)
  BY <1>3, RefillView
<1>4. CASE IsrEnter(c) \/ IsrNothing(c) \/ IsrExit(c)
  BY <1>4, SameView DEF IsrEnter, IsrNothing, IsrExit, drvVars, histVars
<1>5. QED
  BY <1>1, <1>2, <1>3, <1>4 DEF IsrBody
-----------------------------------------------------------------------------
\* The driver implements DmaCopy: a client of the driver sees nothing that the
\* abstract channels would not show.
THEOREM Implements == Spec => Refines
<1>1. Init => Promise!Init
  <2> SUFFICES ASSUME Init PROVE Promise!Init
    OBVIOUS
  <2>1. \A c \in Chan : Busy(c) = FALSE
    BY DEF Init, Busy, Idle, Free
  <2>2. [c \in Chan |-> Busy(c)] = [c \in Chan |-> FALSE]
    BY <2>1
  <2>3. QED
    BY <2>2 DEF Init, Promise!Init
<1>2. IInv /\ IInv' /\ [Next]_vars => [Promise!Next]_(Promise!vars)
  <2> SUFFICES ASSUME IInv, IInv', [Next]_vars
               PROVE  Promise!Next \/ UNCHANGED View
    BY DEF View, Promise!vars
  <2>1. CASE Commands
    BY <2>1, CommandView DEF Promise!Next
  <2>2. CASE Hardware
    BY <2>2, HardwareView DEF Promise!Next
  <2>3. CASE Handler
    BY <2>3, HandlerView DEF Promise!Next
  <2>4. CASE UNCHANGED vars
    BY <2>4, SameView DEF vars, drvVars, histVars
  <2>5. QED
    BY <2>1, <2>2, <2>3, <2>4 DEF Next
<1>3. QED
  BY <1>1, <1>2, Invariance, PTL DEF Spec, Refines, Promise!Spec

\* The descriptor the engine is reading is never written.
THEOREM Undisturbed == Spec => FetchUndisturbed
<1>1. IInv /\ [Next]_vars
        => [\A c \in Chan : eng[c] = "fetch" => lli'[c][llp[c]] = lli[c][llp[c]]]_vars
  <2> SUFFICES ASSUME IInv, Next, NEW c \in Chan, eng[c] = "fetch"
               PROVE  lli'[c] = lli[c]
    OBVIOUS
  <2>1. ASSUME NEW e \in Chan, NEW n \in Nat, MainRuns, Accept(e, n)
        PROVE  lli'[c] = lli[c]
    <3>1. Idle(e)
      BY <2>1, AcceptIdle DEF IInv, Accept
    <3>2. e # c
      BY <3>1 DEF IInv, ChanInv, EngineInv, Busy
    <3>3. QED
      BY <2>1, <3>2 DEF Accept, IInv, TypeOK
  <2>2. CASE Commands
    <3>1. ASSUME NEW e \in Chan, NEW n \in Lengths, Start(e, n) PROVE lli'[c] = lli[c]
      BY <3>1, <2>1 DEF Start, Memcpy, Refuse, drvVars
    <3>2. ASSUME NEW n \in Lengths \cup {0}, RunChannel(n) PROVE lli'[c] = lli[c]
      <4>1. runAt \in Chan
        BY <3>2 DEF IInv, TypeOK, RunChannel, Chan
      <4>2. QED
        BY <3>2, <4>1, <2>1 DEF RunChannel, Memcpy, Refuse, drvVars
    <3>3. QED
      BY <2>2, <3>1, <3>2
      DEF Commands, RunStep, RunBegin, RunSkip, HwInit, HwInitTimeout, Reset, FlagClear, drvVars
  <2>3. CASE Hardware
    BY <2>3 DEF Hardware, Engine, EngineFetch, EngineCopy, EngineEnd, EngineError,
                EngineStop, drvVars
  <2>4. CASE Handler
    <3>1. PICK e \in Chan : IsrEnter(e) \/ IsrBody(e)
      BY <2>4 DEF Handler
    <3>2. CASE IsrRefill(e)
      <4>1. eng[e] = "halt"
        BY <3>2 DEF IsrRefill, Verdict, IInv, IsrInv, ChanInv, EventInv
      <4>2. QED
        BY <3>2, <4>1 DEF IsrRefill, IInv, TypeOK
    <3>3. CASE ~IsrRefill(e)
      BY <3>1, <3>3 DEF IsrBody, IsrEnter, IsrDone, IsrError, IsrNothing, IsrExit, drvVars
    <3>4. QED
      BY <3>2, <3>3
  <2>5. QED
    BY <2>2, <2>3, <2>4 DEF Next
<1>2. QED
  BY <1>1, Invariance, PTL DEF Spec, FetchUndisturbed
=============================================================================
