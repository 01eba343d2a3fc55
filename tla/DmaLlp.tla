------------------------------- MODULE DmaLlp -------------------------------
(***************************************************************************)
(* The linked-list GDMA driver (module/gdma/dmac_llp.c, dmac.c) together   *)
(* with the DMA engine it programs and the interrupt handler that keeps    *)
(* the engine supplied.                                                    *)
(*                                                                         *)
(* Each channel owns two descriptors that point at each other.  A transfer *)
(* longer than one block is fed to the engine one descriptor at a time:    *)
(* the engine stops on the descriptor that is still zero, the handler      *)
(* fills it, zeroes the other one and asks the engine to resume.           *)
(*                                                                         *)
(* There is one CPU.  The handler runs to its end before the interrupted   *)
(* code goes on, so a step of the main thread requires that no handler is  *)
(* active; the engine runs at all times, in particular between the         *)
(* handler's read of the status register and its clear.                    *)
(***************************************************************************)
EXTENDS Integers

CONSTANTS
  MaxChan,       \* CONFIG_DMAC_CHA_MAX
  BlockMax,      \* DMA_BLOCK_MAX_SIZE, in words of 4 bytes
  Lengths,       \* transfer lengths the commands ask for, in words
  PromptEngine,  \* the event that follows a block is posted before a handler reads
  BusErrors,     \* the bus may answer with a decode error
  ReinitBusy     \* the controller may be re-initialised under a transfer

ASSUME MaxChanAssumption  == MaxChan \in Nat \ {0}
ASSUME BlockMaxAssumption == BlockMax \in Nat \ {0}
ASSUME LengthsAssumption  == Lengths \subseteq Nat
ASSUME SwitchAssumption   == {PromptEngine, BusErrors, ReinitBusy} \subseteq BOOLEAN

VARIABLES
  chid,      \* dmac.cha[i].id
  ctrlOn,    \* DMAC_CFGREG: controller and its interrupt output enabled
  gicOn,     \* the nine GDMA interrupts are enabled in the GIC
  cur,       \* lli_list[c]: the descriptor to be filled next
  stat,      \* lli_cpy.status
  todo,      \* lli_cpy.src/dst/length: what the descriptor is to carry
  lli,       \* the lli_struct the engine reads
  finished,  \* bDma_finished
  eng,       \* what the engine is doing with the channel
  llp,       \* DMAC_CHX_LLP: the descriptor the engine reads next
  blk,       \* the block the engine holds
  ints,      \* DMAC_CHX_INTSTATUS
  isr,       \* the interrupt handler: where it stands, for whom, what it read
  runAt,     \* dmac_run's loop index, MaxChan when no run is under way
  want,      \* history: words the last accepted transfer is to move
  moved,     \* history: words the engine has moved of it
  image      \* history: offsets of the words it has written

drvVars  == <<cur, stat, todo, lli>>
hwVars   == <<eng, llp, blk, ints>>
histVars == <<want, moved, image>>
mainVars == <<chid, ctrlOn, runAt>>
vars == <<drvVars, hwVars, histVars, mainVars, gicOn, finished, isr>>

Chan   == 0 .. MaxChan - 1
Desc   == {0, 1}                              \* lli_headN, lli_nextN
Status == {"READY", "RUN", "LAST", "FINISH"}
Event  == {"BLOCK", "DONE", "ERR", "INV"}     \* bits 0, 1, 5 and 6, 13
Other(d) == 1 - d                             \* lli_cpy.next

\* An address is kept as an offset from the transfer's start, in words: src
\* and dst advance together.  `src + len` steps a u64 pointer by a count of
\* 4-byte words, so a block of len words moves the pointers by two len.
PtrStep == 2

\* The words of the next block, and the mark its descriptor gets.
Slice(n)   == IF n > BlockMax THEN BlockMax ELSE n
MarkFor(n) == IF n > BlockMax THEN "RUN" ELSE "LAST"

\* The field holds length - 1 in log2(DMA_BLOCK_MAX_SIZE) bits: a length of
\* zero wraps round and asks for the largest block.
Beats(n) == IF n = 0 THEN BlockMax ELSE n

Blank == [valid |-> FALSE, off |-> 0, len |-> 0, last |-> FALSE]
\* The block of t.
Fill(t) == [valid |-> TRUE, off |-> t.off, len |-> Beats(Slice(t.left)),
            last |-> t.left <= BlockMax]

\* What is left once the block of t is taken; the first form subtracts a whole
\* block whatever is left.
AfterNoTest(t) == [off |-> t.off + PtrStep * BlockMax, left |-> t.left - BlockMax]
After(t) == [off  |-> t.off + PtrStep * Slice(t.left), left |-> t.left - Slice(t.left)]

Free(s)  == s \in {"READY", "FINISH"}
Idle(c)  == \A d \in Desc : Free(stat[c][d])
Busy(c)  == ~Idle(c)
Done(c)  == \A d \in Desc : stat[c][d] = "FINISH"

\* The driver's test before it takes a transfer, preceded by two shortened
\* forms: on one descriptor only, and without DMAC_LLP_FINISH.
CanAcceptHalf(c)  == Free(stat[c][cur[c]])
CanAcceptReady(c) == \A d \in Desc : stat[c][d] = "READY"
CanAccept(c)     == Free(stat[c][cur[c]]) /\ Free(stat[c][Other(cur[c])])

NoIsr == [at |-> "none", ch |-> 0, seen |-> {}]
MainRuns == isr.at = "none"
-----------------------------------------------------------------------------
Init ==
  /\ chid     = [c \in Chan |-> 0]
  /\ ctrlOn   = FALSE
  /\ gicOn    = FALSE
  /\ cur      = [c \in Chan |-> 0]
  /\ stat     = [c \in Chan |-> [d \in Desc |-> "READY"]]
  /\ todo     = [c \in Chan |-> [d \in Desc |-> [off |-> 0, left |-> 0]]]
  /\ lli      = [c \in Chan |-> [d \in Desc |-> Blank]]
  /\ finished = [c \in Chan |-> FALSE]
  /\ eng      = [c \in Chan |-> "off"]
  /\ llp      = [c \in Chan |-> 0]
  /\ blk      = [c \in Chan |-> Blank]
  /\ ints     = [c \in Chan |-> {}]
  /\ isr      = NoIsr
  /\ runAt    = MaxChan
  /\ want     = [c \in Chan |-> 0]
  /\ moved    = [c \in Chan |-> 0]
  /\ image    = [c \in Chan |-> {}]
-----------------------------------------------------------------------------
(* The driver's entry points, on the main thread.                          *)

\* dmac_ll_memcpy on a channel whose two descriptors are both free.
Accept(c, n) ==
  LET d == cur[c]
      t == [off |-> 0, left |-> n]
  IN /\ CanAccept(c)
     /\ lli'  = [lli EXCEPT ![c] = [e \in Desc |-> IF e = d THEN Fill(t) ELSE Blank]]
     /\ stat' = [stat EXCEPT ![c][d] = MarkFor(n)]
     /\ todo' = [todo EXCEPT ![c][Other(d)] = After(t)]
     /\ cur'  = [cur EXCEPT ![c] = Other(d)]
     /\ llp'  = [llp EXCEPT ![c] = d]
     /\ eng'  = [eng EXCEPT ![c] = "fetch"]
     /\ want'  = [want EXCEPT ![c] = Beats(n)]
     /\ moved' = [moved EXCEPT ![c] = 0]
     /\ image' = [image EXCEPT ![c] = {}]
     /\ UNCHANGED <<blk, ints, finished>>

\* ... and on one that is still at work: a message, and nothing else.
Refuse(c) ==
  /\ ~CanAccept(c)
  /\ UNCHANGED <<drvVars, hwVars, histVars, finished>>

Memcpy(c, n) == Accept(c, n) \/ Refuse(c)

\* dmac_start: one transfer on one channel.
Start(c, n) ==
  /\ MainRuns /\ runAt = MaxChan
  /\ chid[c] = c
  /\ ctrlOn' = TRUE
  /\ Memcpy(c, n)
  /\ UNCHANGED <<chid, gicOn, isr, runAt>>

\* dmac_run: enable the controller, then one iteration per channel.  Handlers
\* run between the iterations.
RunBegin ==
  /\ MainRuns /\ runAt = MaxChan
  /\ ctrlOn' = TRUE
  /\ runAt' = 0
  /\ UNCHANGED <<drvVars, hwVars, histVars, chid, gicOn, finished, isr>>

\* The channel carries another id, or its entry in the list is empty.
RunSkip(n) ==
  /\ MainRuns /\ runAt < MaxChan
  /\ chid[runAt] # runAt \/ n = 0
  /\ runAt' = runAt + 1
  /\ UNCHANGED <<drvVars, hwVars, histVars, chid, ctrlOn, gicOn, finished, isr>>

RunChannel(n) ==
  /\ MainRuns /\ runAt < MaxChan
  /\ chid[runAt] = runAt
  /\ n # 0
  /\ Memcpy(runAt, n)
  /\ runAt' = runAt + 1
  /\ UNCHANGED <<chid, ctrlOn, gicOn, isr>>

RunStep(n) == RunSkip(n) \/ RunChannel(n)

\* dmac_reset, in dmac_hw_init.  The controller loses its enable bits, every
\* channel stops and forgets its events.  The driver's own records of the
\* channels are not touched.
Reset ==
  /\ MainRuns /\ runAt = MaxChan
  /\ (ReinitBusy \/ \A c \in Chan : Idle(c))
  /\ eng'  = [c \in Chan |-> "off"]
  /\ ints' = [c \in Chan |-> {}]
  /\ ctrlOn' = FALSE
  /\ UNCHANGED <<drvVars, llp, blk, histVars, finished, isr, runAt>>

HwInit ==
  /\ Reset
  /\ chid' = [c \in Chan |-> c]
  /\ gicOn' = TRUE

\* dmac_reset gave up waiting for the reset bit to clear: dmac_hw_init returns
\* early.  (A reset that has had no effect at all is a stuttering step.)
HwInitTimeout ==
  /\ Reset
  /\ UNCHANGED <<chid, gicOn>>

\* dma_transfer_finished_flag_clear
FlagClear(c) ==
  /\ MainRuns /\ runAt = MaxChan
  /\ finished' = [finished EXCEPT ![c] = FALSE]
  /\ UNCHANGED <<drvVars, hwVars, histVars, mainVars, gicOn, isr>>
-----------------------------------------------------------------------------
(* The DMA engine.                                                         *)

\* It reads the descriptor LLP points at, and stops on one that is not valid.
EngineFetch(c) ==
  /\ ctrlOn /\ eng[c] = "fetch"
  /\ IF lli[c][llp[c]].valid
     THEN /\ blk' = [blk EXCEPT ![c] = lli[c][llp[c]]]
          /\ llp' = [llp EXCEPT ![c] = Other(@)]
          /\ eng' = [eng EXCEPT ![c] = "copy"]
          /\ UNCHANGED ints
     ELSE /\ ints' = [ints EXCEPT ![c] = @ \cup {"INV"}]
          /\ eng'  = [eng EXCEPT ![c] = "halt"]
          /\ UNCHANGED <<blk, llp>>
  /\ UNCHANGED <<drvVars, histVars, mainVars, gicOn, finished, isr>>

\* It moves the block and posts that it did.
EngineCopy(c) ==
  /\ ctrlOn /\ eng[c] = "copy"
  /\ moved' = [moved EXCEPT ![c] = @ + blk[c].len]
  /\ image' = [image EXCEPT ![c] = @ \cup (blk[c].off .. blk[c].off + blk[c].len - 1)]
  /\ ints' = [ints EXCEPT ![c] = @ \cup {"BLOCK"}]
  /\ eng'  = [eng EXCEPT ![c] = IF blk[c].last THEN "end" ELSE "fetch"]
  /\ UNCHANGED <<drvVars, llp, blk, want, mainVars, gicOn, finished, isr>>

\* After the last block it posts the end of the transfer,
EngineEnd(c) ==
  /\ ctrlOn /\ eng[c] = "end"
  /\ ints' = [ints EXCEPT ![c] = @ \cup {"DONE"}]
  /\ eng'  = [eng EXCEPT ![c] = "stop"]
  /\ UNCHANGED <<drvVars, llp, blk, histVars, mainVars, gicOn, finished, isr>>

\* or it meets a decode error instead of moving the block;
EngineError(c) ==
  /\ BusErrors
  /\ ctrlOn /\ eng[c] = "copy"
  /\ ints' = [ints EXCEPT ![c] = @ \cup {"ERR"}]
  /\ eng'  = [eng EXCEPT ![c] = "stop"]
  /\ UNCHANGED <<drvVars, llp, blk, histVars, mainVars, gicOn, finished, isr>>

\* in both cases it then clears the channel's enable bit.
EngineStop(c) ==
  /\ ctrlOn /\ eng[c] = "stop"
  /\ eng' = [eng EXCEPT ![c] = "off"]
  /\ UNCHANGED <<drvVars, llp, blk, ints, histVars, mainVars, gicOn, finished, isr>>

Engine(c) ==
  EngineFetch(c) \/ EngineCopy(c) \/ EngineEnd(c) \/ EngineStop(c)
-----------------------------------------------------------------------------
(* The handler of a channel's interrupt, irq_dma_chx.                      *)

\* Close the GDMA interrupts and read the status.
IsrEnter(c) ==
  /\ MainRuns
  /\ gicOn /\ ints[c] # {}
  /\ PromptEngine => eng[c] \notin {"fetch", "end"}
  /\ gicOn' = FALSE
  /\ isr' = [at |-> "handle", ch |-> c, seen |-> ints[c]]
  /\ UNCHANGED <<drvVars, hwVars, histVars, mainVars, finished>>

\* The handler tests the bits in this order and leaves at the first of the
\* three that ends or continues the transfer.
VerdictOnBlock(seen) ==
  IF seen \cap {"BLOCK", "DONE"} # {} THEN "done"
  ELSE IF "ERR" \in seen THEN "error"
  ELSE IF "INV" \in seen THEN "refill"
  ELSE "none"
Verdict(seen) ==
  IF "DONE" \in seen THEN "done"
  ELSE IF "ERR" \in seen THEN "error"
  ELSE IF "INV" \in seen THEN "refill"
  ELSE "none"

\* Both descriptors get the mark; the other form forgets lli_cpy->next.
MarkOne(c, s)  == [stat[c] EXCEPT ![cur[c]] = s]
MarkBoth(c, s) == [d \in Desc |-> s]

\* Every exit writes all enabled bits to the clear register, whatever was read.
ClearInts(c) == ints' = [ints EXCEPT ![c] = {}]

\* DMAC_CHX_BLK_TFR_RESUMEREQ, written or forgotten.
ResumeLost(s) == s
Resume(s)     == IF s = "halt" THEN "fetch" ELSE s

\* The transfer is complete: finish, and wait for the channel to go off.
IsrDone(c) ==
  /\ isr.at = "handle" /\ isr.ch = c
  /\ Verdict(isr.seen) = "done"
  /\ stat' = [stat EXCEPT ![c] = MarkBoth(c, "FINISH")]
  /\ finished' = [finished EXCEPT ![c] = TRUE]
  /\ ClearInts(c)
  /\ isr' = [isr EXCEPT !.at = "wait"]
  /\ UNCHANGED <<cur, todo, lli, eng, llp, blk, histVars, mainVars, gicOn>>

\* A decode error: the descriptors are free again, nobody is told.
IsrError(c) ==
  /\ isr.at = "handle" /\ isr.ch = c
  /\ Verdict(isr.seen) = "error"
  /\ stat' = [stat EXCEPT ![c] = MarkBoth(c, "READY")]
  /\ ClearInts(c)
  /\ isr' = [isr EXCEPT !.at = "wait"]
  /\ UNCHANGED <<cur, todo, lli, eng, llp, blk, histVars, mainVars, gicOn, finished>>

\* The two descriptors after a refill of d; the other form leaves the block
\* that was just moved in place of zeroing it.
RefillKeepingOld(c, d) == [lli[c] EXCEPT ![d] = Fill(todo[c][d])]
Refill(c, d) == [e \in Desc |-> IF e = d THEN Fill(todo[c][d]) ELSE Blank]

\* The engine stands on the zeroed descriptor: fill it and let it go on.
IsrRefill(c) ==
  LET d == cur[c]
      t == todo[c][d]
  IN /\ isr.at = "handle" /\ isr.ch = c
     /\ Verdict(isr.seen) = "refill"
     /\ lli'  = [lli EXCEPT ![c] = Refill(c, d)]
     /\ stat' = [stat EXCEPT ![c][d] = MarkFor(t.left)]
     /\ todo' = [todo EXCEPT ![c][Other(d)] = After(t)]
     /\ cur'  = [cur EXCEPT ![c] = Other(d)]
     /\ ClearInts(c)
     /\ eng'  = [eng EXCEPT ![c] = Resume(@)]
     /\ isr'  = NoIsr
     /\ gicOn' = TRUE
     /\ UNCHANGED <<llp, blk, histVars, mainVars, finished>>

\* Nothing but the end of a block was read.
IsrNothing(c) ==
  /\ isr.at = "handle" /\ isr.ch = c
  /\ Verdict(isr.seen) = "none"
  /\ ClearInts(c)
  /\ isr' = NoIsr
  /\ gicOn' = TRUE
  /\ UNCHANGED <<drvVars, eng, llp, blk, histVars, mainVars, finished>>

\* The loop that waits for the channel's enable bit; read one bit too far it
\* watches the next channel.
ChannelOffNext(c) == eng[(c + 1) % MaxChan] = "off"
ChannelNoWait(c)  == TRUE
ChannelOff(c)     == eng[c] = "off"

IsrExit(c) ==
  /\ isr.at = "wait" /\ isr.ch = c
  /\ ChannelOff(c)
  /\ isr' = NoIsr
  /\ gicOn' = TRUE
  /\ UNCHANGED <<drvVars, hwVars, histVars, mainVars, finished>>

IsrBody(c) == IsrDone(c) \/ IsrError(c) \/ IsrRefill(c) \/ IsrNothing(c) \/ IsrExit(c)
-----------------------------------------------------------------------------
Commands ==
  \/ \E c \in Chan, n \in Lengths : Start(c, n)
  \/ RunBegin
  \/ \E n \in Lengths \cup {0} : RunStep(n)
  \/ HwInit
  \/ HwInitTimeout
  \/ \E c \in Chan : FlagClear(c)

Hardware == \E c \in Chan : Engine(c) \/ EngineError(c)

Handler == \E c \in Chan : IsrEnter(c) \/ IsrBody(c)

Next == Commands \/ Hardware \/ Handler

Spec == Init /\ [][Next]_vars

\* The engine works, a handler runs to its end, a dmac_run loop goes on, and
\* a pending interrupt is taken: the GIC holds the level until it is.
Fairness ==
  /\ WF_vars(\E n \in Lengths \cup {0} : RunStep(n))
  /\ \A c \in Chan : /\ WF_vars(Engine(c))
                     /\ WF_vars(IsrBody(c))
                     /\ SF_vars(IsrEnter(c))

LiveSpec == Spec /\ Fairness
-----------------------------------------------------------------------------
(* Properties.                                                             *)

Block == [valid : BOOLEAN, off : Nat, len : Nat, last : BOOLEAN]
Slot  == [off : Nat, left : Nat]

\* The type invariant.
TypeOK ==
  /\ chid     \in [Chan -> Chan]
  /\ ctrlOn   \in BOOLEAN
  /\ gicOn    \in BOOLEAN
  /\ cur      \in [Chan -> Desc]
  /\ stat     \in [Chan -> [Desc -> Status]]
  /\ todo     \in [Chan -> [Desc -> Slot]]
  /\ lli      \in [Chan -> [Desc -> Block]]
  /\ finished \in [Chan -> BOOLEAN]
  /\ eng      \in [Chan -> {"off", "fetch", "copy", "halt", "end", "stop"}]
  /\ llp      \in [Chan -> Desc]
  /\ blk      \in [Chan -> Block]
  /\ ints     \in [Chan -> SUBSET Event]
  /\ isr      \in [at : {"none", "handle", "wait"}, ch : Chan, seen : SUBSET Event]
  /\ runAt    \in 0 .. MaxChan
  /\ want     \in [Chan -> Nat]
  /\ moved    \in [Chan -> Nat]
  /\ image    \in [Chan -> SUBSET Nat]

\* The block the engine is about to move is the next one of the transfer: it
\* begins where the pointers stand after the words moved so far, it has the
\* words that are due, and it is marked last exactly when nothing follows.
\* A stale descriptor, or one refilled from the wrong record, breaks this.
BlockInPlace ==
  \A c \in Chan : eng[c] = "copy" =>
    /\ blk[c].off = PtrStep * moved[c]
    /\ blk[c].len = Slice(want[c] - moved[c])
    /\ blk[c].last <=> moved[c] + blk[c].len = want[c]

\* Descriptors marked FINISH stand for a transfer all of whose words were
\* moved, however its interrupts fell between its blocks: one block of them when
\* none were asked for.
WholeLength == \A c \in Chan : Done(c) => moved[c] = want[c]

\* A channel whose descriptors are free is switched off, but for the time its
\* handler waits for that, and has no interrupt pending: the next transfer
\* never programs a live channel and never inherits an old event.
FreeMeansOff ==
  \A c \in Chan : Idle(c) =>
    /\ eng[c] = "off" \/ (eng[c] = "stop" /\ isr.at = "wait" /\ isr.ch = c)
    /\ ints[c] = {}

\* The driver leaves alone the descriptor the engine is reading.
FetchUndisturbed ==
  [][\A c \in Chan : eng[c] = "fetch" => lli'[c][llp[c]] = lli[c][llp[c]]]_vars

\* A channel marked busy has something under way that will bring its handler:
\* an engine that moves on by itself, or an interrupt that was not yet read.
NoOrphan ==
  \A c \in Chan : Busy(c) =>
    \/ eng[c] \in {"fetch", "copy", "end"}
    \/ eng[c] = "halt" /\ "INV" \in ints[c]
    \/ eng[c] \in {"stop", "off"} /\ ints[c] \cap {"DONE", "ERR"} # {}

\* Every transfer under way while interrupts reach the CPU, that is every one
\* accepted after dma_init, comes to its end with both descriptors FINISH.
Completes == \A c \in Chan : (gicOn /\ Busy(c)) ~> Done(c)

\* The handler's loop on the enable bit ends: interrupts, closed in the
\* meantime, are open again.
HandlerEnds == (isr.at = "wait") ~> gicOn

\* The driver keeps the promise of DmaCopy: a channel is busy from the accepted
\* call until its handler frees both descriptors.
Promise ==
  INSTANCE DmaCopy WITH
    busy <- [c \in Chan |-> Busy(c)]
Refines == Promise!Spec

(* The inductive form of the invariants above.                             *)

\* Where the transfer stands: the words moved, and those still to come.
Position(c) == [off |-> PtrStep * moved[c], left |-> want[c] - moved[c]]

\* The engine is about to read, or stands on, the descriptor to be filled next;
\* its record says where the transfer stands.
AwaitsRefill(c) ==
  /\ llp[c] = cur[c]
  /\ ~lli[c][cur[c]].valid
  /\ todo[c][cur[c]] = Position(c)

\* Unless the next block is the last one, the record of the descriptor to be filled
\* says what comes after it.
Recorded(c) ==
  Position(c).left > BlockMax => todo[c][cur[c]] = After(Position(c))

\* The engine is about to read the descriptor that carries the next block.
HasNext(c) ==
  /\ llp[c] = Other(cur[c])
  /\ lli[c][llp[c]] = Fill(Position(c))
  /\ ~lli[c][cur[c]].valid
  /\ Recorded(c)

\* The engine holds that block.
HoldsNext(c) ==
  /\ llp[c] = cur[c]
  /\ blk[c] = Fill(Position(c))
  /\ ~lli[c][cur[c]].valid
  /\ Recorded(c)

EngineInv(c) ==
  /\ eng[c] \in {"fetch", "copy", "halt"} => moved[c] < want[c]
  /\ eng[c] \in {"fetch", "copy", "halt", "end"} => Busy(c)
  /\ eng[c] = "fetch" => HasNext(c) \/ AwaitsRefill(c)
  /\ eng[c] = "copy" => HoldsNext(c)
  /\ eng[c] = "halt" => AwaitsRefill(c)
  /\ eng[c] = "end" => moved[c] = want[c]

EventInv(c) ==
  /\ "DONE" \in ints[c] => eng[c] \in {"stop", "off"} /\ moved[c] = want[c]
  /\ "ERR" \in ints[c] => eng[c] \in {"stop", "off"}
  /\ "INV" \in ints[c] => eng[c] = "halt"

StatusInv(c) ==
  /\ Done(c) => moved[c] = want[c]
  /\ Idle(c) => /\ eng[c] = "off" \/ (eng[c] = "stop" /\ isr.at = "wait" /\ isr.ch = c)
                /\ ints[c] = {}

IsrInv ==
  /\ isr.at = "handle" => isr.seen \subseteq ints[isr.ch] /\ Busy(isr.ch)
  /\ isr.at = "wait" => Idle(isr.ch)

ChanInv == \A c \in Chan : EngineInv(c) /\ EventInv(c) /\ StatusInv(c)

IInv == TypeOK /\ ChanInv /\ IsrInv

\* What `dmac chkseq` looks for after `dmac genseq` and `dmac xfer` of the same
\* length, a length in bytes to the first two and in words to the third: the
\* first length bytes of the destination carry the sequence.
ChkSeq ==
  \A c \in Chan : Done(c) => 0 .. (want[c] \div 4) - 1 \subseteq image[c]

\* What dma_transfer_finished is documented to tell: a transfer whose words
\* were all moved is in the end reported as finished.
EndReported ==
  \A c \in Chan : (eng[c] = "end" /\ ~finished[c]) ~> finished[c]
=============================================================================
