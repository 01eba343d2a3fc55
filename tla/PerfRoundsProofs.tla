-------------------------- MODULE PerfRoundsProofs --------------------------
(***************************************************************************)
(* Theorems about PerfRounds.  The test is a client of the driver, so the  *)
(* driver's inductive invariant holds under it (Client); beside it two     *)
(* things are needed: what a raised flag says of its channel, at any time  *)
(* (Ours), and where the loops over the channels stand (Loops).            *)
(***************************************************************************)
EXTENDS PerfRounds, DmaLlpProofs

USE MaxChanAssumption, PerfLenAssumption, TestsAssumption

InLoop == next \in 0 .. MaxChan

LEMMA LoopStep == InLoop /\ [PerfNext]_allVars => InLoop'
<1> SUFFICES ASSUME InLoop, [PerfNext]_allVars PROVE InLoop'
  OBVIOUS
<1>1. CASE ClearFlag
  BY <1>1 DEF InLoop, ClearFlag, ClearLimit
<1>2. CASE RoundOver
  BY <1>2 DEF InLoop, RoundOver
<1>3. CASE UNCHANGED next
  BY <1>3 DEF InLoop
<1> QED
  BY <1>1, <1>2, <1>3
  DEF PerfNext, Command, StartTest, Enable, RunAll, RunOne, ClearEnd, TimeUp, Background,
      perfVars, allVars

\* A test does with the driver what any command may do.
LEMMA ClientStep ==
  ASSUME PerfLen \in Lengths, InLoop, [PerfNext]_allVars
  PROVE  [Next]_vars
<1>1. CASE StartTest
  BY <1>1 DEF StartTest
<1>2. CASE Enable
  BY <1>2 DEF Enable, Next, Commands
<1>3. CASE RunAll
  BY <1>3 DEF RunAll, Next, Commands
<1>4. CASE RunOne
  BY <1>4 DEF RunOne, Next, Commands
<1>5. CASE RoundOver \/ ClearEnd \/ TimeUp
  BY <1>5 DEF RoundOver, ClearEnd, TimeUp
<1>6. CASE ClearFlag
  <2>1. next \in Chan
    BY <1>6 DEF ClearFlag, ClearLimit, InLoop, Chan
  <2> QED BY <1>6, <2>1 DEF ClearFlag, Next, Commands
<1>7. CASE Background
  BY <1>7 DEF Background, Next, Hardware, Handler
<1>8. CASE UNCHANGED allVars
  BY <1>8 DEF allVars
<1> QED
  BY <1>1, <1>2, <1>3, <1>4, <1>5, <1>6, <1>7, <1>8 DEF PerfNext, Command

\* All that is proved of the driver holds while the test uses it.
THEOREM Client ==
  ASSUME PerfLen \in Lengths
  PROVE  PerfSpec => Spec
<1>1. PerfInit => Init /\ InLoop
  BY DEF PerfInit, InLoop
<1>2. InLoop /\ [PerfNext]_allVars => InLoop' /\ [Next]_vars
  BY LoopStep, ClientStep
<1> QED
  BY <1>1, <1>2, PTL DEF PerfSpec, Spec
-----------------------------------------------------------------------------
(* The channels.                                                           *)

\* A channel that is busy or has its flag up is at, or has done, the transfer of
\* a round, and a flag is up only when it is done.
Ours(c) ==
  /\ Busy(c) \/ finished[c] => want[c] = PerfLen
  /\ finished[c] => Done(c)

\* The driver will take a transfer, and the flag of the one before is down.
Ready(c) == CanAccept(c) /\ ~finished[c]

\* What the software knows of the channel is as before.
Untouched(c) ==
  /\ stat'[c] = stat[c] /\ cur'[c] = cur[c] /\ finished'[c] = finished[c] /\ want'[c] = want[c]

LEMMA UntouchedOurs ==
  ASSUME NEW c \in Chan, Untouched(c), Ours(c)
  PROVE  Ours(c)' /\ (Done(c) <=> Done(c)') /\ (Ready(c) <=> Ready(c)')
BY DEF Untouched, Ours, Ready, Busy, Idle, Done, CanAccept

\* The handler and the engine touch a channel only while it is busy.
LEMMA BackgroundStep ==
  ASSUME IInv, Background, NEW e \in Chan, Ours(e)
  PROVE  /\ Ours(e)'
         /\ Idle(e) => Untouched(e)
<1>1. ASSUME NEW c \in Chan, IsrDone(c) PROVE Ours(e)' /\ (Idle(e) => Untouched(e))
  <2>1. Busy(c) /\ stat \in [Chan -> [Desc -> Status]] /\ finished \in [Chan -> BOOLEAN]
    BY <1>1 DEF IInv, IsrInv, IsrDone, TypeOK
  <2>2. UNCHANGED <<cur, want>>
    BY <1>1 DEF IsrDone, histVars
  <2>3. /\ stat' = [stat EXCEPT ![c] = [d \in Desc |-> "FINISH"]]
        /\ finished' = [finished EXCEPT ![c] = TRUE]
    BY <1>1 DEF IsrDone, MarkBoth
  <2>4. CASE e = c
    <3>1. Done(e)' /\ want'[e] = PerfLen /\ ~Idle(e)
      BY <2>1, <2>2, <2>3, <2>4 DEF Done, Busy, Ours
    <3> QED BY <3>1 DEF Ours
  <2>5. CASE e # c
    <3>1. Untouched(e)
      BY <2>1, <2>2, <2>3, <2>5 DEF Untouched
    <3> QED BY <3>1, UntouchedOurs
  <2> QED BY <2>4, <2>5
<1>2. ASSUME NEW c \in Chan, IsrError(c) \/ IsrRefill(c) PROVE Ours(e)' /\ (Idle(e) => Untouched(e))
  <2>1. Busy(c) /\ stat \in [Chan -> [Desc -> Status]] /\ cur \in [Chan -> Desc]
    BY <1>2 DEF IInv, IsrInv, IsrError, IsrRefill, TypeOK
  <2>2. UNCHANGED <<finished, want>>
    BY <1>2 DEF IsrError, IsrRefill, histVars
  <2>3. CASE e = c
    <3>1. want[e] = PerfLen /\ ~Idle(e) /\ ~Done(e)
      BY <2>1, <2>3 DEF Ours, Busy, Idle, Done, Free
    <3>2. ~finished[e]
      BY <3>1 DEF Ours
    <3> QED BY <2>2, <3>1, <3>2 DEF Ours
  <2>4. CASE e # c
    <3>1. stat'[e] = stat[e] /\ cur'[e] = cur[e]
      BY <1>2, <2>1, <2>4 DEF IsrError, IsrRefill
    <3>2. Untouched(e)
      BY <2>2, <3>1 DEF Untouched
    <3> QED BY <3>2, UntouchedOurs
  <2> QED BY <2>3, <2>4
<1>3. ASSUME NEW c \in Chan, IsrEnter(c) \/ IsrNothing(c) \/ IsrExit(c) \/ Engine(c) \/ EngineError(c)
      PROVE  Ours(e)' /\ (Idle(e) => Untouched(e))
  <2>1. UNCHANGED <<stat, cur, finished, want>>
    BY <1>3 DEF IsrEnter, IsrNothing, IsrExit, Engine, EngineFetch, EngineCopy, EngineEnd, EngineStop,
                EngineError, drvVars, histVars
  <2>2. Untouched(e)
    BY <2>1 DEF Untouched
  <2> QED BY <2>2, UntouchedOurs
<1> QED
  BY <1>1, <1>2, <1>3 DEF Background, Handler, IsrBody

\* dma_run reaches a channel.
LEMMA AcceptStep ==
  ASSUME TypeOK, NEW c \in Chan, Accept(c, PerfLen), ~finished[c], NEW e \in Chan, Ours(e)
  PROVE  /\ Ours(e)'
         /\ e # c => Untouched(e)
<1>1. /\ stat \in [Chan -> [Desc -> Status]] /\ cur \in [Chan -> Desc] /\ want \in [Chan -> Nat]
  BY DEF TypeOK
<1>2. /\ want' = [want EXCEPT ![c] = PerfLen] /\ UNCHANGED finished
      /\ cur' = [cur EXCEPT ![c] = Other(cur[c])]
      /\ stat' = [stat EXCEPT ![c][cur[c]] = MarkFor(PerfLen)]
  BY DEF Accept, Beats
<1>3. CASE e = c
  BY <1>1, <1>2, <1>3 DEF Ours
<1>4. CASE e # c
  <2>1. Untouched(e)
    BY <1>1, <1>2, <1>4 DEF Untouched
  <2> QED BY <1>4, <2>1, UntouchedOurs
<1> QED BY <1>3, <1>4

LEMMA DoneAccepts == ASSUME TypeOK, NEW c \in Chan, Done(c) PROVE CanAccept(c)
<1>1. cur[c] \in Desc /\ Other(cur[c]) \in Desc
  BY TwoDesc DEF TypeOK
<1> QED BY <1>1 DEF Done, CanAccept, Free

LEMMA ReadyIdle ==
  ASSUME TypeOK, NEW c \in Chan, Ready(c)
  PROVE  Idle(c)
BY AcceptIdle DEF Ready

LEMMA DoneIdle == ASSUME NEW c \in Chan, Done(c) PROVE Idle(c)
BY DEF Done, Idle, Free
-----------------------------------------------------------------------------
(* The loops.                                                              *)

\* Every channel is ready when dma_run is called, and stays so until the loop
\* reaches it; while flags are cleared all transfers are done.
Loops ==
  /\ pc # "cli" => tests >= 1
  /\ (pc = "cli" /\ tests < Tests) \/ pc \in {"enable", "run"} => \A c \in Chan : Ready(c)
  /\ pc = "running" => \A c \in Chan : c >= runAt => Ready(c)
  /\ pc = "clear" => \A c \in Chan : /\ Done(c) /\ want[c] = PerfLen
                                     /\ c < next => ~finished[c]

Labels   == {"cli", "enable", "run", "running", "poll", "clear"}
LoopType == pc \in Labels /\ InLoop /\ tests \in 0 .. Tests /\ faulty \in BOOLEAN
AllOurs  == \A c \in Chan : Ours(c)

LEMMA LoopTypeStep == LoopType /\ [PerfNext]_allVars => LoopType'
<1> SUFFICES ASSUME LoopType, [PerfNext]_allVars PROVE LoopType'
  OBVIOUS
<1>1. InLoop'
  BY LoopStep DEF LoopType
<1>2. faulty' \in BOOLEAN
  BY Zenon DEF LoopType, PerfNext, Command, StartTest, Enable, RunAll, RunOne, RoundOver, ClearFlag,
               ClearEnd, TimeUp, Background, perfVars, allVars
<1>3. pc' \in Labels /\ tests' \in 0 .. Tests
  BY DEF LoopType, PerfNext, Command, StartTest, Enable, RunAll, RunOne, RoundOver, ClearFlag,
         ClearEnd, TimeUp, Background, perfVars, allVars, GoTo, At, Labels
<1> QED BY <1>1, <1>2, <1>3 DEF LoopType

LEMMA AllUntouched ==
  ASSUME UNCHANGED <<drvVars, histVars, finished>>, AllOurs
  PROVE  /\ AllOurs' /\ \A c \in Chan : Untouched(c)
         /\ \A c \in Chan : (Done(c) <=> Done(c)') /\ (Ready(c) <=> Ready(c)')
<1>1. ASSUME NEW c \in Chan PROVE Untouched(c)
  BY <1>1 DEF Untouched, drvVars, histVars
<1>2. Chan' = Chan
  BY DEF Chan
<1> QED BY <1>1, <1>2, UntouchedOurs DEF AllOurs

LEMMA RoundStep ==
  ASSUME IInv, LoopType, AllOurs, Loops, Tests <= 1, [PerfNext]_allVars
  PROVE  AllOurs' /\ Loops'
<1> USE DEF LoopType
<1>0. TypeOK /\ Chan' = Chan
  BY DEF IInv, Chan
<1>1. CASE StartTest
  <2>1. UNCHANGED <<drvVars, histVars, finished>> /\ pc = "cli" /\ tests < Tests
        /\ pc' = "enable" /\ tests' = tests + 1
    BY <1>1 DEF StartTest, At, GoTo, vars
  <2> QED BY <1>0, <2>1, AllUntouched DEF Loops
<1>2. CASE Enable
  <2>1. UNCHANGED <<drvVars, histVars, finished>> /\ pc = "enable" /\ pc' = "run" /\ tests' = tests
    BY <1>2 DEF Enable, At, GoTo, HwInit, HwInitTimeout, Reset
  <2> QED BY <1>0, <2>1, AllUntouched DEF Loops
<1>3. CASE RunAll
  <2>1. UNCHANGED <<drvVars, histVars, finished>> /\ pc = "run" /\ pc' = "running" /\ tests' = tests
    BY <1>3 DEF RunAll, At, GoTo, RunBegin
  <2> QED BY <1>0, <2>1, AllUntouched DEF Loops
<1>4. CASE RunOne
  <2>1. /\ pc = "running" /\ pc' \in {"running", "poll"} /\ tests' = tests
        /\ runAt < MaxChan /\ runAt' = runAt + 1 /\ runAt \in Chan
    BY <1>4, <1>0 DEF RunOne, At, GoTo, RunStep, RunSkip, RunChannel, TypeOK, Chan
  <2>2. Ready(runAt) /\ \A c \in Chan : c >= runAt => Ready(c)
    BY <2>1 DEF Loops, Chan, TypeOK
  <2>3. CASE UNCHANGED <<drvVars, histVars, finished>>
    <3>1. \A c \in Chan : c >= runAt' => Ready(c)'
      BY <2>1, <2>2, <2>3, AllUntouched DEF Chan
    <3> QED BY <1>0, <2>1, <2>3, <3>1, AllUntouched DEF Loops
  <2>4. CASE Accept(runAt, PerfLen)
    <3>1. ASSUME NEW c \in Chan PROVE Ours(c)' /\ (c # runAt => Untouched(c))
      BY <1>0, <2>1, <2>2, <2>4, AcceptStep DEF Ready, AllOurs
    <3>2. ASSUME NEW c \in Chan, c >= runAt' PROVE Ready(c)'
      <4>1. c # runAt /\ Ready(c)
        BY <2>1, <2>2, <3>2 DEF Chan
      <4> QED BY <3>1, <4>1, UntouchedOurs DEF AllOurs
    <3> QED BY <1>0, <2>1, <3>1, <3>2 DEF Loops, AllOurs
  <2> QED BY <1>4, <2>3, <2>4 DEF RunOne, RunStep, RunSkip, RunChannel, Memcpy, Refuse
<1>5. CASE RoundOver
  <2>1. UNCHANGED <<drvVars, histVars, finished>> /\ pc' = "clear" /\ pc = "poll" /\ tests' = tests
        /\ next' = 0 /\ \A c \in Chan : finished[c]
    BY <1>5 DEF RoundOver, At, GoTo, vars, AllFinished
  <2>2. \A c \in Chan : Done(c) /\ want[c] = PerfLen /\ ~(c < 0)
    BY <2>1 DEF AllOurs, Ours, Chan
  <2>3. UNCHANGED want
    BY <2>1 DEF histVars
  <2> QED BY <1>0, <2>1, <2>2, <2>3, AllUntouched DEF Loops
<1>6. CASE ClearFlag
  <2>1. /\ pc = "clear" /\ pc' = "clear" /\ tests' = tests /\ next' = next + 1 /\ next \in Chan
        /\ finished' = [finished EXCEPT ![next] = FALSE]
        /\ UNCHANGED <<stat, cur, want>>
    BY <1>6 DEF ClearFlag, At, FlagClear, ClearLimit, InLoop, Chan, drvVars, histVars
  <2>2. \A c \in Chan : finished'[c] = IF c = next THEN FALSE ELSE finished[c]
    BY <1>0, <2>1 DEF TypeOK
  <2>3. ASSUME NEW c \in Chan
        PROVE  /\ Done(c)' <=> Done(c)
               /\ Busy(c)' <=> Busy(c)
               /\ finished'[c] => finished[c]
               /\ c < next' => c < next \/ c = next
    <3>1. finished'[c] => finished[c]
      BY <2>2
    <3>2. (Done(c)' <=> Done(c)) /\ (Busy(c)' <=> Busy(c))
      BY <2>1 DEF Done, Busy, Idle
    <3>3. c < next' => c < next \/ c = next
      BY <2>1 DEF Chan
    <3> QED BY <3>1, <3>2, <3>3
  <2>4. AllOurs'
    BY <1>0, <2>1, <2>3 DEF AllOurs, Ours
  <2>5. \A c \in Chan : Done(c)' /\ want'[c] = PerfLen /\ (c < next' => ~finished'[c])
    BY <2>1, <2>2, <2>3 DEF Loops
  <2>6. tests' >= 1
    BY <2>1 DEF Loops
  <2>7. pc' = "clear" /\ pc' # "cli" /\ pc' # "running" /\ pc' \notin {"enable", "run"}
    BY <2>1
  <2>8. Loops'
    BY <1>0, <2>5, <2>6, <2>7, Zenon DEF Loops
  <2> QED BY <2>4, <2>8
<1>7. CASE ClearEnd
  <2>1. UNCHANGED <<drvVars, histVars, finished>> /\ pc' = "run" /\ pc = "clear" /\ tests' = tests
        /\ next >= MaxChan
    BY <1>7 DEF ClearEnd, At, GoTo, vars, ClearLimit
  <2>2. ASSUME NEW c \in Chan PROVE Ready(c)
    <3>1. c < next
      BY <2>1 DEF InLoop, Chan
    <3>2. Done(c) /\ ~finished[c]
      BY <2>1, <3>1 DEF Loops
    <3> QED BY <1>0, <3>2, DoneAccepts DEF Ready
  <2> QED BY <1>0, <2>1, <2>2, AllUntouched DEF Loops
<1>8. CASE TimeUp
  <2>1. UNCHANGED <<drvVars, histVars, finished>> /\ pc' = "cli" /\ pc = "poll" /\ tests' = tests
    BY <1>8 DEF TimeUp, At, GoTo, vars
  <2>2. ~(tests < Tests)
    BY <2>1 DEF Loops
  <2> QED BY <1>0, <2>1, <2>2, AllUntouched DEF Loops
<1>9. CASE Background
  <2>1. UNCHANGED <<pc, next, tests, runAt>>
    BY <1>9 DEF Background, perfVars, Handler, IsrBody, IsrEnter, IsrDone, IsrError, IsrRefill,
                IsrNothing, IsrExit, Engine, EngineFetch, EngineCopy, EngineEnd, EngineStop,
                EngineError, mainVars
  <2>2. AllOurs'
    BY <1>0, <1>9, BackgroundStep DEF AllOurs
  <2>3. ASSUME NEW c \in Chan
        PROVE  /\ Ready(c) => Ready(c)'
               /\ Done(c) => Done(c)' /\ want'[c] = want[c] /\ finished'[c] = finished[c]
    <3>1. Idle(c) => Untouched(c)
      BY <1>9, BackgroundStep DEF AllOurs
    <3>2. Ours(c)
      BY DEF AllOurs
    <3>3. Ready(c) \/ Done(c) => Idle(c)
      BY <1>0, ReadyIdle, DoneIdle
    <3> QED BY <3>1, <3>2, <3>3, UntouchedOurs DEF Untouched
  <2> QED BY <1>0, <2>1, <2>2, <2>3 DEF Loops
<1>10. CASE UNCHANGED allVars
  <2>1. UNCHANGED <<drvVars, histVars, finished, want, runAt, pc, next, tests>>
    BY <1>10 DEF allVars, perfVars, vars, histVars, mainVars
  <2> QED BY <1>0, <2>1, AllUntouched DEF Loops
<1> QED
  BY <1>1, <1>2, <1>3, <1>4, <1>5, <1>6, <1>7, <1>8, <1>9, <1>10 DEF PerfNext, Command
-----------------------------------------------------------------------------
LEMMA LoopTypeInit == PerfInit => LoopType
<1> SUFFICES ASSUME PerfInit PROVE LoopType
  OBVIOUS
<1>1. faulty \in BOOLEAN
  BY Zenon DEF PerfInit
<1>2. pc = "cli" /\ next = 0 /\ tests = 0
  BY DEF PerfInit
<1>3. pc \in Labels /\ next \in 0 .. MaxChan /\ tests \in 0 .. Tests
  BY <1>2 DEF Labels
<1> QED BY <1>1, <1>3 DEF LoopType, InLoop

\* Every variable keeps its type, for any number of tests.
THEOREM PerfTypeCorrect ==
  ASSUME PerfLen \in Lengths
  PROVE  PerfSpec => []PerfTypeOK
<1>1. PerfInit => LoopType
  BY LoopTypeInit
<1>2. LoopType /\ [PerfNext]_allVars => LoopType'
  BY LoopTypeStep
<1>3. TypeOK /\ LoopType => PerfTypeOK
  BY DEF PerfTypeOK, LoopType, InLoop, Labels
<1> QED BY <1>1, <1>2, <1>3, Client, TypeCorrect, PTL DEF PerfSpec

LEMMA RoundInvariance ==
  ASSUME PerfLen \in Lengths, Tests <= 1
  PROVE  PerfSpec => [](IInv /\ LoopType /\ AllOurs /\ Loops)
<1>1. PerfInit => LoopType /\ AllOurs /\ Loops
  <2> SUFFICES ASSUME PerfInit PROVE AllOurs /\ Loops
    BY LoopTypeInit
  <2>1. ASSUME NEW c \in Chan PROVE ~Busy(c) /\ ~finished[c] /\ CanAccept(c)
    BY <2>1 DEF PerfInit, Init, Busy, Idle, CanAccept, Free, Desc, Other
  <2>2. pc = "cli"
    BY DEF PerfInit
  <2> QED BY <2>1, <2>2 DEF AllOurs, Ours, Loops, Ready
<1>2. IInv /\ LoopType /\ AllOurs /\ Loops /\ [PerfNext]_allVars => LoopType' /\ AllOurs' /\ Loops'
  BY LoopTypeStep, RoundStep
<1>3. PerfSpec => []IInv
  BY Client, Invariance, PTL
<1> QED BY <1>1, <1>2, <1>3, PTL DEF PerfSpec

\* In the first test a round is over only when every channel has moved all it was
\* asked for (soc_perf_transfer_ctrl), also with bus errors and a failed reset.
THEOREM RoundsWhole ==
  ASSUME PerfLen \in Lengths, Tests <= 1
  PROVE  PerfSpec => []RoundComplete
<1>1. IInv /\ Loops => RoundComplete
  BY DEF IInv, ChanInv, StatusInv, Loops, RoundComplete
<1> QED BY <1>1, RoundInvariance, PTL

\* In the first test the driver refuses no channel when a round starts, and no
\* flag of the round before is still up (dma_run, soc_perf_transfer_ctrl).
THEOREM AlwaysReady ==
  ASSUME PerfLen \in Lengths, Tests <= 1
  PROVE  PerfSpec => []ReadyToRun
<1>1. IInv /\ Loops => ReadyToRun
  <2> SUFFICES ASSUME IInv, Loops, pc = "running", NEW c \in runAt .. MaxChan - 1
               PROVE  CanAccept(c) /\ ~finished[c]
    BY DEF ReadyToRun
  <2>1. c \in Chan /\ c >= runAt
    BY DEF IInv, TypeOK, Chan
  <2> QED BY <2>1 DEF Loops, Ready
<1> QED BY <1>1, RoundInvariance, PTL
=============================================================================
