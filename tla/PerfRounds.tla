----------------------------- MODULE PerfRounds -----------------------------
(***************************************************************************)
(* The traffic of the SoC performance test (cmd/soc_perf.c) on top of the  *)
(* GDMA driver: start_perf_test initialises the controller, starts a       *)
(* transfer on every channel, and restarts them all, round after round, as *)
(* soon as every channel's finished flag is up, until the test's time is   *)
(* over.  The driver, the engine and the handler are those of DmaLlp.      *)
(***************************************************************************)
EXTENDS DmaLlp

CONSTANTS
  PerfLen,       \* the length fill_gdma_chn_message gives every channel
  Tests,         \* how many tests are started
  ResetMayFail   \* the controller's reset may time out

ASSUME PerfLenAssumption == PerfLen \in Nat \ {0}
ASSUME TestsAssumption   == Tests \in Nat /\ ResetMayFail \in BOOLEAN

VARIABLES
  pc,      \* where soc_perf_start_test stands
  next,    \* loop index of the flags being cleared
  tests,   \* history: tests started
  faulty   \* history: a reset has timed out, or the bus has answered with an error

perfVars == <<pc, next, tests, faulty>>
allVars  == <<vars, perfVars>>

PerfInit == Init /\ pc = "cli" /\ next = 0 /\ tests = 0 /\ faulty = FALSE

\* A step of the main thread within the command: no handler is active.
At(l)   == pc = l /\ MainRuns
GoTo(l) == pc' = l

StartTest ==
  /\ At("cli") /\ tests < Tests
  /\ tests' = tests + 1
  /\ GoTo("enable")
  /\ UNCHANGED <<vars, next, faulty>>

\* soc_perf_enable: dma_init, whose failure is not looked at.
Enable ==
  /\ At("enable")
  /\ \/ HwInit /\ UNCHANGED faulty
     \/ ResetMayFail /\ HwInitTimeout /\ faulty' = TRUE
  /\ GoTo("run")
  /\ UNCHANGED <<next, tests>>

\* dma_run(mem_list)
RunAll ==
  /\ At("run")
  /\ RunBegin
  /\ GoTo("running")
  /\ UNCHANGED <<next, tests, faulty>>

RunOne ==
  /\ At("running")
  /\ RunStep(PerfLen)
  /\ GoTo(IF runAt' = MaxChan THEN "poll" ELSE "running")
  /\ UNCHANGED <<next, tests, faulty>>

\* soc_perf_transfer_ctrl counts the flags that are up.  Only the main thread
\* lowers them, so the count is complete when it is so at the last reading.
AnyFinished == \E c \in Chan : finished[c]
AllFinished == \A c \in Chan : finished[c]

RoundOver ==
  /\ At("poll") /\ AllFinished
  /\ next' = 0
  /\ GoTo("clear")
  /\ UNCHANGED <<vars, tests, faulty>>

\* The bound of the loop that clears the flags, and one too small.
ClearLimitShort == MaxChan - 1
ClearLimit      == MaxChan

ClearFlag ==
  /\ At("clear") /\ next < ClearLimit
  /\ FlagClear(next)
  /\ next' = next + 1
  /\ UNCHANGED <<pc, tests, faulty>>

ClearEnd ==
  /\ At("clear") /\ next >= ClearLimit
  /\ GoTo("run")
  /\ UNCHANGED <<vars, next, tests, faulty>>

\* g_soc_perf_cycle_time is over: the loop is left whatever the channels do.
TimeUp ==
  /\ At("poll")
  /\ GoTo("cli")
  /\ UNCHANGED <<vars, next, tests, faulty>>

Command == Enable \/ RunAll \/ RunOne \/ RoundOver \/ ClearFlag \/ ClearEnd

Background ==
  \/ Handler /\ UNCHANGED perfVars
  \/ \E c \in Chan : Engine(c) /\ UNCHANGED perfVars
  \/ \E c \in Chan : EngineError(c) /\ faulty' = TRUE /\ UNCHANGED <<pc, next, tests>>

PerfNext == StartTest \/ Command \/ TimeUp \/ Background

PerfSpec == PerfInit /\ [][PerfNext]_allVars

\* A test that was begun goes on; the engine and the handler are as in DmaLlp.
\* Neither the start nor the end of a test is bound to happen.
PerfFairness ==
  /\ WF_allVars(Command)
  /\ \A c \in Chan : /\ WF_allVars(Engine(c) /\ UNCHANGED perfVars)
                     /\ WF_allVars(IsrBody(c) /\ UNCHANGED perfVars)
                     /\ SF_allVars(IsrEnter(c) /\ UNCHANGED perfVars)

PerfLiveSpec == PerfSpec /\ PerfFairness
-----------------------------------------------------------------------------
(* Properties.                                                             *)

PerfTypeOK ==
  /\ TypeOK
  /\ pc \in {"cli", "enable", "run", "running", "poll", "clear"}
  /\ next \in 0 .. MaxChan
  /\ tests \in 0 .. Tests
  /\ faulty \in BOOLEAN

\* What the comment in soc_perf_transfer_ctrl says of the moment the flags are
\* cleared: all channels completed data transfer.
RoundComplete == pc = "clear" => \A c \in Chan : Done(c) /\ moved[c] = PerfLen

\* When a round starts, the driver refuses none of the channels it is about to
\* reach and none still carries the flag of the round before: the flags counted
\* next are this round's.
ReadyToRun ==
  pc = "running" => \A c \in runAt .. MaxChan - 1 : CanAccept(c) /\ ~finished[c]

\* As long as a test goes on and nothing has failed, every channel is started on
\* a transfer again and again.
RoundsRecur ==
  \A c \in Chan : []<>(pc = "cli" \/ faulty \/ (eng[c] = "fetch" /\ moved[c] = 0))
=============================================================================
