----------------------------- MODULE PerfSampler ----------------------------
(***************************************************************************)
(* The measurements of the SoC performance test (cmd/soc_perf.c): the      *)
(* commands that choose what is measured, the sampling part of             *)
(* start_perf_test's loop with the two bits of the DDR monitors it plays   *)
(* on, and the buffers the get commands print row by row.                  *)
(*                                                                         *)
(* A measured value is represented by the sample it was taken in, a DDR    *)
(* monitor's value by the counter group that was selected as well; 0 is a  *)
(* cell that memset cleared.  The two monitors are always driven alike and *)
(* are kept as one.                                                        *)
(***************************************************************************)
EXTENDS Integers

CONSTANTS
  BuffSize,       \* COUNTER_BUFF_SIZE
  Word,           \* how many values a u64 has
  Groups,         \* ints asked for with set_ddr_grp, valid or not
  MaxSample       \* bound on the samples taken

ASSUME BuffSizeAssumption == BuffSize \in Nat \ {0}
ASSUME WordAssumption     == Word \in Nat /\ Word > 11
\* An int is narrower than a u64: as a u64 a negative one is far above 11.
ASSUME GroupsAssumption   == Groups \subseteq Int /\ \A g \in Groups : 11 < Word + g /\ g < Word
ASSUME SampleAssumption   == MaxSample \in Nat

VARIABLES
  grp,        \* g_soc_perf_ddr_grp_num
  port,       \* g_soc_perf_test_port
  hasTime,    \* g_soc_perf_cycle_time # 0
  pc,         \* where soc_perf_start_test stands
  sel,        \* COUNTER_SEL: the group the monitors count
  ctl,        \* MONITOR_CTRL: bits 6 (update) and 4 (clear)
  bufCnt,     \* uiBufCnt of save_sample_data
  stamp,      \* soc_perf_timestamp
  p0, p1,     \* soc_noc_port0/1_ddr0/1_buffer
  mon,        \* soc_ddr0/1_perf_counter0..3_buffer
  samples,    \* history: samples taken
  cleared,    \* history: how many of them before the last clear_data,
  grpSince,   \* history: before the group last was stored,
  portSince   \* history: before the port last was stored

config  == <<grp, port, hasTime>>
monitor == <<sel, ctl>>
rows    == <<stamp, p0, p1, mon>>
choice  == <<grpSince, portSince>>
history == <<samples, cleared, choice>>
vars    == <<config, pc, monitor, bufCnt, rows, history>>

Row == 0 .. BuffSize - 1
NoPort == 255
Empty == [at |-> 0, grp |-> 0]

Init ==
  /\ grp = 0 /\ port = 0 /\ hasTime = TRUE
  /\ pc = "cli"
  /\ sel = 0 /\ ctl = {}
  /\ bufCnt = 0
  /\ stamp = [i \in Row |-> 0]
  /\ p0    = [i \in Row |-> 0]
  /\ p1    = [i \in Row |-> 0]
  /\ mon   = [i \in Row |-> Empty]
  /\ samples = 0 /\ cleared = 0 /\ grpSince = 0 /\ portSince = 0
-----------------------------------------------------------------------------
(* The configuration commands, between tests.                              *)

AsU64(g) == IF g < 0 THEN Word + g ELSE g

\* set_ddr_grp tests an int and stores a u64: a group above 11 is refused and the
\* one there was is kept, a negative one is stored as a huge number, with which
\* no test starts until a valid one is set.
SetGroup(g) ==
  /\ pc = "cli"
  /\ IF g > 11 THEN UNCHANGED <<grp, grpSince>>
               ELSE grp' = AsU64(g) /\ grpSince' = samples
  /\ UNCHANGED <<port, hasTime, pc, monitor, bufCnt, rows, samples, cleared, portSince>>

\* set_port_num stores 0xff for a port it refuses: no test starts until a valid
\* one is set.
SetPort(p) ==
  /\ pc = "cli"
  /\ port' = IF p \in 0 .. 2 THEN p ELSE NoPort
  /\ portSince' = samples
  /\ UNCHANGED <<grp, hasTime, pc, monitor, bufCnt, rows, samples, cleared, grpSince>>

\* set_ctime; zero is refused and is stored.
SetTime(positive) ==
  /\ pc = "cli"
  /\ hasTime' = positive
  /\ UNCHANGED <<grp, port, pc, monitor, bufCnt, rows, history>>

\* The buffers clear_data empties, preceded by a form that forgets those of the
\* ports.  The place of the next row stays.
ClearMonitors ==
  /\ stamp' = [i \in Row |-> 0]
  /\ mon'   = [i \in Row |-> Empty]
  /\ UNCHANGED <<p0, p1>>
ClearAll ==
  /\ stamp' = [i \in Row |-> 0]
  /\ p0'    = [i \in Row |-> 0]
  /\ p1'    = [i \in Row |-> 0]
  /\ mon'   = [i \in Row |-> Empty]

ClearData ==
  /\ pc = "cli"
  /\ ClearAll
  /\ cleared' = samples
  /\ UNCHANGED <<config, pc, monitor, bufCnt, samples, choice>>
-----------------------------------------------------------------------------
(* start_perf_test.                                                        *)

\* ddrN_monitor_set_counter_group also lowers both control bits.
SelectNoReset(g) == sel' = g /\ UNCHANGED ctl
Select(g)        == sel' = g /\ ctl' = {}

\* check_all_config, preceded by a form that trusts set_ddr_grp.
ConfigTrusting == hasTime /\ port <= 2
ConfigValid    == hasTime /\ grp <= 11 /\ port <= 2

\* soc_perf_enable ends with the selection of the group; before it a form that
\* leaves this to the samples.
EnableOldGroup == sel' = sel /\ ctl' = {}
Enable         == Select(grp)

StartTest ==
  /\ pc = "cli"
  /\ ConfigValid
  /\ Enable
  /\ pc' = "poll"
  /\ UNCHANGED <<config, bufCnt, rows, history>>

\* g_sample_cycle is over: update_ddr_monitor raises bit 6.
Update ==
  /\ pc = "poll" /\ samples < MaxSample
  /\ ctl' = ctl \cup {"update"}
  /\ pc' = "save"
  /\ UNCHANGED <<config, sel, bufCnt, rows, history>>

\* ucPortEnable = g_soc_perf_test_port + 1, a bit for each port.
Port0On == (port + 1) % 2 = 1
Port1On == ((port + 1) \div 2) % 2 = 1

\* The row to be written: the counter is reduced before it is used.  Before it
\* two slips: one row too few, stopping at the end.
RowShort     == bufCnt % (BuffSize - 1)
RowCapped    == IF bufCnt >= BuffSize THEN BuffSize - 1 ELSE bufCnt
RowOf        == bufCnt % BuffSize

\* save_sample_data
Save ==
  LET i == RowOf
      s == samples + 1
  IN /\ pc = "save"
     /\ samples' = s
     /\ stamp' = [stamp EXCEPT ![i] = s]
     /\ p0' = IF Port0On THEN [p0 EXCEPT ![i] = s] ELSE p0
     /\ p1' = IF Port1On THEN [p1 EXCEPT ![i] = s] ELSE p1
     /\ mon' = [mon EXCEPT ![i] = [at |-> s, grp |-> sel]]
     /\ bufCnt' = i + 1
     /\ pc' = "clear"
     /\ UNCHANGED <<config, monitor, cleared, choice>>

\* clear_ddr_monitor_counter raises bit 4,
ClearCounter ==
  /\ pc = "clear"
  /\ ctl' = ctl \cup {"clear"}
  /\ pc' = "select"
  /\ UNCHANGED <<config, sel, bufCnt, rows, history>>

\* and select_ddr_monitor_group lowers both bits for the next time.
Reselect ==
  /\ pc = "select"
  /\ Select(grp)
  /\ pc' = "poll"
  /\ UNCHANGED <<config, bufCnt, rows, history>>

\* The test's time is over.  Bit 4 is left high.
TimeUp ==
  /\ pc = "poll"
  /\ ctl' = ctl \cup {"clear"}
  /\ pc' = "cli"
  /\ UNCHANGED <<config, sel, bufCnt, rows, history>>

Next ==
  \/ \E g \in Groups : SetGroup(g)
  \/ \E p \in 0 .. 3 : SetPort(p)
  \/ \E positive \in BOOLEAN : SetTime(positive)
  \/ ClearData
  \/ StartTest \/ Update \/ Save \/ ClearCounter \/ Reselect \/ TimeUp

Spec == Init /\ [][Next]_vars
-----------------------------------------------------------------------------
(* Properties.                                                             *)

TypeOK ==
  /\ grp \in 0 .. Word - 1
  /\ port \in {0, 1, 2, NoPort}
  /\ hasTime \in BOOLEAN
  /\ pc \in {"cli", "poll", "save", "clear", "select"}
  /\ sel \in 0 .. 11
  /\ ctl \subseteq {"update", "clear"}
  /\ bufCnt \in 0 .. BuffSize
  /\ stamp \in [Row -> 0 .. MaxSample]
  /\ p0 \in [Row -> 0 .. MaxSample] /\ p1 \in [Row -> 0 .. MaxSample]
  /\ mon \in [Row -> [at : 0 .. MaxSample, grp : 0 .. 11]]
  /\ samples \in 0 .. MaxSample /\ cleared \in 0 .. MaxSample
  /\ grpSince \in 0 .. MaxSample /\ portSince \in 0 .. MaxSample

\* A monitor takes over its counters, and clears them, when a bit goes from 0 to
\* 1: whenever a sample begins both bits are low, in the first sample of a later
\* test too, although every test leaves one of them high.
Armed == pc = "poll" => ctl = {}

\* The rows that hold a sample stand in time order when read from the next place
\* to be written round to the one before it, over any number of tests and
\* clear_data commands.
Age(i) == (i - RowOf + BuffSize) % BuffSize
RingOrder ==
  \A i, j \in Row :
    stamp[i] # 0 /\ stamp[j] # 0 /\ Age(i) < Age(j) => stamp[i] < stamp[j]

\* No sample is lost but by the ring going round: of those taken since the data
\* were cleared, the last BuffSize are there.
LastKept ==
  \A s \in cleared + 1 .. samples :
    s > samples - BuffSize => \E i \in Row : stamp[i] = s

\* What the get commands print in one line.  The monitors' counters were taken
\* with the time stamp beside them.  A port's value was taken after the last
\* clear_data and no later than the stamp; in the samples taken since the ports
\* were chosen, with the stamp.  (An older value stays beside a newer stamp when
\* its port is no longer measured.)
Beside(value, measured) ==
  \A i \in Row :
    /\ value[i] = 0 \/ value[i] \in cleared + 1 .. stamp[i]
    /\ measured /\ stamp[i] > portSince => value[i] = stamp[i]
RowTogether ==
  /\ \A i \in Row : mon[i].at = stamp[i]
  /\ Beside(p0, Port0On) /\ Beside(p1, Port1On)

\* get_ddr_mdata names every counter it prints after the group selected now: the
\* samples taken since that group was set, in any later test, were counted under
\* it.  (Older ones are printed under the new names.)
LabelsTrue == \A i \in Row : mon[i].at > grpSince => mon[i].grp = grp
=============================================================================
