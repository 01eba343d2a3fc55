------------------------- MODULE PerfSamplerProofs --------------------------
(***************************************************************************)
(* For any number of rows and any bound on the samples: the monitors are   *)
(* armed whenever a sample begins, the lines printed hold what was taken   *)
(* together since the last choice of what to measure, whatever the user    *)
(* chose before, and the ring keeps the last samples in their order,       *)
(* whatever is cleared.                                                    *)
(***************************************************************************)
EXTENDS PerfSampler, TLAPS

USE BuffSizeAssumption, WordAssumption, GroupsAssumption, SampleAssumption

\* The place of the next row is a row, and that of the row after it a counter
\* value the code may hold.
LEMMA RowOfType ==
  ASSUME bufCnt \in 0 .. BuffSize
  PROVE  RowOf \in Row /\ RowOf + 1 \in 0 .. BuffSize
<1>1. CASE bufCnt < BuffSize
  <2>1. bufCnt % BuffSize = bufCnt
    BY <1>1, SMT
  <2>2. QED
    BY <1>1, <2>1 DEF RowOf, Row
<1>2. CASE bufCnt = BuffSize
  <2>1. bufCnt % BuffSize = 0
    BY <1>2, SMT
  <2>2. QED
    BY <2>1 DEF RowOf, Row
<1>3. QED
  BY <1>1, <1>2

LEMMA SaveType ==
  ASSUME TypeOK, Save, samples < MaxSample
  PROVE  TypeOK'
<1> DEFINE i == RowOf
           s == samples + 1
<1>1. i \in Row /\ i + 1 \in 0 .. BuffSize /\ s \in 0 .. MaxSample
  BY RowOfType DEF TypeOK
<1>2. [at |-> s, grp |-> sel] \in [at : 0 .. MaxSample, grp : 0 .. 11]
  BY <1>1 DEF TypeOK
<1> HIDE DEF i, s
<1>3. /\ stamp' \in [Row -> 0 .. MaxSample]
      /\ p0' \in [Row -> 0 .. MaxSample] /\ p1' \in [Row -> 0 .. MaxSample]
      /\ mon' \in [Row -> [at : 0 .. MaxSample, grp : 0 .. 11]]
      /\ samples' \in 0 .. MaxSample /\ bufCnt' \in 0 .. BuffSize
  BY <1>1, <1>2 DEF TypeOK, Save, i, s
<1>4. QED
  BY <1>3 DEF TypeOK, Save, config, monitor, history, choice

\* A sample that is to be saved was allowed for, and a test runs with a valid
\* group.
Allowed ==
  /\ pc = "save" => samples < MaxSample
  /\ pc # "cli" => grp <= 11

\* An int, valid or negative, is stored as some u64.
LEMMA StoredType ==
  ASSUME NEW g \in Groups, ~(g > 11)
  PROVE  AsU64(g) \in 0 .. Word - 1
BY DEF AsU64

LEMMA StepType ==
  ASSUME TypeOK, Allowed, [Next]_vars
  PROVE  TypeOK' /\ Allowed'
<1> USE DEF TypeOK, Allowed, config, monitor, history, choice, rows
<1>1. ASSUME NEW g \in Groups, SetGroup(g) PROVE TypeOK' /\ Allowed'
  BY <1>1, StoredType DEF SetGroup
<1>2. ASSUME NEW p \in 0 .. 3, SetPort(p) PROVE TypeOK' /\ Allowed'
  BY <1>2 DEF SetPort, NoPort
<1>3. ASSUME NEW b \in BOOLEAN, SetTime(b) PROVE TypeOK' /\ Allowed'
  BY <1>3 DEF SetTime
<1>4. CASE ClearData
  <2>1. Empty \in [at : 0 .. MaxSample, grp : 0 .. 11]
    BY DEF Empty
  <2>2. QED
    BY <1>4, <2>1 DEF ClearData, ClearAll
<1>5. CASE StartTest
  BY <1>5 DEF StartTest, ConfigValid, Enable, Select
<1>6. CASE Update
  BY <1>6 DEF Update
<1>7. CASE Save
  <2>1. samples < MaxSample
    BY <1>7 DEF Save
  <2>2. TypeOK'
    BY <1>7, <2>1, SaveType
  <2>3. Allowed'
    BY <1>7 DEF Save
  <2>4. QED
    BY <2>2, <2>3
<1>8. CASE ClearCounter
  BY <1>8 DEF ClearCounter
<1>9. CASE Reselect
  BY <1>9 DEF Reselect, Select
<1>10. CASE TimeUp
  BY <1>10 DEF TimeUp
<1>11. CASE UNCHANGED vars
  BY <1>11 DEF vars
<1>12. QED
  BY <1>1, <1>2, <1>3, <1>4, <1>5, <1>6, <1>7, <1>8, <1>9, <1>10, <1>11 DEF Next

LEMMA InitType == Init => TypeOK /\ Allowed
<1> SUFFICES ASSUME Init PROVE TypeOK /\ Allowed
  OBVIOUS
<1>1. Empty \in [at : 0 .. MaxSample, grp : 0 .. 11]
  BY DEF Empty
<1>2. QED
  BY <1>1 DEF Init, TypeOK, Allowed

\* Every variable keeps its type; in particular a row that is written exists.
THEOREM TypeCorrect == Spec => []TypeOK
<1>1. TypeOK /\ Allowed /\ [Next]_vars => TypeOK' /\ Allowed'
  BY StepType
<1>2. QED
  BY <1>1, InitType, PTL DEF Spec
-----------------------------------------------------------------------------
\* Both control bits of the monitors are low whenever a sample begins.
THEOREM AlwaysArmed == Spec => []Armed
<1>1. Init => Armed
  BY DEF Init, Armed
<1>2. Armed /\ [Next]_vars => Armed'
  BY DEF Armed, Next, vars, monitor, config, SetGroup, SetPort, SetTime, ClearData,
         StartTest, Enable, Update, Save, ClearCounter, Reselect, TimeUp, Select
<1>3. QED
  BY <1>1, <1>2, PTL DEF Spec
-----------------------------------------------------------------------------
(* Lines that belong together.                                             *)

\* What a row holds.
RowFits(i) ==
  /\ stamp[i] <= samples
  /\ mon[i].at = stamp[i]
  /\ p0[i] = 0 \/ p0[i] \in cleared + 1 .. stamp[i]
  /\ p1[i] = 0 \/ p1[i] \in cleared + 1 .. stamp[i]
  /\ Port0On /\ stamp[i] > portSince => p0[i] = stamp[i]
  /\ Port1On /\ stamp[i] > portSince => p1[i] = stamp[i]
  /\ stamp[i] > grpSince => mon[i].grp = grp

\* Every row fits, and what the next sample is counted under is what was chosen.
Together ==
  /\ \A i \in Row : RowFits(i)
  /\ cleared <= samples
  /\ pc # "cli" => sel = grp

LEMMA SetTogether ==
  ASSUME TypeOK, Together,
         (\E g \in Groups : SetGroup(g)) \/ (\E p \in 0 .. 3 : SetPort(p))
  PROVE  Together'
<1>1. /\ UNCHANGED <<rows, samples, cleared>> /\ pc = "cli" /\ pc' = "cli" /\ Row' = Row
      /\ UNCHANGED <<grp, grpSince>> \/ grpSince' = samples
      /\ UNCHANGED <<port, portSince>> \/ portSince' = samples
  BY DEF SetGroup, SetPort, Row
<1>2. (\A i \in Row : RowFits(i)) /\ cleared <= samples
  BY DEF Together
<1>3. ASSUME NEW i \in Row PROVE RowFits(i)'
  <2>1. RowFits(i) /\ samples \in Nat /\ stamp[i] \in Nat
    BY <1>2 DEF TypeOK
  <2>2. /\ UNCHANGED <<stamp, p0, p1, mon>> /\ cleared' = cleared /\ samples' = samples
    BY <1>1 DEF rows
  <2>3. ((Port0On' <=> Port0On) /\ (Port1On' <=> Port1On)) \/ ~(stamp[i] > portSince')
    BY <1>1, <2>1 DEF Port0On, Port1On, RowFits
  <2>4. portSince' = portSince \/ ~(stamp[i] > portSince')
    BY <1>1, <2>1 DEF RowFits
  <2>5. UNCHANGED <<grp, grpSince>> \/ ~(stamp[i] > grpSince')
    BY <1>1, <2>1 DEF RowFits
  <2>6. QED
    BY <2>1, <2>2, <2>3, <2>4, <2>5 DEF RowFits
<1>4. QED
  BY <1>1, <1>2, <1>3 DEF Together

LEMMA ClearTogether ==
  ASSUME TypeOK, ClearData
  PROVE  Together'
<1>1. /\ \A i \in Row : stamp'[i] = 0 /\ p0'[i] = 0 /\ p1'[i] = 0 /\ mon'[i].at = 0
      /\ samples' = samples /\ cleared' = samples /\ pc' = "cli" /\ Row' = Row
  BY DEF ClearData, ClearAll, Empty, Row
<1>2. UNCHANGED <<grpSince, portSince>>
  BY DEF ClearData, choice
<1>3. samples \in Nat /\ grpSince \in Nat /\ portSince \in Nat
  BY DEF TypeOK
<1>4. ASSUME NEW i \in Row PROVE RowFits(i)'
  BY <1>1, <1>2, <1>3 DEF RowFits
<1>5. (\A i \in Row : RowFits(i))' /\ (cleared <= samples)'
  BY <1>1, <1>3, <1>4
<1>6. QED
  BY <1>1, <1>5 DEF Together

LEMMA SaveTogether ==
  ASSUME TypeOK, Together, Save
  PROVE  Together'
<1> DEFINE i == RowOf
           s == samples + 1
<1>1. i \in Row
  BY RowOfType DEF TypeOK
<1>2. /\ UNCHANGED <<port, grp, sel, cleared, grpSince, portSince>> /\ Row' = Row /\ pc = "save"
      /\ samples' = s /\ samples \in Nat /\ cleared \in Nat
  BY DEF Save, config, monitor, history, choice, Row, TypeOK
<1>3. /\ stamp' = [stamp EXCEPT ![i] = s]
      /\ p0' = IF Port0On THEN [p0 EXCEPT ![i] = s] ELSE p0
      /\ p1' = IF Port1On THEN [p1 EXCEPT ![i] = s] ELSE p1
      /\ mon' = [mon EXCEPT ![i] = [at |-> s, grp |-> sel]]
  BY DEF Save
<1>4. (Port0On' <=> Port0On) /\ (Port1On' <=> Port1On)
  BY <1>2 DEF Port0On, Port1On
<1>5. sel = grp /\ cleared <= samples /\ \A j \in Row : RowFits(j)
  BY <1>2 DEF Together
<1> HIDE DEF i
<1>6. ASSUME NEW j \in Row
      PROVE  RowFits(j)'
  <2>0. /\ stamp[j] \in Nat /\ p0[j] \in Nat /\ p1[j] \in Nat
    BY DEF TypeOK
  <2>1. CASE j = i
    <3>1. stamp'[j] = s /\ mon'[j] = [at |-> s, grp |-> sel]
      BY <1>1, <1>3, <2>1 DEF TypeOK
    <3>2. (Port0On /\ p0'[j] = s) \/ (~Port0On /\ p0'[j] = p0[j])
      BY <1>1, <1>3, <2>1 DEF TypeOK
    <3>3. (Port1On /\ p1'[j] = s) \/ (~Port1On /\ p1'[j] = p1[j])
      BY <1>1, <1>3, <2>1 DEF TypeOK
    <3>4. /\ p0[j] = 0 \/ p0[j] \in cleared + 1 .. s
          /\ p1[j] = 0 \/ p1[j] \in cleared + 1 .. s
      BY <1>2, <1>5, <2>0 DEF RowFits
    <3>5. s \in cleared + 1 .. s
      BY <1>2, <1>5
    <3>6. QED
      BY <1>2, <1>4, <1>5, <3>1, <3>2, <3>3, <3>4, <3>5 DEF RowFits
  <2>2. CASE j # i
    <3>1. stamp'[j] = stamp[j] /\ p0'[j] = p0[j] /\ p1'[j] = p1[j] /\ mon'[j] = mon[j]
      BY <1>3, <2>2 DEF TypeOK
    <3>2. QED
      BY <1>2, <1>4, <1>5, <2>0, <3>1 DEF RowFits
  <2>3. QED
    BY <2>1, <2>2
<1>7. cleared' <= samples'
  BY <1>2, <1>5
<1>8. QED
  BY <1>2, <1>5, <1>6, <1>7 DEF Together

\* The steps that touch neither the rows nor what is chosen.
LEMMA QuietTogether ==
  ASSUME Together, UNCHANGED <<rows, grp, port, history>>, pc' # "cli" => sel' = grp
  PROVE  Together'
<1>1. Row' = Row
  BY DEF Row
<1>2. QED
  BY <1>1 DEF Together, RowFits, Port0On, Port1On, rows, history, choice

LEMMA AlwaysTogether == Spec => []Together
<1>1. Init => Together
  <2> SUFFICES ASSUME Init PROVE Together
    OBVIOUS
  <2>1. /\ samples = 0 /\ cleared = 0 /\ grpSince = 0 /\ portSince = 0 /\ pc = "cli"
        /\ \A i \in Row : stamp[i] = 0 /\ p0[i] = 0 /\ p1[i] = 0 /\ mon[i].at = 0
    BY DEF Init, Empty
  <2>2. QED
    BY <2>1 DEF Together, RowFits
<1>2. TypeOK /\ Together /\ [Next]_vars => Together'
  <2> SUFFICES ASSUME TypeOK, Together, [Next]_vars PROVE Together'
    OBVIOUS
  <2>1. CASE \/ \E b \in BOOLEAN : SetTime(b)
             \/ StartTest \/ Update \/ ClearCounter \/ Reselect \/ TimeUp
             \/ UNCHANGED vars
    <3>1. UNCHANGED <<rows, grp, port, history>>
      BY <2>1 DEF SetTime, StartTest, Update, ClearCounter, Reselect, TimeUp, vars, config
    <3>2. pc' # "cli" => sel' = grp
      BY <2>1 DEF Together, SetTime, StartTest, Enable, Update, ClearCounter, Reselect,
                  TimeUp, vars, config, monitor, Select
    <3>3. QED
      BY <3>1, <3>2, QuietTogether
  <2>2. CASE Save
    BY <2>2, SaveTogether
  <2>3. CASE (\E g \in Groups : SetGroup(g)) \/ (\E p \in 0 .. 3 : SetPort(p))
    BY <2>3, SetTogether
  <2>4. CASE ClearData
    BY <2>4, ClearTogether
  <2>5. QED
    BY <2>1, <2>2, <2>3, <2>4 DEF Next
<1>3. QED
  BY <1>1, <1>2, TypeCorrect, PTL DEF Spec

\* However the ports are chosen and the data cleared between the tests, the
\* counters in a line were taken with its stamp, a port's value no later, and in
\* the samples since the ports were chosen with the stamp too.
THEOREM RowsTogether == Spec => []RowTogether
<1>1. Together => RowTogether
  BY DEF Together, RowFits, RowTogether, Beside
<1>2. QED
  BY <1>1, AlwaysTogether, PTL

\* However the group is set between the tests, refused and negative ones
\* included, what was sampled since then was counted by the counters whose names
\* get_ddr_mdata prints.
THEOREM LabelsAreTrue == Spec => []LabelsTrue
<1>1. Together => LabelsTrue
  BY DEF Together, RowFits, LabelsTrue
<1>2. QED
  BY <1>1, AlwaysTogether, PTL
-----------------------------------------------------------------------------
(* The ring of samples.                                                    *)

\* How many samples ago row i was written, or would have been.
Since(i) == IF i < RowOf THEN RowOf - i ELSE RowOf - i + BuffSize

\* Each row holds the sample of its turn, unless that was cleared or never taken.
InTurn ==
  /\ cleared <= samples
  /\ \A i \in Row : LET n == samples + 1 - Since(i)
                    IN  stamp[i] = IF n > cleared THEN n ELSE 0

LEMMA SinceFacts ==
  ASSUME TypeOK, NEW i \in Row
  PROVE  Since(i) \in 1 .. BuffSize /\ Age(i) = BuffSize - Since(i)
<1>1. RowOf \in 0 .. BuffSize - 1 /\ i \in 0 .. BuffSize - 1
  BY RowOfType DEF TypeOK, Row
<1>2. CASE i < RowOf
  <2>1. i - RowOf + BuffSize \in 0 .. BuffSize - 1
    BY <1>1, <1>2
  <2>2. (i - RowOf + BuffSize) % BuffSize = i - RowOf + BuffSize
    BY <2>1, SMT
  <2> QED BY <1>1, <1>2, <2>2 DEF Since, Age
<1>3. CASE ~(i < RowOf)
  <2>1. i - RowOf \in 0 .. BuffSize - 1
    BY <1>1, <1>3
  <2>2. (i - RowOf + BuffSize) % BuffSize = i - RowOf
    BY <2>1, SMT
  <2> QED BY <1>1, <1>3, <2>2 DEF Since, Age
<1> QED BY <1>2, <1>3

LEMMA NextRow ==
  ASSUME TypeOK, Save
  PROVE  RowOf' = IF RowOf = BuffSize - 1 THEN 0 ELSE RowOf + 1
<1>1. RowOf \in 0 .. BuffSize - 1 /\ bufCnt' = RowOf + 1
  BY RowOfType DEF TypeOK, Row, Save
<1>2. bufCnt' % BuffSize = IF RowOf = BuffSize - 1 THEN 0 ELSE RowOf + 1
  BY <1>1, SMT
<1> QED BY <1>2 DEF RowOf

LEMMA SaveTurn ==
  ASSUME TypeOK, InTurn, Save
  PROVE  InTurn'
<1> DEFINE r == RowOf
<1>1. r \in 0 .. BuffSize - 1 /\ r \in Row /\ Row' = Row /\ Row = 0 .. BuffSize - 1
  BY RowOfType DEF TypeOK, Row
<1>2. /\ samples' = samples + 1 /\ cleared' = cleared
      /\ stamp' = [stamp EXCEPT ![r] = samples + 1] /\ samples \in Nat /\ cleared \in Nat
  BY DEF Save, TypeOK
<1>3. RowOf' = IF r = BuffSize - 1 THEN 0 ELSE r + 1
  BY NextRow
<1>4. ASSUME NEW i \in Row
      PROVE  stamp'[i] = IF samples' + 1 - Since(i)' > cleared' THEN samples' + 1 - Since(i)' ELSE 0
  <2>1. CASE i = r
    <3>1. Since(i)' = 1
      BY <1>1, <1>3, <2>1 DEF Since
    <3>2. stamp'[i] = samples + 1
      BY <1>1, <1>2, <2>1 DEF TypeOK
    <3> QED BY <1>2, <3>1, <3>2 DEF InTurn
  <2>2. CASE i # r
    <3>1. Since(i)' = Since(i) + 1 /\ Since(i) \in Nat
      BY <1>1, <1>3, <2>2 DEF Since
    <3>2. stamp'[i] = stamp[i]
      BY <1>2, <2>2 DEF TypeOK
    <3>3. samples' + 1 - Since(i)' = samples + 1 - Since(i)
      BY <1>2, <3>1
    <3> QED BY <1>2, <3>2, <3>3 DEF InTurn
  <2> QED BY <2>1, <2>2
<1>5. cleared' <= samples'
  BY <1>2 DEF InTurn
<1> QED BY <1>1, <1>4, <1>5 DEF InTurn

LEMMA StepTurn == TypeOK /\ InTurn /\ [Next]_vars => InTurn'
<1> SUFFICES ASSUME TypeOK, InTurn, [Next]_vars PROVE InTurn'
  OBVIOUS
<1>1. CASE Save
  BY <1>1, SaveTurn
<1>2. CASE ClearData
  <2>1. /\ cleared' = samples /\ samples' = samples /\ bufCnt' = bufCnt
        /\ \A i \in Row : stamp'[i] = 0
    BY <1>2 DEF ClearData, ClearAll
  <2>2. Row' = Row /\ samples \in Nat
    BY DEF Row, TypeOK
  <2>3. ASSUME NEW i \in Row PROVE ~(samples + 1 - Since(i)' > samples)
    <3>1. Since(i)' = Since(i)
      BY <2>1 DEF Since, RowOf
    <3> QED BY <2>2, <3>1, SinceFacts
  <2> QED BY <2>1, <2>2, <2>3 DEF InTurn
<1>3. CASE UNCHANGED <<stamp, bufCnt, samples, cleared>>
  <2>1. Row' = Row /\ RowOf' = RowOf /\ UNCHANGED <<stamp, samples, cleared>>
    BY <1>3 DEF Row, RowOf
  <2> QED BY <2>1 DEF InTurn, Since
<1> QED
  BY <1>1, <1>2, <1>3
  DEF Next, SetGroup, SetPort, SetTime, StartTest, Update, ClearCounter, Reselect, TimeUp,
      rows, history, vars

LEMMA AlwaysInTurn == Spec => [](TypeOK /\ InTurn)
<1>1. Init => InTurn
  <2> SUFFICES ASSUME Init PROVE InTurn
    OBVIOUS
  <2>1. samples = 0 /\ cleared = 0 /\ \A i \in Row : stamp[i] = 0
    BY DEF Init
  <2>2. TypeOK
    BY InitType
  <2> QED BY <2>1, <2>2, SinceFacts DEF InTurn
<1>2. TypeOK /\ InTurn /\ [Next]_vars => InTurn'
  BY StepTurn
<1> QED BY <1>1, <1>2, TypeCorrect, PTL DEF Spec

\* Read from the next place to be written round to the one before it, the rows
\* that hold a sample stand in time order (save_sample_data, clear_data).
THEOREM RingInOrder == Spec => []RingOrder
<1>1. TypeOK /\ InTurn => RingOrder
  <2> SUFFICES ASSUME TypeOK, InTurn, NEW i \in Row, NEW j \in Row,
                      stamp[i] # 0, stamp[j] # 0, Age(i) < Age(j)
               PROVE  stamp[i] < stamp[j]
    BY DEF RingOrder
  <2>1. /\ Since(i) \in 1 .. BuffSize /\ Since(j) \in 1 .. BuffSize /\ samples \in Nat
        /\ Age(i) = BuffSize - Since(i) /\ Age(j) = BuffSize - Since(j)
    BY SinceFacts DEF TypeOK
  <2>2. stamp[i] = samples + 1 - Since(i) /\ stamp[j] = samples + 1 - Since(j)
    BY DEF InTurn
  <2> QED BY <2>1, <2>2
<1> QED BY <1>1, AlwaysInTurn, PTL

\* Of the samples taken since the data were cleared the last BuffSize are there.
THEOREM LastAreKept == Spec => []LastKept
<1>1. TypeOK /\ InTurn => LastKept
  <2> SUFFICES ASSUME TypeOK, InTurn, NEW s \in cleared + 1 .. samples, s > samples - BuffSize
               PROVE  \E i \in Row : stamp[i] = s
    BY DEF LastKept
  <2>1. RowOf \in 0 .. BuffSize - 1 /\ samples \in Nat /\ cleared \in Nat /\ s \in Nat
    BY RowOfType DEF TypeOK, Row
  <2> DEFINE n == samples + 1 - s
             i == IF n <= RowOf THEN RowOf - n ELSE RowOf - n + BuffSize
  <2>2. n \in 1 .. BuffSize /\ i \in Row /\ Since(i) = n
    BY <2>1 DEF Since, Row
  <2>3. samples + 1 - Since(i) = s /\ s > cleared
    BY <2>1, <2>2
  <2>4. stamp[i] = s
    BY <2>2, <2>3 DEF InTurn
  <2> QED BY <2>2, <2>4
<1> QED BY <1>1, AlwaysInTurn, PTL
=============================================================================
