--------------------------- MODULE R5SafetyProofs ---------------------------
(* Theorems about R5Safety.                                                *)
EXTENDS R5Safety, TLAPS

LEMMA PushFacts ==
  ASSUME NEW s \in Seq(Frame), NEW f \in Frame, NEW t, t = <<f>> \o s
  PROVE  /\ t \in Seq(Frame) /\ Len(t) = Len(s) + 1
         /\ t[1] = f
         /\ \A i \in 2 .. Len(t) : t[i] = s[i - 1]
  OBVIOUS

LEMMA TailFacts ==
  ASSUME NEW s \in Seq(Frame), s # <<>>
  PROVE  /\ Tail(s) \in Seq(Frame) /\ Len(Tail(s)) = Len(s) - 1
         /\ \A i \in 1 .. Len(s) - 1 : Tail(s)[i] = s[i + 1]
         /\ Head(s) = s[1] /\ s[1] \in Frame /\ Len(s) >= 1
  OBVIOUS

\* The step of a handler changes the frame on top.
LEMMA TopFacts ==
  ASSUME NEW s \in Seq(Frame), s # <<>>, NEW f \in Frame, NEW t, t = [s EXCEPT ![1] = f]
  PROVE  /\ t \in Seq(Frame) /\ Len(t) = Len(s)
         /\ t[1] = f
         /\ \A i \in 2 .. Len(s) : t[i] = s[i]
  OBVIOUS

LEMMA GoToFacts ==
  ASSUME NEW s \in Seq(Frame), s # <<>>, NEW a \in InIrq \cup InFiq \cup InAbort,
         NEW t, t = [s EXCEPT ![1].at = a]
  PROVE  /\ t \in Seq(Frame) /\ Len(t) = Len(s)
         /\ t[1] = [s[1] EXCEPT !.at = a] /\ s[1] \in Frame
         /\ \A i \in 2 .. Len(s) : t[i] = s[i]
<1>1. s[1] \in Frame /\ 1 \in DOMAIN s
  OBVIOUS
<1>2. [s[1] EXCEPT !.at = a] \in Frame
  BY <1>1 DEF Frame
<1>3. t = [s EXCEPT ![1] = [s[1] EXCEPT !.at = a]]
  OBVIOUS
<1> QED
  BY <1>1, <1>2, <1>3, TopFacts
-----------------------------------------------------------------------------
(* Every variable keeps its type.                                          *)

LEMMA TypeStep == TypeOK /\ [Next]_vars => TypeOK'
<1> SUFFICES ASSUME TypeOK, [Next]_vars PROVE TypeOK'
  OBVIOUS
<1> USE DEF TypeOK
<1> USE PlaceAssumption, WrapAssumption, InterruptAssumption
<1>frame. \A kind, at, p :
            kind \in {"irq", "fiq", "abort"} /\ at \in InIrq \cup InFiq \cup InAbort
              /\ p \in AllPlaces \cup {None} /\ Push(kind, at, p) => stack' \in Seq(Frame)
  BY PushFacts DEF Push, Frame
<1>goto. \A kind, at, to : In(kind, at) /\ to \in InIrq \cup InFiq \cup InAbort /\ GoTo(to)
            => stack' \in Seq(Frame)
  BY GoToFacts DEF In, GoTo
<1>pop. stack # <<>> /\ Return => stack' \in Seq(Frame)
  BY TailFacts DEF Return
<1>head. stack # <<>> => Head(stack) \in Frame /\ Head(stack) = stack[1]
  BY TailFacts
<1>ats. InIrq \cup InFiq \cup InAbort =
        {"flag", "ack", "run", "access", "end", "clear", "stuck", "test", "compare", "again", "first", "count"}
  BY DEF InIrq, InFiq, InAbort
<1>end. \A p \in AllPlaces \cup {None} : EndAt(p) => tries' \in [AllPlaces -> 0 .. 4] /\ fresh' \in [AllPlaces -> BOOLEAN]
  <2> TAKE p \in AllPlaces \cup {None}
  <2>1. CASE p \in AllPlaces
    BY <2>1 DEF EndAt
  <2>2. CASE p = None
    <3>1. EndAt(p) => tries' \in [AllPlaces -> 0 .. 4]
      BY <2>2 DEF EndAt
    <3>2. EndAt(p) => fresh' \in [AllPlaces -> BOOLEAN]
      BY <2>2 DEF EndAt
    <3> QED BY <3>1, <3>2
  <2> QED BY <2>1, <2>2
<1>begin. \A p \in AllPlaces : BeginAt(p) => tries' \in [AllPlaces -> 0 .. 4] /\ fresh' \in [AllPlaces -> BOOLEAN]
  BY DEF BeginAt
<1>abort. \A p \in AllPlaces : AbortAt(p) =>
            stack' \in Seq(Frame) /\ tries' \in [AllPlaces -> 0 .. 4] /\ fresh' \in [AllPlaces -> BOOLEAN]
  <2> SUFFICES ASSUME NEW p \in AllPlaces, AbortAt(p)
      PROVE stack' \in Seq(Frame) /\ tries' \in [AllPlaces -> 0 .. 4] /\ fresh' \in [AllPlaces -> BOOLEAN]
    OBVIOUS
  <2>1. stack' \in Seq(Frame)
    BY <1>frame, <1>ats DEF AbortAt
  <2>2. fresh' \in [AllPlaces -> BOOLEAN]
    BY DEF AbortAt
  <2>3. tries' \in [AllPlaces -> 0 .. 4]
    BY DEF AbortAt
  <2> QED BY <2>1, <2>2, <2>3
<1>places. Places \subseteq AllPlaces /\ IrqPlace \in AllPlaces /\ FiqPlace \in AllPlaces
  BY DEF AllPlaces
<1>1. ASSUME NEW p \in Places, Access(p) PROVE TypeOK'
  BY <1>1, <1>begin, <1>places DEF Access, outside
<1>2. CASE Attempt
  BY <1>2, <1>end, <1>abort, <1>places DEF Attempt, outside
<1>3. CASE Compare
  BY <1>3, <1>goto, <1>ats DEF Compare, outside, history
<1>4. CASE Again
  <2>1. sRtyCnt' \in 0 .. Wrap - 1
    BY <1>4, SMT DEF Again, Lowered
  <2>place. Head(stack).place \in AllPlaces \cup {None}
    BY <1>4, <1>head DEF Again, In, Frame
  <2>2. CASE Worth(sRtyCnt')
    BY <1>4, <2>1, <2>2, <1>pop DEF Again, In, outside
  <2>3. CASE ~Worth(sRtyCnt')
    <3>1. tries' \in [AllPlaces -> 0 .. 4] /\ fresh' \in [AllPlaces -> BOOLEAN]
      BY <1>4, <2>3, <2>place, <1>end DEF Again, Skip
    <3>2. stack' \in Seq(Frame) /\ main' \in Places \cup {None}
      <4>1. Tail(stack) \in Seq(Frame)
        BY <1>4, TailFacts DEF Again, In
      <4>2. CASE Tail(stack) = <<>>
        BY <1>4, <2>3, <4>1, <4>2 DEF Again, Skip
      <4>3. CASE Tail(stack) # <<>>
        BY <1>4, <2>3, <4>1, <4>3, GoToFacts, <1>ats DEF Again, Skip
      <4> QED BY <4>2, <4>3
    <3> QED BY <1>4, <2>1, <3>1, <3>2 DEF Again, outside
  <2> QED BY <2>2, <2>3
<1>5. CASE First
  <2>1. Head(stack).place \in AllPlaces \cup {None}
    BY <1>5, <1>head DEF First, In, Frame
  <2> QED BY <1>5, <2>1, <1>goto, <1>ats DEF First, Remember, outside, history
<1>6. CASE Count
  BY <1>6, <1>pop DEF Count, In, outside, history
<1>7. CASE TakeIrq
  BY <1>7, <1>frame, <1>ats DEF TakeIrq, outside, history
<1>8. CASE TakeFiq
  BY <1>8, <1>frame, <1>ats DEF TakeFiq, outside, history
<1>9. CASE SetFlag
  BY <1>9, <1>goto, <1>ats DEF SetFlag, outside, history
<1>ack. ASSUME NEW id \in Interrupts, stack # <<>>, Acknowledge(id)
        PROVE stack' \in Seq(Frame) /\ active' \subseteq Interrupts
  <2> DEFINE f == [stack[1] EXCEPT !.id = id, !.at = IF id \in Registered THEN "run" ELSE "stuck"]
  <2>1. f \in Frame
    BY <1>ack, <1>head, <1>ats DEF Frame
  <2>2. stack' = [stack EXCEPT ![1] = f]
    BY <1>ack, <1>head DEF Acknowledge
  <2>3. stack' \in Seq(Frame)
    BY <1>ack, <2>1, <2>2, TopFacts
  <2> QED BY <1>ack, <2>3 DEF Acknowledge
<1>10. CASE IrqAck
  BY <1>10, <1>ack DEF IrqAck, In, Pending, history
<1>11. CASE IrqNothing
  BY <1>11, <1>pop DEF IrqNothing, In, outside
<1>12. CASE IrqEnd
  BY <1>12, <1>goto, <1>ats DEF IrqEnd, history
<1>13. CASE ClearFlag
  BY <1>13, <1>pop DEF ClearFlag, FlagDown, In, outside
<1>14. CASE Test
  <2> DEFINE f == [stack[1] EXCEPT !.said = irqFlag, !.at = "ack"]
  <2>1. f \in Frame
    BY <1>14, <1>head, <1>ats DEF Test, In, Frame
  <2>2. stack' = [stack EXCEPT ![1] = f]
    BY <1>14, <1>head DEF Test, In
  <2>3. stack # <<>>
    BY <1>14 DEF Test, In
  <2>4. stack' \in Seq(Frame)
    <3> HIDE DEF f
    <3> QED BY <2>1, <2>2, <2>3, TopFacts
  <2> QED BY <1>14, <2>4 DEF Test, outside, history
<1>15. CASE FiqAck
  BY <1>15, <1>ack DEF FiqAck, In, Pending, history
<1>16. CASE FiqNothing
  BY <1>16, <1>pop DEF FiqNothing, EndsNothing, In, history
<1>17. CASE FiqEnd
  BY <1>17, <1>pop DEF FiqEnd, In, history
<1>18. CASE Serve
  <2>1. stack' \in Seq(Frame)
    BY <1>18, <1>goto, <1>ats DEF Serve
  <2>2. tries' \in [AllPlaces -> 0 .. 4] /\ fresh' \in [AllPlaces -> BOOLEAN]
    BY <1>18, <1>begin, <1>places DEF Serve, HandlerPlace
  <2> QED BY <1>18, <2>1, <2>2 DEF Serve
<1>19. CASE HandlerAttempt
  <2>1. HandlerPlace \in AllPlaces
    BY <1>places DEF HandlerPlace
  <2>2. CASE AbortAt(HandlerPlace)
    BY <1>19, <2>1, <2>2, <1>abort DEF HandlerAttempt, outside
  <2>3. CASE EndAt(HandlerPlace) /\ GoTo("end")
    BY <1>19, <2>1, <2>3, <1>end, <1>goto, <1>ats DEF HandlerAttempt, outside
  <2> QED BY <1>19, <2>2, <2>3 DEF HandlerAttempt
<1>20. ASSUME NEW i \in Interrupts, Raise(i) \/ Withdraw(i) PROVE TypeOK'
  BY <1>20 DEF Raise, Withdraw, handling, history
<1>21. CASE UNCHANGED vars
  BY <1>21 DEF vars, handling, outside, history
<1> QED
  BY <1>1, <1>2, <1>3, <1>4, <1>5, <1>6, <1>7, <1>8, <1>9, <1>10, <1>11, <1>12, <1>13, <1>14,
     <1>15, <1>16, <1>17, <1>18, <1>19, <1>20, <1>21
  DEF Next, Execute, DataAbort, Handlers, Environment
LEMMA TypeInit == Init => TypeOK
<1> SUFFICES ASSUME Init PROVE TypeOK
  OBVIOUS
<1>1. tries \in [AllPlaces -> 0 .. 4] /\ fresh \in [AllPlaces -> BOOLEAN]
  BY DEF Init
<1>2. stack \in Seq(Frame) /\ sRtyCnt \in 0 .. Wrap - 1
  BY WrapAssumption DEF Init
<1> QED BY <1>1, <1>2 DEF Init, TypeOK

\* Every variable of the handlers, the GIC and the histories keeps its type; the
\* stack of exceptions is always one of known places.
THEOREM TypeCorrect == Spec => []TypeOK
<1>1. Init => TypeOK
  BY TypeInit
<1>2. TypeOK /\ [Next]_vars => TypeOK'
  BY TypeStep
<1> QED BY <1>1, <1>2, PTL DEF Spec
-----------------------------------------------------------------------------
(* Facts about any stack s, flag fl and history no.                        *)

\* An IRQ is below everything else, there is one FIQ, and an abort stands over an
\* access.
Shape(s) ==
  /\ \A i \in 1 .. Len(s) :
       /\ s[i].kind = "irq" => s[i].at \in InIrq /\ i = Len(s)
       /\ s[i].kind = "fiq" => s[i].at \in InFiq
       /\ s[i].kind = "abort" => s[i].at \in InAbort
       /\ s[i].kind = "abort" /\ i < Len(s) => s[i + 1].at = "access"
  /\ \A i, j \in 1 .. Len(s) : s[i].kind = "fiq" /\ s[j].kind = "fiq" => i = j

Above(s, i) == \E j \in 1 .. Len(s) : j > i /\ s[j].kind = "irq" /\ s[j].at # "flag"

\* The flag is up from the time an IRQ has raised it on, and otherwise only if the
\* last came to nothing.
Flag(s, fl, no) == (Above(s, 0) => fl = 1) /\ (fl = 1 => Above(s, 0) \/ no = TRUE)

Reports(s, no) ==
  \A i \in 1 .. Len(s) : s[i].kind = "fiq" /\ s[i].at # "test" =>
    /\ Above(s, i) => s[i].said = 1
    /\ s[i].said = 1 => Above(s, i) \/ no = TRUE

Told(s, fl, no) == Shape(s) /\ Flag(s, fl, no) /\ Reports(s, no)

\* A new exception.
LEMMA TellPush ==
  ASSUME NEW s \in Seq(Frame), NEW fl, NEW no, Told(s, fl, no),
         NEW f \in Frame, NEW t, t = <<f>> \o s,
         \/ f.kind = "irq" /\ f.at = "flag" /\ s = <<>>
         \/ f.kind = "fiq" /\ f.at = "test" /\ \A i \in 1 .. Len(s) : s[i].kind # "fiq"
         \/ f.kind = "abort" /\ f.at = "compare" /\ (s # <<>> => s[1].at = "access")
  PROVE  Told(t, fl, no)
<1>1. t \in Seq(Frame) /\ Len(t) = Len(s) + 1 /\ t[1] = f /\ Len(s) \in Nat
  BY PushFacts
<1>2. \A i \in 1 .. Len(s) : i + 1 \in 1 .. Len(t) /\ t[i + 1] = s[i]
  BY PushFacts
<1>3. \A i \in 1 .. Len(t) : i = 1 \/ (i - 1 \in 1 .. Len(s) /\ t[i] = s[i - 1])
  BY PushFacts
<1>4. s = <<>> <=> Len(s) = 0
  OBVIOUS
<1>5. "flag" \in InIrq /\ "test" \in InFiq /\ "compare" \in InAbort
  BY DEF InIrq, InFiq, InAbort
<1>6. Shape(t)
  <2>1. ASSUME NEW i \in 1 .. Len(t)
        PROVE  /\ t[i].kind = "irq" => t[i].at \in InIrq /\ i = Len(t)
               /\ t[i].kind = "fiq" => t[i].at \in InFiq
               /\ t[i].kind = "abort" => t[i].at \in InAbort
               /\ t[i].kind = "abort" /\ i < Len(t) => t[i + 1].at = "access"
    <3>1. CASE i = 1
      BY <1>1, <1>2, <1>4, <1>5, <3>1
    <3>2. CASE i - 1 \in 1 .. Len(s) /\ t[i] = s[i - 1]
      <4>1. i < Len(t) => i \in 1 .. Len(s) /\ t[i + 1] = s[i] /\ i - 1 < Len(s) /\ (i - 1) + 1 = i
        <5>1. Len(t) = Len(s) + 1 /\ Len(s) \in Nat
          BY <1>1
        <5>2. i < Len(t) => i \in 1 .. Len(s)
          BY <3>2, <5>1
        <5>3. i < Len(t) => t[i + 1] = s[i]
          BY <1>2, <5>2
        <5> QED BY <3>2, <5>1, <5>2, <5>3
      <4>2. i - 1 = Len(s) => i = Len(t)
        BY <1>1, <3>2
      <4> QED BY <3>2, <4>1, <4>2 DEF Told, Shape
    <3> QED BY <1>3, <3>1, <3>2
  <2>2. \A i, j \in 1 .. Len(t) : t[i].kind = "fiq" /\ t[j].kind = "fiq" => i = j
    BY <1>1, <1>3 DEF Told, Shape
  <2> QED BY <2>1, <2>2 DEF Shape
<1>7. \A i \in 0 .. Len(s) : Above(t, i + 1) <=> Above(s, i)
  <2> TAKE i \in 0 .. Len(s)
  <2>1. ASSUME NEW j \in 1 .. Len(s), j > i, s[j].kind = "irq", s[j].at # "flag"
        PROVE  Above(t, i + 1)
    <3>1. j + 1 \in 1 .. Len(t) /\ t[j + 1] = s[j] /\ j + 1 > i + 1
      BY <1>1, <1>2, <2>1
    <3> QED BY <2>1, <3>1 DEF Above
  <2>2. ASSUME NEW j \in 1 .. Len(t), j > i + 1, t[j].kind = "irq", t[j].at # "flag"
        PROVE  Above(s, i)
    <3>1. j - 1 \in 1 .. Len(s) /\ t[j] = s[j - 1] /\ j - 1 > i
      BY <1>1, <1>3, <2>2
    <3> QED BY <2>2, <3>1 DEF Above
  <2> QED BY <2>1, <2>2 DEF Above
<1>8. Above(t, 0) <=> Above(s, 0)
  <2>1. Above(t, 1) <=> Above(s, 0)
    BY <1>7, <1>1
  <2>2. Above(t, 0) <=> Above(t, 1)
    BY <1>1 DEF Above
  <2> QED BY <2>1, <2>2
<1>9. Reports(t, no)
  <2> SUFFICES ASSUME NEW i \in 1 .. Len(t), t[i].kind = "fiq", t[i].at # "test"
      PROVE  (Above(t, i) => t[i].said = 1) /\ (t[i].said = 1 => Above(t, i) \/ no = TRUE)
    BY DEF Reports
  <2>1. i - 1 \in 1 .. Len(s) /\ t[i] = s[i - 1]
    BY <1>1, <1>3
  <2>2. i - 1 \in 0 .. Len(s) /\ (i - 1) + 1 = i
    BY <2>1
  <2>3. Above(t, i) <=> Above(s, i - 1)
    BY <1>7, <2>2
  <2> QED BY <2>1, <2>3 DEF Told, Reports
<1> QED BY <1>6, <1>8, <1>9 DEF Told, Flag

\* A return from an exception, with what an IRQ leaves behind.
LEMMA TellReturn ==
  ASSUME NEW s \in Seq(Frame), NEW fl, NEW no, NEW fl2, NEW no2, Told(s, fl, no),
         s # <<>>, NEW t, t = Tail(s),
         s[1].kind # "irq" => fl2 = fl /\ no2 = no,
         s[1].kind = "irq" => (fl2 = 1 => no2 = TRUE)
  PROVE  Told(t, fl2, no2)
<1>1. t \in Seq(Frame) /\ Len(t) = Len(s) - 1 /\ Len(t) \in Nat
  BY TailFacts
<1>2. \A i \in 1 .. Len(t) : i + 1 \in 1 .. Len(s) /\ t[i] = s[i + 1]
  BY TailFacts
<1>3. 1 \in 1 .. Len(s)
  BY <1>1
<1>6. Shape(t)
  <2>1. ASSUME NEW i \in 1 .. Len(t)
        PROVE  /\ t[i].kind = "irq" => t[i].at \in InIrq /\ i = Len(t)
               /\ t[i].kind = "fiq" => t[i].at \in InFiq
               /\ t[i].kind = "abort" => t[i].at \in InAbort
               /\ t[i].kind = "abort" /\ i < Len(t) => t[i + 1].at = "access"
    <3>1. i < Len(t) => i + 1 \in 1 .. Len(t) /\ t[i + 1] = s[(i + 1) + 1] /\ i + 1 < Len(s)
      BY <1>1, <1>2
    <3>2. i + 1 = Len(s) => i = Len(t)
      BY <1>1
    <3> QED BY <1>2, <3>1, <3>2 DEF Told, Shape
  <2>2. \A i, j \in 1 .. Len(t) : t[i].kind = "fiq" /\ t[j].kind = "fiq" => i = j
    <3> SUFFICES ASSUME NEW i \in 1 .. Len(t), NEW j \in 1 .. Len(t), t[i].kind = "fiq", t[j].kind = "fiq"
        PROVE  i = j
      OBVIOUS
    <3>1. s[i + 1].kind = "fiq" /\ s[j + 1].kind = "fiq" /\ i + 1 \in 1 .. Len(s) /\ j + 1 \in 1 .. Len(s)
      BY <1>2
    <3>2. i + 1 = j + 1
      BY <3>1 DEF Told, Shape
    <3> QED BY <3>2
  <2> QED BY <2>1, <2>2 DEF Shape
<1>7. \A i \in 0 .. Len(t) : Above(s, i + 1) <=> Above(t, i)
  <2> TAKE i \in 0 .. Len(t)
  <2>1. ASSUME NEW j \in 1 .. Len(t), j > i, t[j].kind = "irq", t[j].at # "flag"
        PROVE  Above(s, i + 1)
    <3>1. j + 1 \in 1 .. Len(s) /\ s[j + 1] = t[j] /\ j + 1 > i + 1
      BY <1>1, <1>2, <2>1
    <3> QED BY <2>1, <3>1 DEF Above
  <2>2. ASSUME NEW j \in 1 .. Len(s), j > i + 1, s[j].kind = "irq", s[j].at # "flag"
        PROVE  Above(t, i)
    <3>1. j - 1 \in 1 .. Len(t) /\ j - 1 > i /\ (j - 1) + 1 = j
      BY <1>1, <2>2
    <3>2. t[j - 1] = s[j]
      BY <1>2, <3>1
    <3> QED BY <2>2, <3>1, <3>2 DEF Above
  <2> QED BY <2>1, <2>2 DEF Above
<1>8. CASE s[1].kind # "irq"
  <2>1. Above(t, 0) <=> Above(s, 0)
    <3>1. Above(s, 1) <=> Above(t, 0)
      BY <1>7, <1>1
    <3>2. Above(s, 0) <=> Above(s, 1)
      BY <1>1, <1>8 DEF Above
    <3> QED BY <3>1, <3>2
  <2>2. Reports(t, no)
    <3> SUFFICES ASSUME NEW i \in 1 .. Len(t), t[i].kind = "fiq", t[i].at # "test"
        PROVE  (Above(t, i) => t[i].said = 1) /\ (t[i].said = 1 => Above(t, i) \/ no = TRUE)
      BY DEF Reports
    <3>1. i + 1 \in 1 .. Len(s) /\ t[i] = s[i + 1] /\ i \in 0 .. Len(t)
      BY <1>1, <1>2
    <3>2. Above(t, i) <=> Above(s, i + 1)
      BY <1>7, <3>1
    <3> QED BY <3>1, <3>2 DEF Told, Reports
  <2>3. fl2 = fl /\ no2 = no
    BY <1>8
  <2>4. Flag(t, fl, no)
    BY <2>1 DEF Told, Flag
  <2> QED BY <1>6, <2>2, <2>3, <2>4 DEF Told
<1>9. CASE s[1].kind = "irq"
  <2>0. 1 = Len(s)
    BY <1>3, <1>9 DEF Told, Shape
  <2>1. Len(t) = 0
    BY <1>1, <2>0
  <2>2. ~Above(t, 0) /\ Reports(t, no2)
    BY <2>1 DEF Above, Reports
  <2> QED BY <1>6, <1>9, <2>2 DEF Told, Flag
<1> QED BY <1>8, <1>9

\* A step of the exception on top.
LEMMA TellTop ==
  ASSUME NEW s \in Seq(Frame), NEW fl, NEW no, NEW fl2, Told(s, fl, no),
         s # <<>>, NEW f \in Frame, NEW t, t = [s EXCEPT ![1] = f],
         \/ f.kind = "irq" /\ s[1].kind = "irq" /\ f.at \in InIrq \ {"flag"} /\ fl2 = 1
         \/ f.kind = "fiq" /\ s[1].kind = "fiq" /\ f.at \in InFiq \ {"test"} /\ fl2 = fl
              /\ \/ s[1].at = "test" /\ f.said = fl
                 \/ s[1].at # "test" /\ f.said = s[1].said
         \/ f.kind = "abort" /\ s[1].kind = "abort" /\ f.at \in InAbort /\ fl2 = fl
  PROVE  Told(t, fl2, no)
<1>1. t \in Seq(Frame) /\ Len(t) = Len(s) /\ Len(s) \in Nat \ {0} /\ t[1] = f
  BY TopFacts
<1>2. \A i \in 2 .. Len(s) : t[i] = s[i]
  BY TopFacts
<1>3. f.kind = s[1].kind
  OBVIOUS
<1>6. Shape(t)
  <2>1. ASSUME NEW i \in 1 .. Len(t)
        PROVE  /\ t[i].kind = "irq" => t[i].at \in InIrq /\ i = Len(t)
               /\ t[i].kind = "fiq" => t[i].at \in InFiq
               /\ t[i].kind = "abort" => t[i].at \in InAbort
               /\ t[i].kind = "abort" /\ i < Len(t) => t[i + 1].at = "access"
    <3>1. i < Len(t) => i + 1 \in 2 .. Len(s) /\ t[i + 1] = s[i + 1]
      BY <1>1, <1>2
    <3>2. CASE i = 1
      BY <1>1, <3>1, <3>2 DEF Told, Shape
    <3>3. CASE i \in 2 .. Len(s)
      BY <1>1, <1>2, <3>1, <3>3 DEF Told, Shape
    <3> QED BY <1>1, <3>2, <3>3
  <2>2. \A i \in 1 .. Len(t) : t[i].kind = s[i].kind
    BY <1>1, <1>2, <1>3
  <2>3. \A i, j \in 1 .. Len(t) : t[i].kind = "fiq" /\ t[j].kind = "fiq" => i = j
    BY <1>1, <2>2 DEF Told, Shape
  <2> QED BY <2>1, <2>3 DEF Shape
<1>7. \A i \in 1 .. Len(s) : Above(t, i) <=> Above(s, i)
  BY <1>1, <1>2 DEF Above
<1>8. CASE s[1].kind = "irq"
  <2>1. Len(s) = 1
    BY <1>1, <1>8 DEF Told, Shape
  <2>2. Above(t, 0) /\ fl2 = 1
    BY <1>1, <1>8 DEF Above
  <2>3. Reports(t, no)
    BY <1>1, <1>8, <2>1 DEF Reports
  <2> QED BY <1>6, <2>2, <2>3 DEF Told, Flag
<1>9. CASE s[1].kind # "irq"
  <2>1. Above(t, 0) <=> Above(t, 1)
    BY <1>1, <1>3, <1>9 DEF Above
  <2>2. Above(s, 0) <=> Above(s, 1)
    BY <1>1, <1>9 DEF Above
  <2>3. Above(t, 1) <=> Above(s, 1)
    <3>1. 1 \in 1 .. Len(s)
      BY <1>1
    <3> QED BY <1>7, <3>1, Zenon
  <2>4. fl2 = fl
    BY <1>9
  <2>5. Flag(t, fl2, no)
    BY <2>1, <2>2, <2>3, <2>4 DEF Told, Flag
  <2>6. ASSUME NEW i \in 1 .. Len(t), t[i].kind = "fiq", t[i].at # "test"
        PROVE  (Above(t, i) => t[i].said = 1) /\ (t[i].said = 1 => Above(t, i) \/ no = TRUE)
    <3>1. CASE i \in 2 .. Len(s)
      BY <1>1, <1>2, <1>7, <2>6, <3>1 DEF Told, Reports
    <3>2. CASE i = 1 /\ s[1].at = "test" /\ f.said = fl
      BY <1>1, <2>2, <2>3, <3>2 DEF Told, Flag
    <3>3. CASE i = 1 /\ s[1].at # "test" /\ f.said = s[1].said
      BY <1>1, <1>3, <2>3, <2>6, <3>3 DEF Told, Reports
    <3>4. i = 1 => (s[1].at = "test" /\ f.said = fl) \/ (s[1].at # "test" /\ f.said = s[1].said)
      BY <1>1, <2>6
    <3>5. i = 1 \/ i \in 2 .. Len(s)
      BY <1>1
    <3> QED BY <3>1, <3>2, <3>3, <3>4, <3>5
  <2> QED BY <1>6, <2>5, <2>6 DEF Told, Reports
<1> QED BY <1>8, <1>9
-----------------------------------------------------------------------------
(* The invariant and its theorem.                                          *)

TellsAll == Told(stack, irqFlag, nothing)

LEMMA TellStep == TypeOK /\ TellsAll /\ [Next]_vars => TellsAll'
<1> SUFFICES ASSUME TypeOK, TellsAll, [Next]_vars PROVE TellsAll'
  OBVIOUS
<1> USE DEF TellsAll
<1>1. stack \in Seq(Frame) /\ irqFlag \in {0, 1} /\ nothing \in BOOLEAN
  BY DEF TypeOK
<1>2. stack # <<>> => /\ Head(stack) = stack[1] /\ stack[1] \in Frame /\ 1 \in 1 .. Len(stack)
                      /\ Tail(stack) \in Seq(Frame)
  BY <1>1, TailFacts
<1>top. \A a : stack # <<>> /\ a \in InIrq \cup InFiq \cup InAbort =>
          /\ [stack EXCEPT ![1].at = a] = [stack EXCEPT ![1] = [stack[1] EXCEPT !.at = a]]
          /\ [stack[1] EXCEPT !.at = a] \in Frame
  BY <1>1, <1>2 DEF Frame
<1>irq. ASSUME NEW at, NEW to \in InIrq \ {"flag"}, In("irq", at), GoTo(to), irqFlag' = 1,
               UNCHANGED nothing
        PROVE  TellsAll'
  <2> DEFINE f == [stack[1] EXCEPT !.at = to]
  <2>1. f \in Frame /\ f.kind = "irq" /\ f.at = to /\ stack[1].kind = "irq" /\ stack # <<>>
        /\ stack' = [stack EXCEPT ![1] = f]
    BY <1>irq, <1>1, <1>2, <1>top DEF In, GoTo, Frame
  <2> HIDE DEF f
  <2> QED BY <2>1, <1>1, <1>irq, TellTop
<1>flag. ASSUME NEW at, at # "flag", In("irq", at) PROVE irqFlag = 1
  BY <1>flag, <1>1, <1>2 DEF In, Told, Flag, Above
<1>fiq. ASSUME NEW at, at # "test", NEW to \in InFiq \ {"test"}, In("fiq", at), GoTo(to),
               UNCHANGED <<irqFlag, nothing>>
        PROVE  TellsAll'
  <2> DEFINE f == [stack[1] EXCEPT !.at = to]
  <2>1. f \in Frame /\ f.kind = "fiq" /\ f.at = to /\ f.said = stack[1].said
        /\ stack[1].kind = "fiq" /\ stack[1].at # "test" /\ stack # <<>>
        /\ stack' = [stack EXCEPT ![1] = f]
    BY <1>fiq, <1>1, <1>2, <1>top DEF In, GoTo, Frame
  <2> HIDE DEF f
  <2> QED BY <2>1, <1>1, <1>fiq, TellTop
<1>abort. ASSUME NEW at, NEW to \in InAbort, In("abort", at), GoTo(to), UNCHANGED <<irqFlag, nothing>>
          PROVE  TellsAll'
  <2> DEFINE f == [stack[1] EXCEPT !.at = to]
  <2>1. f \in Frame /\ f.kind = "abort" /\ f.at = to /\ stack[1].kind = "abort" /\ stack # <<>>
        /\ stack' = [stack EXCEPT ![1] = f]
    BY <1>abort, <1>1, <1>2, <1>top DEF In, GoTo, Frame
  <2> HIDE DEF f
  <2> QED BY <2>1, <1>1, <1>abort, TellTop
<1>back. ASSUME NEW kind, kind # "irq", NEW at, In(kind, at), Return, UNCHANGED <<irqFlag, nothing>>
         PROVE  TellsAll'
  BY <1>back, <1>1, <1>2, TellReturn DEF In, Return
<1>over. ASSUME NEW p \in AllPlaces, AbortAt(p), stack # <<>> => stack[1].at = "access",
                UNCHANGED <<irqFlag, nothing>>
         PROVE  TellsAll'
  <2> DEFINE f == [kind |-> "abort", at |-> "compare", id |-> None, place |-> p, said |-> 0]
  <2>1. f \in Frame /\ f.kind = "abort" /\ f.at = "compare" /\ stack' = <<f>> \o stack
    BY <1>over DEF Frame, AbortAt, Push, InAbort
  <2> HIDE DEF f
  <2> QED BY <2>1, <1>1, <1>over, TellPush
<1>ats. /\ InIrq = {"flag", "ack", "run", "access", "end", "clear", "stuck"}
        /\ InFiq = {"test", "ack", "run", "access", "end", "stuck"}
        /\ InAbort = {"compare", "again", "first", "count"}
  BY DEF InIrq, InFiq, InAbort
<1>a. ASSUME NEW p \in Places, Access(p) PROVE TellsAll'
  BY <1>a DEF Access
<1>b. CASE Attempt
  <2>1. CASE AbortAt(main)
    <3>1. main \in AllPlaces
      BY <1>b DEF Attempt, TypeOK, AllPlaces
    <3> QED BY <1>b, <2>1, <3>1, <1>over DEF Attempt
  <2>2. CASE UNCHANGED stack
    BY <1>b, <2>2 DEF Attempt
  <2> QED BY <1>b, <2>1, <2>2 DEF Attempt
<1>c. CASE Compare
  BY <1>c, <1>abort, <1>ats DEF Compare, history
<1>d. CASE Again
  <2>1. CASE Return
    BY <1>d, <2>1, <1>back DEF Again
  <2>2. CASE Skip
    <3> DEFINE below == Tail(stack)
    <3>1. stack # <<>> /\ stack[1].kind = "abort" /\ irqFlag' = irqFlag /\ nothing' = nothing
      BY <1>d, <1>2 DEF Again, In
    <3>2. Told(below, irqFlag, nothing)
      BY <3>1, <1>1, TellReturn
    <3>3. CASE stack' = below
      BY <3>1, <3>2, <3>3
    <3>4. CASE below # <<>> /\ stack' = [below EXCEPT ![1].at = "end"]
      <4> DEFINE f == [below[1] EXCEPT !.at = "end"]
      <4>1. below \in Seq(Frame) /\ below[1] \in Frame /\ 1 \in 1 .. Len(below) /\ Len(stack) > 1
            /\ below[1] = stack[2]
        BY <1>1, <3>1, <3>4, TailFacts
      <4>7. below # <<>>
        BY <3>4
      <4>2. below[1].at = "access" /\ below[1].kind # "abort"
        BY <3>1, <3>2, <4>1, <1>ats DEF Told, Shape
      <4>3. f \in Frame /\ f.kind = below[1].kind /\ f.at = "end" /\ f.said = below[1].said
        BY <4>1, <1>ats DEF Frame
      <4>4. stack' = [below EXCEPT ![1] = f]
        BY <3>4
      <4>5. below[1].kind = "irq" => irqFlag = 1
        BY <3>2, <4>1, <4>2 DEF Told, Flag, Above
      <4>6. below[1].kind = "irq" \/ below[1].kind = "fiq"
        BY <4>1, <4>2 DEF Frame
      <4> HIDE DEF f, below
      <4> QED BY <1>1, <1>ats, <3>1, <3>2, <4>7, <4>1, <4>2, <4>3, <4>4, <4>5, <4>6, TellTop
    <3> QED BY <2>2, <3>3, <3>4 DEF Skip
  <2> QED BY <1>d, <2>1, <2>2 DEF Again
<1>e. CASE First
  BY <1>e, <1>abort, <1>ats DEF First, history
<1>f. CASE Count
  BY <1>f, <1>back DEF Count, history
<1>g. CASE TakeIrq
  <2> DEFINE f == [kind |-> "irq", at |-> "flag", id |-> None, place |-> None, said |-> 0]
  <2>1. f \in Frame /\ f.kind = "irq" /\ f.at = "flag" /\ stack' = <<f>> \o stack
    BY <1>g, <1>ats DEF TakeIrq, Push, Frame
  <2>2. stack = <<>> /\ irqFlag' = irqFlag /\ nothing' = nothing
    BY <1>g DEF TakeIrq, history
  <2> HIDE DEF f
  <2> QED BY <1>1, <2>1, <2>2, TellPush
<1>h. CASE TakeFiq
  <2> DEFINE f == [kind |-> "fiq", at |-> "test", id |-> None, place |-> None, said |-> 0]
  <2>1. f \in Frame /\ f.kind = "fiq" /\ f.at = "test" /\ stack' = <<f>> \o stack
    BY <1>h, <1>ats DEF TakeFiq, Push, Frame
  <2>2. irqFlag' = irqFlag /\ nothing' = nothing /\ \A i \in 1 .. Len(stack) : stack[i].kind # "fiq"
    BY <1>1, <1>h DEF TakeFiq, history
  <2> HIDE DEF f
  <2> QED BY <1>1, <2>1, <2>2, TellPush
<1>i. CASE SetFlag
  BY <1>i, <1>irq, <1>ats DEF SetFlag, history
<1>ack. ASSUME NEW id \in Interrupts, In("irq", "ack") \/ In("fiq", "ack"), Acknowledge(id),
               UNCHANGED <<irqFlag, nothing>>
        PROVE  TellsAll'
  <2> DEFINE a == IF id \in Registered THEN "run" ELSE "stuck"
             f == [stack[1] EXCEPT !.id = id, !.at = a]
  <2>1. f \in Frame /\ f.kind = stack[1].kind /\ f.at = a /\ f.said = stack[1].said
        /\ a \in {"run", "stuck"} /\ stack[1].at = "ack" /\ stack # <<>>
    BY <1>ack, <1>2, <1>ats DEF In, Frame
  <2>2. stack' = [stack EXCEPT ![1] = f]
    BY <1>ack, <1>2 DEF Acknowledge, In
  <2>3. stack[1].kind = "irq" => irqFlag = 1
    BY <1>ack, <1>2, <1>flag DEF In
  <2>4. stack[1].kind = "irq" \/ stack[1].kind = "fiq"
    BY <1>ack, <1>2 DEF In
  <2> HIDE DEF f, a
  <2> QED BY <1>1, <1>ack, <1>ats, <2>1, <2>2, <2>3, <2>4, TellTop
<1>j. CASE IrqAck
  BY <1>j, <1>ack DEF IrqAck, Pending, Interrupts, history
<1>k. CASE IrqNothing
  <2>1. stack # <<>> /\ stack[1].kind = "irq" /\ stack' = Tail(stack) /\ nothing' = TRUE
    BY <1>k, <1>2 DEF IrqNothing, In, Return
  <2> QED BY <1>1, <2>1, TellReturn
<1>l. CASE IrqEnd
  BY <1>l, <1>irq, <1>flag, <1>ats DEF IrqEnd, history
<1>m. CASE ClearFlag
  <2>1. stack # <<>> /\ stack[1].kind = "irq" /\ stack' = Tail(stack) /\ irqFlag' = 0
    BY <1>m, <1>2 DEF ClearFlag, FlagDown, In, Return
  <2>2. ~(irqFlag' = 1)
    BY <2>1
  <2> QED BY <1>1, <2>1, <2>2, TellReturn
<1>n. CASE Test
  <2> DEFINE f == [stack[1] EXCEPT !.said = irqFlag, !.at = "ack"]
  <2>1. f \in Frame /\ f.kind = "fiq" /\ f.at = "ack" /\ f.said = irqFlag
        /\ stack[1].kind = "fiq" /\ stack[1].at = "test" /\ stack # <<>>
    BY <1>n, <1>1, <1>2, <1>ats DEF Test, In, Frame
  <2>2. stack' = [stack EXCEPT ![1] = f] /\ irqFlag' = irqFlag /\ nothing' = nothing
    BY <1>n, <1>2 DEF Test, In, history
  <2> HIDE DEF f
  <2> QED BY <1>1, <1>ats, <2>1, <2>2, TellTop
<1>o. CASE FiqAck
  BY <1>o, <1>ack DEF FiqAck, Pending, Interrupts, history
<1>p. CASE FiqNothing
  BY <1>p, <1>back DEF FiqNothing, history
<1>q. CASE FiqEnd
  BY <1>q, <1>back DEF FiqEnd, history
<1>r. CASE Serve
  <2>1. ASSUME NEW to \in {"end", "access"}, GoTo(to) PROVE TellsAll'
    BY <1>r, <2>1, <1>irq, <1>fiq, <1>flag, <1>ats DEF Serve
  <2> QED BY <1>r, <2>1 DEF Serve
<1>s. CASE HandlerAttempt
  <2>1. CASE AbortAt(HandlerPlace)
    BY <1>s, <2>1, <1>2, <1>over DEF HandlerAttempt, In, HandlerPlace, AllPlaces
  <2>2. CASE GoTo("end")
    BY <1>s, <2>2, <1>irq, <1>fiq, <1>flag, <1>ats DEF HandlerAttempt
  <2> QED BY <1>s, <2>1, <2>2 DEF HandlerAttempt
<1>t. ASSUME NEW i \in Interrupts, Raise(i) \/ Withdraw(i) PROVE TellsAll'
  BY <1>t DEF Raise, Withdraw, handling, history
<1>u. CASE UNCHANGED vars
  BY <1>u DEF vars, handling, history
<1> QED
  BY <1>a, <1>b, <1>c, <1>d, <1>e, <1>f, <1>g, <1>h, <1>i, <1>j, <1>k, <1>l, <1>m, <1>n, <1>o,
     <1>p, <1>q, <1>r, <1>s, <1>t, <1>u
  DEF Next, Execute, DataAbort, Handlers, Environment

\* An FIQ reports that it came in an IRQ whenever the IRQ had raised its flag, and
\* otherwise only after an IRQ that came to nothing (irq_enter, fiq_enter).
THEOREM AlwaysReported == Spec => []Preempted
<1>1. Init => TypeOK /\ TellsAll
  <2>1. Init => TellsAll
    BY DEF Init, TellsAll, Told, Shape, Flag, Reports, Above
  <2>2. Init => TypeOK
    BY TypeInit
  <2> QED BY <2>1, <2>2
<1>2. TypeOK /\ TellsAll /\ [Next]_vars => TypeOK' /\ TellsAll'
  BY TypeStep, TellStep
<1>3. TypeOK /\ TellsAll => Preempted
  <2> SUFFICES ASSUME TypeOK, TellsAll, NEW i \in DOMAIN stack,
                      stack[i].kind = "fiq", stack[i].at # "test"
      PROVE  (Within(i) => stack[i].said = 1) /\ (stack[i].said = 1 => Within(i) \/ nothing)
    BY DEF Preempted
  <2>1. DOMAIN stack = 1 .. Len(stack)
    BY DEF TypeOK
  <2>2. Within(i) <=> Above(stack, i)
    BY <2>1 DEF Within, Above
  <2> QED BY <2>1, <2>2 DEF TellsAll, Told, Reports
<1> QED BY <1>1, <1>2, <1>3, PTL DEF Spec
-----------------------------------------------------------------------------
(* What the GIC holds active.                                              *)

\* Set a holds the interrupts of the frames of s that were acknowledged and have
\* not ended them, each the interrupt of one frame only.
Open     == {"run", "access", "end", "stuck"}
Holds(s, a) ==
  /\ \A i \in 1 .. Len(s) : s[i].at \in Open => s[i].id \in a
  /\ \A x \in a : \E i \in 1 .. Len(s) : s[i].at \in Open /\ s[i].id = x
  /\ \A i, j \in 1 .. Len(s) : s[i].at \in Open /\ s[j].at \in Open /\ s[i].id = s[j].id => i = j

LEMMA HoldPush ==
  ASSUME NEW s \in Seq(Frame), NEW a, Holds(s, a), NEW f \in Frame, f.at \notin Open,
         NEW t, t = <<f>> \o s
  PROVE  Holds(t, a)
<1>1. /\ Len(t) = Len(s) + 1 /\ t[1] = f /\ Len(s) \in Nat
      /\ \A i \in 2 .. Len(t) : t[i] = s[i - 1]
  BY PushFacts
<1>2. \A i \in 1 .. Len(t) : t[i].at \in Open => i \in 2 .. Len(t) /\ i - 1 \in 1 .. Len(s) /\ t[i] = s[i - 1]
  BY <1>1
<1>3. \A i \in 1 .. Len(s) : i + 1 \in 1 .. Len(t) /\ t[i + 1] = s[i]
  BY <1>1
<1>4. /\ \A i \in 1 .. Len(t) : t[i].at \in Open => t[i].id \in a
      /\ \A x \in a : \E i \in 1 .. Len(t) : t[i].at \in Open /\ t[i].id = x
  BY <1>2, <1>3 DEF Holds
<1>5. ASSUME NEW i \in 1 .. Len(t), NEW j \in 1 .. Len(t), t[i].at \in Open, t[j].at \in Open,
             t[i].id = t[j].id
      PROVE  i = j
  <2>1. i - 1 = j - 1
    BY <1>2, <1>5 DEF Holds
  <2> QED BY <2>1
<1> QED BY <1>4, <1>5 DEF Holds

\* The end of the exception on top, which may end its interrupt.
LEMMA HoldPop ==
  ASSUME NEW s \in Seq(Frame), NEW a, Holds(s, a), s # <<>>, NEW b,
         b = IF s[1].at \in Open THEN a \ {s[1].id} ELSE a
  PROVE  Holds(Tail(s), b)
<1> DEFINE t == Tail(s)
<1>1. /\ Len(t) = Len(s) - 1 /\ Len(s) \in Nat \ {0} /\ t \in Seq(Frame)
      /\ \A i \in 1 .. Len(t) : t[i] = s[i + 1] /\ i + 1 \in 1 .. Len(s)
  BY TailFacts
<1> HIDE DEF t
<1>2. \A i \in 2 .. Len(s) : i - 1 \in 1 .. Len(t) /\ t[i - 1] = s[i]
  BY <1>1
<1>3. ASSUME NEW x, x \in b PROVE \E i \in 1 .. Len(t) : t[i].at \in Open /\ t[i].id = x
  <2>1. PICK i \in 1 .. Len(s) : s[i].at \in Open /\ s[i].id = x
    BY <1>3 DEF Holds
  <2>2. i # 1
    BY <1>3, <2>1
  <2>3. i \in 2 .. Len(s)
    BY <1>1, <2>1, <2>2
  <2> QED BY <1>2, <2>1, <2>3
<1>4. ASSUME NEW i \in 1 .. Len(t), t[i].at \in Open PROVE t[i].id \in b
  <2>1. i + 1 \in 1 .. Len(s) /\ t[i] = s[i + 1] /\ i + 1 # 1 /\ 1 \in 1 .. Len(s)
    BY <1>1
  <2>2. s[i + 1].id \in a
    BY <1>4, <2>1 DEF Holds
  <2>3. s[1].at \in Open => s[i + 1].id # s[1].id
    BY <1>4, <2>1 DEF Holds
  <2> QED BY <2>1, <2>2, <2>3
<1>5. ASSUME NEW i \in 1 .. Len(t), NEW j \in 1 .. Len(t), t[i].at \in Open, t[j].at \in Open,
             t[i].id = t[j].id
      PROVE  i = j
  <2>1. i + 1 = j + 1
    <3>1. /\ i + 1 \in 1 .. Len(s) /\ t[i] = s[i + 1]
          /\ j + 1 \in 1 .. Len(s) /\ t[j] = s[j + 1]
      BY <1>1
    <3> QED BY <1>5, <3>1 DEF Holds
  <2> QED BY <2>1
<1>6. Holds(t, b)
  BY <1>3, <1>4, <1>5 DEF Holds
<1> QED BY <1>6 DEF t

\* A step of the exception on top.
LEMMA HoldTop ==
  ASSUME NEW s \in Seq(Frame), NEW a, Holds(s, a), s # <<>>, NEW f \in Frame, NEW b,
         NEW t, t = [s EXCEPT ![1] = f],
         \/ s[1].at \notin Open /\ f.at \notin Open /\ b = a
         \/ s[1].at \in Open /\ f.at \in Open /\ f.id = s[1].id /\ b = a
         \/ s[1].at \notin Open /\ f.at \in Open /\ f.id \notin a /\ b = a \cup {f.id}
         \/ s[1].at \in Open /\ f.at \notin Open /\ b = a \ {s[1].id}
  PROVE  Holds(t, b)
<1>1. /\ Len(t) = Len(s) /\ Len(s) \in Nat \ {0} /\ t[1] = f
      /\ \A i \in 2 .. Len(s) : t[i] = s[i]
  BY TopFacts
<1>2. 1 \in 1 .. Len(s) /\ \A i \in 1 .. Len(s) : i = 1 \/ i \in 2 .. Len(s)
  BY <1>1
<1>3. \A i \in 1 .. Len(s) : s[i].at \in Open => s[i].id \in a
  BY DEF Holds
<1>4. ASSUME NEW i \in 2 .. Len(s), s[i].at \in Open
      PROVE  s[1].at \in Open => s[i].id # s[1].id
  <2>1. i \in 1 .. Len(s) /\ i # 1
    BY <1>1
  <2> QED BY <1>2, <1>4, <2>1 DEF Holds
<1>5. ASSUME NEW x, x \in b PROVE \E i \in 1 .. Len(t) : t[i].at \in Open /\ t[i].id = x
  <2>1. CASE x = f.id /\ f.at \in Open
    BY <1>1, <1>2, <2>1
  <2>2. CASE ~(x = f.id /\ f.at \in Open)
    <3>1. x \in a /\ (s[1].at \in Open => x # s[1].id)
      BY <1>5, <2>2
    <3>2. PICK i \in 1 .. Len(s) : s[i].at \in Open /\ s[i].id = x
      BY <3>1 DEF Holds
    <3> QED BY <1>1, <1>2, <3>1, <3>2
  <2> QED BY <2>1, <2>2
<1>6. ASSUME NEW i \in 1 .. Len(t), t[i].at \in Open PROVE t[i].id \in b
  <2>1. CASE i = 1
    BY <1>1, <1>2, <1>3, <1>6, <2>1
  <2>2. CASE i \in 2 .. Len(s)
    <3>1. t[i] = s[i] /\ i \in 1 .. Len(s)
      BY <1>1, <2>2
    <3>2. s[i].id \in a
      BY <1>3, <1>6, <3>1
    <3> QED BY <1>4, <1>6, <2>2, <3>1, <3>2
  <2> QED BY <1>1, <1>2, <2>1, <2>2
<1>7. ASSUME NEW i \in 2 .. Len(s), s[i].at \in Open, f.at \in Open PROVE f.id # s[i].id
  <2>1. s[i].id \in a
    BY <1>1, <1>3, <1>7
  <2> QED BY <1>4, <1>7, <2>1
<1>8. ASSUME NEW i \in 1 .. Len(t), NEW j \in 1 .. Len(t), t[i].at \in Open, t[j].at \in Open,
             t[i].id = t[j].id
      PROVE  i = j
  <2>1. CASE i = 1 \/ j = 1
    BY <1>1, <1>2, <1>7, <1>8, <2>1
  <2>2. CASE i # 1 /\ j # 1
    <3>1. i \in 1 .. Len(s) /\ j \in 1 .. Len(s) /\ t[i] = s[i] /\ t[j] = s[j]
      BY <1>1, <1>2, <2>2
    <3> QED BY <1>8, <3>1 DEF Holds
  <2> QED BY <2>1, <2>2
<1> QED BY <1>5, <1>6, <1>8 DEF Holds

HoldsAll == Holds(stack, active)

LEMMA HoldStep == TypeOK /\ TellsAll /\ HoldsAll /\ [Next]_vars => HoldsAll'
<1> SUFFICES ASSUME TypeOK, TellsAll, HoldsAll, [Next]_vars PROVE HoldsAll'
  OBVIOUS
<1> USE DEF HoldsAll
<1>1. stack \in Seq(Frame)
  BY DEF TypeOK
<1>2. stack # <<>> => /\ Head(stack) = stack[1] /\ stack[1] \in Frame /\ 1 \in 1 .. Len(stack)
                      /\ Tail(stack) \in Seq(Frame)
  BY <1>1, TailFacts
<1>ats. /\ InIrq = {"flag", "ack", "run", "access", "end", "clear", "stuck"}
        /\ InFiq = {"test", "ack", "run", "access", "end", "stuck"}
        /\ InAbort = {"compare", "again", "first", "count"}
  BY DEF InIrq, InFiq, InAbort
<1>goto. ASSUME NEW kind, NEW at, NEW to \in InIrq \cup InFiq \cup InAbort, In(kind, at), GoTo(to),
                \/ (at \in Open <=> to \in Open)
                   /\ UNCHANGED active
                \/ at \in Open /\ to \notin Open /\ active' = active \ {Head(stack).id}
         PROVE  HoldsAll'
  <2> DEFINE f == [stack[1] EXCEPT !.at = to]
  <2>1. f \in Frame /\ f.at = to /\ f.id = stack[1].id /\ stack[1].at = at /\ stack # <<>>
        /\ Head(stack).id = stack[1].id /\ stack' = [stack EXCEPT ![1] = f]
    BY <1>goto, <1>1, <1>2 DEF In, GoTo, Frame
  <2> HIDE DEF f
  <2> QED BY <2>1, <1>1, <1>goto, HoldTop
<1>back. ASSUME NEW kind, NEW at, In(kind, at), Return,
                \/ at \notin Open /\ UNCHANGED active
                \/ at \in Open /\ active' = active \ {Head(stack).id}
         PROVE  HoldsAll'
  BY <1>back, <1>1, <1>2, HoldPop DEF In, Return
<1>push. ASSUME NEW kind \in {"irq", "fiq", "abort"}, NEW at \in {"flag", "test", "compare"},
                NEW p \in AllPlaces \cup {None}, Push(kind, at, p), UNCHANGED active
         PROVE  HoldsAll'
  <2> DEFINE f == [kind |-> kind, at |-> at, id |-> None, place |-> p, said |-> 0]
  <2>1. f \in Frame /\ f.at = at /\ f.at \notin Open /\ stack' = <<f>> \o stack
    BY <1>push, <1>ats DEF Push, Frame, Open
  <2> HIDE DEF f
  <2> QED BY <2>1, <1>1, <1>push, HoldPush
<1>a. ASSUME NEW p \in Places, Access(p) PROVE HoldsAll'
  BY <1>a DEF Access, outside
<1>b. CASE Attempt
  <2>1. CASE AbortAt(main)
    <3>1. main \in AllPlaces
      BY <1>b DEF Attempt, TypeOK, AllPlaces
    <3> QED BY <1>b, <2>1, <3>1, <1>push DEF Attempt, AbortAt, outside
  <2>2. CASE UNCHANGED stack
    BY <1>b, <2>2 DEF Attempt, outside
  <2> QED BY <1>b, <2>1, <2>2 DEF Attempt
<1>c. CASE Compare
  BY <1>c, <1>goto, <1>ats DEF Compare, outside, Open
<1>d. CASE Again
  <2>1. CASE Return
    BY <1>d, <2>1, <1>back DEF Again, outside, Open
  <2>2. CASE Skip
    <3> DEFINE below == Tail(stack)
    <3>1. stack # <<>> /\ stack[1].kind = "abort" /\ stack[1].at \notin Open /\ active' = active
      BY <1>d, <1>2 DEF Again, In, outside, Open
    <3>2. Holds(below, active)
      BY <3>1, <1>1, HoldPop
    <3>3. CASE stack' = below
      BY <3>1, <3>2, <3>3
    <3>4. CASE below # <<>> /\ stack' = [below EXCEPT ![1].at = "end"]
      <4> DEFINE f == [below[1] EXCEPT !.at = "end"]
      <4>1. below \in Seq(Frame) /\ below[1] \in Frame /\ Len(stack) > 1 /\ below[1] = stack[2]
        BY <1>1, <3>1, <3>4, TailFacts
      <4>2. below[1].at = "access"
        BY <3>1, <4>1 DEF TellsAll, Told, Shape
      <4>3. f \in Frame /\ f.at = "end" /\ f.id = below[1].id
        BY <4>1, <1>ats DEF Frame
      <4>4. stack' = [below EXCEPT ![1] = f]
        BY <3>4
      <4>5. f.at \in Open /\ below[1].at \in Open
        BY <4>2, <4>3 DEF Open
      <4> HIDE DEF f, below
      <4> QED BY <3>1, <3>2, <3>4, <4>1, <4>3, <4>4, <4>5, HoldTop
    <3> QED BY <2>2, <3>3, <3>4 DEF Skip
  <2> QED BY <1>d, <2>1, <2>2 DEF Again
<1>e. CASE First
  BY <1>e, <1>goto, <1>ats DEF First, outside, Open
<1>f. CASE Count
  BY <1>f, <1>back DEF Count, outside, Open
<1>g. CASE TakeIrq
  BY <1>g, <1>push DEF TakeIrq, outside
<1>h. CASE TakeFiq
  BY <1>h, <1>push DEF TakeFiq, outside
<1>i. CASE SetFlag
  BY <1>i, <1>goto, <1>ats DEF SetFlag, outside, Open
\* What is acknowledged was pending, so it was not active.
<1>ack. ASSUME NEW id \in Interrupts, id \notin active, In("irq", "ack") \/ In("fiq", "ack"),
               Acknowledge(id)
        PROVE  HoldsAll'
  <2> DEFINE a == IF id \in Registered THEN "run" ELSE "stuck"
             f == [stack[1] EXCEPT !.id = id, !.at = a]
  <2>1. f \in Frame /\ f.at \in Open /\ f.id = id /\ stack[1].at \notin Open /\ stack # <<>>
    BY <1>ack, <1>2, <1>ats DEF In, Frame, Open
  <2>2. stack' = [stack EXCEPT ![1] = f] /\ active' = active \cup {id}
    BY <1>ack, <1>2 DEF Acknowledge, In
  <2> HIDE DEF f, a
  <2> QED BY <1>1, <1>ack, <2>1, <2>2, HoldTop
<1>j. CASE IrqAck
  BY <1>j, <1>ack DEF IrqAck, Pending, Interrupts
<1>k. CASE IrqNothing
  BY <1>k, <1>back DEF IrqNothing, outside, Open
<1>l. CASE IrqEnd
  BY <1>l, <1>goto, <1>ats DEF IrqEnd, Open
<1>m. CASE ClearFlag
  BY <1>m, <1>back DEF ClearFlag, outside, Open
<1>n. CASE Test
  <2> DEFINE f == [stack[1] EXCEPT !.said = irqFlag, !.at = "ack"]
  <2>1. f \in Frame /\ f.at \notin Open /\ stack[1].at \notin Open /\ stack # <<>>
    BY <1>n, <1>2, <1>ats DEF Test, In, Frame, Open, TypeOK
  <2>2. stack' = [stack EXCEPT ![1] = f] /\ active' = active
    BY <1>n, <1>2 DEF Test, In, outside
  <2> HIDE DEF f
  <2> QED BY <1>1, <2>1, <2>2, HoldTop
<1>o. CASE FiqAck
  BY <1>o, <1>ack DEF FiqAck, Pending, Interrupts
<1>p. CASE FiqNothing
  BY <1>p, <1>back DEF FiqNothing, EndsNothing, Open
<1>q. CASE FiqEnd
  BY <1>q, <1>back DEF FiqEnd, Open
<1>r. CASE Serve
  <2>1. ASSUME NEW to \in {"end", "access"}, GoTo(to) PROVE HoldsAll'
    BY <1>r, <2>1, <1>goto, <1>ats DEF Serve, Open
  <2> QED BY <1>r, <2>1 DEF Serve
<1>s. CASE HandlerAttempt
  <2>1. CASE AbortAt(HandlerPlace)
    BY <1>s, <2>1, <1>push DEF HandlerAttempt, AbortAt, HandlerPlace, AllPlaces, outside
  <2>2. CASE GoTo("end")
    BY <1>s, <2>2, <1>goto, <1>ats DEF HandlerAttempt, outside, Open
  <2> QED BY <1>s, <2>1, <2>2 DEF HandlerAttempt
<1>t. ASSUME NEW i \in Interrupts, Raise(i) \/ Withdraw(i) PROVE HoldsAll'
  BY <1>t DEF Raise, Withdraw, handling
<1>u. CASE UNCHANGED vars
  BY <1>u DEF vars, handling, outside
<1> QED
  BY <1>a, <1>b, <1>c, <1>d, <1>e, <1>f, <1>g, <1>h, <1>i, <1>j, <1>k, <1>l, <1>m, <1>n, <1>o,
     <1>p, <1>q, <1>r, <1>s, <1>t, <1>u
  DEF Next, Execute, DataAbort, Handlers, Environment

\* What the interrupt controller holds active is what the handlers on the stack
\* are going to end, each once (irq_enter, fiq_enter and their early returns).
THEOREM ActiveIsOpen == Spec => []ActiveOnStack
<1>1. Init => TypeOK /\ TellsAll /\ HoldsAll
  <2>1. Init => TellsAll /\ HoldsAll
    BY DEF Init, TellsAll, Told, Shape, Flag, Reports, Above, HoldsAll, Holds
  <2>2. Init => TypeOK
    BY TypeInit
  <2> QED BY <2>1, <2>2
<1>2. TypeOK /\ TellsAll /\ HoldsAll /\ [Next]_vars => TypeOK' /\ TellsAll' /\ HoldsAll'
  BY TypeStep, TellStep, HoldStep
<1>3. TypeOK /\ HoldsAll => ActiveOnStack
  <2> SUFFICES ASSUME TypeOK, HoldsAll PROVE ActiveOnStack
    OBVIOUS
  <2>1. Acknowledged = {i \in 1 .. Len(stack) : stack[i].at \in Open}
    BY DEF TypeOK, Acknowledged, Open
  <2>2. ASSUME NEW x, x \in active PROVE \E i \in Acknowledged : stack[i].id = x
    BY <2>1, <2>2 DEF HoldsAll, Holds
  <2>3. ASSUME NEW i \in Acknowledged PROVE stack[i].id \in active
    BY <2>1 DEF HoldsAll, Holds
  <2>4. active = {stack[i].id : i \in Acknowledged}
    BY <2>2, <2>3
  <2> QED BY <2>1, <2>4 DEF ActiveOnStack, HoldsAll, Holds
<1> QED BY <1>1, <1>2, <1>3, PTL DEF Spec
-----------------------------------------------------------------------------
(* How often an access is tried.                                           *)

\* An abort stands over the access of its place.
Placed(s, m) ==
  \A i \in 1 .. Len(s) : s[i].kind = "abort" =>
    \/ i = Len(s) /\ s[i].place = m /\ m \in Places
    \/ i < Len(s) /\ s[i + 1].kind = "irq" /\ s[i].place = IrqPlace
    \/ i < Len(s) /\ s[i + 1].kind = "fiq" /\ s[i].place = FiqPlace

\* The access at p is under way, and all aborts on the stack are of that access,
\* unless it is that of an FIQ, which lets others wait.
Going(s, m, p) ==
  /\ p \in Places => m = p
  /\ p = IrqPlace => s # <<>> /\ s[Len(s)].kind = "irq" /\ s[Len(s)].at = "access"
  /\ p = FiqPlace => /\ s # <<>>
                     /\ \/ s[1].kind = "fiq" /\ s[1].at = "access"
                        \/ s[1].kind = "abort" /\ s[1].place = FiqPlace
  /\ p # FiqPlace => \A i \in 1 .. Len(s) : s[i].kind = "abort" => s[i].place = p

\* After n aborts of the access at p: whether its place is remembered, and what is
\* left of the count.
Stage(at, n, l, c, p) ==
  \/ at = "none" /\ n = 0 /\ l # p
  \/ at = "none" /\ n \in {1, 2} /\ l = p /\ c = 3 - n
  \/ at \in {"compare", "first"} /\ n = 1 /\ l # p
  \/ at = "count" /\ n = 1 /\ l = p
  \/ at \in {"compare", "again"} /\ n \in {2, 3} /\ l = p /\ c = 4 - n

NoAbort(s, p) == \A i \in 1 .. Len(s) : ~(s[i].kind = "abort" /\ s[i].place = p)

Counted(s, p, n, l, c) ==
  /\ \A i \in 1 .. Len(s) : s[i].kind = "abort" /\ s[i].place = p => Stage(s[i].at, n, l, c, p)
  /\ NoAbort(s, p) => Stage("none", n, l, c, p)

Tried(s, m, fr, tr, l, c) ==
  \A p \in AllPlaces : /\ fr[p] => Going(s, m, p) /\ Counted(s, p, tr[p], l, c)
                       /\ ~fr[p] => tr[p] = 0

LEMMA AbortOnce ==
  ASSUME NEW s \in Seq(Frame), NEW m, Shape(s), Placed(s, m),
         NEW i \in 1 .. Len(s), NEW j \in 1 .. Len(s),
         s[i].kind = "abort", s[j].kind = "abort", s[i].place = s[j].place
  PROVE  i = j
<1>1. IrqPlace # FiqPlace /\ IrqPlace \notin Places /\ FiqPlace \notin Places
  BY PlaceAssumption
<1>2. /\ \/ i = Len(s) /\ s[i].place \in Places
         \/ i < Len(s) /\ s[i + 1].kind = "irq" /\ s[i].place = IrqPlace
         \/ i < Len(s) /\ s[i + 1].kind = "fiq" /\ s[i].place = FiqPlace
      /\ \/ j = Len(s) /\ s[j].place \in Places
         \/ j < Len(s) /\ s[j + 1].kind = "irq" /\ s[j].place = IrqPlace
         \/ j < Len(s) /\ s[j + 1].kind = "fiq" /\ s[j].place = FiqPlace
  BY DEF Placed
<1>3. CASE s[i].place \in Places
  BY <1>1, <1>2, <1>3
<1>4. CASE i < Len(s) /\ s[i + 1].kind = "irq" /\ s[i].place = IrqPlace
  <2>1. j < Len(s) /\ s[j + 1].kind = "irq"
    BY <1>1, <1>2, <1>4
  <2>2. i + 1 \in 1 .. Len(s) /\ j + 1 \in 1 .. Len(s)
    BY <1>4, <2>1
  <2>3. i + 1 = Len(s) /\ j + 1 = Len(s)
    BY <1>4, <2>1, <2>2 DEF Shape
  <2> QED BY <2>3
<1>5. CASE i < Len(s) /\ s[i + 1].kind = "fiq" /\ s[i].place = FiqPlace
  <2>1. j < Len(s) /\ s[j + 1].kind = "fiq"
    BY <1>1, <1>2, <1>5
  <2>2. i + 1 \in 1 .. Len(s) /\ j + 1 \in 1 .. Len(s)
    BY <1>5, <2>1
  <2>3. i + 1 = j + 1
    BY <1>5, <2>1, <2>2 DEF Shape
  <2> QED BY <2>3
<1> QED BY <1>2, <1>3, <1>4, <1>5

\* While the newest exception is an abort no other access is fresh.
LEMMA OnlyTop ==
  ASSUME NEW s \in Seq(Frame), NEW m, s # <<>>, s[1].kind = "abort", NEW p \in AllPlaces, Going(s, m, p)
  PROVE  p = s[1].place
<1>1. 1 \in 1 .. Len(s)
  OBVIOUS
<1> QED BY <1>1 DEF Going

\* Nothing is fresh.
LEMMA TryNone ==
  ASSUME NEW s, NEW m, NEW fr, NEW tr, NEW l, NEW c,
         \A p \in AllPlaces : ~fr[p] /\ tr[p] = 0
  PROVE  Tried(s, m, fr, tr, l, c)
BY DEF Tried

LEMMA TryPush ==
  ASSUME NEW s \in Seq(Frame), NEW m, NEW fr, NEW tr, NEW l, NEW c,
         Shape(s), Placed(s, m), Tried(s, m, fr, tr, l, c),
         NEW f \in Frame, NEW t, t = <<f>> \o s,
         \/ f.kind = "irq" /\ s = <<>>
         \/ f.kind = "fiq" /\ \A i \in 1 .. Len(s) : s[i].kind # "fiq"
  PROVE  Placed(t, m) /\ Tried(t, m, fr, tr, l, c)
<1>1. t \in Seq(Frame) /\ Len(t) = Len(s) + 1 /\ t[1] = f /\ Len(s) \in Nat
  BY PushFacts
<1>2. \A i \in 1 .. Len(s) : i + 1 \in 1 .. Len(t) /\ t[i + 1] = s[i]
  BY PushFacts
<1>3. \A i \in 1 .. Len(t) : i = 1 \/ (i - 1 \in 1 .. Len(s) /\ t[i] = s[i - 1])
  BY PushFacts
<1>4. f.kind # "abort"
  OBVIOUS
<1>5. ASSUME NEW i \in 1 .. Len(t), t[i].kind = "abort"
      PROVE  i - 1 \in 1 .. Len(s) /\ t[i] = s[i - 1] /\ s[i - 1].kind = "abort"
  BY <1>1, <1>3, <1>4, <1>5
<1>6. Placed(t, m)
  <2> SUFFICES ASSUME NEW i \in 1 .. Len(t), t[i].kind = "abort"
               PROVE  \/ i = Len(t) /\ t[i].place = m /\ m \in Places
                      \/ i < Len(t) /\ t[i + 1].kind = "irq" /\ t[i].place = IrqPlace
                      \/ i < Len(t) /\ t[i + 1].kind = "fiq" /\ t[i].place = FiqPlace
    BY DEF Placed
  <2>1. i - 1 \in 1 .. Len(s) /\ t[i] = s[i - 1] /\ s[i - 1].kind = "abort" /\ (i - 1) + 1 = i
    BY <1>5
  <2>2. i - 1 = Len(s) => i = Len(t)
    BY <1>1
  <2>3. i - 1 < Len(s) => i < Len(t) /\ i \in 1 .. Len(s) /\ t[i + 1] = s[i]
    BY <1>1, <1>2
  <2> QED BY <2>1, <2>2, <2>3 DEF Placed
<1>7. ASSUME NEW p \in AllPlaces, fr[p] PROVE Going(t, m, p) /\ Counted(t, p, tr[p], l, c)
  <2>1. Going(s, m, p) /\ Counted(s, p, tr[p], l, c)
    BY <1>7 DEF Tried
  <2>2. NoAbort(t, p) => NoAbort(s, p)
    BY <1>2 DEF NoAbort
  <2>3. Counted(t, p, tr[p], l, c)
    BY <1>5, <2>1, <2>2 DEF Counted
  <2>4. p # FiqPlace => \A i \in 1 .. Len(t) : t[i].kind = "abort" => t[i].place = p
    BY <1>5, <2>1 DEF Going
  <2>5. p = IrqPlace => t # <<>> /\ t[Len(t)] = s[Len(s)] /\ s # <<>>
    <3>1. p = IrqPlace => Len(s) \in 1 .. Len(s)
      BY <2>1 DEF Going
    <3> QED BY <1>1, <1>2, <2>1, <3>1 DEF Going
  <2>6. p # FiqPlace
    <3> SUFFICES ASSUME p = FiqPlace PROVE FALSE
      OBVIOUS
    <3>1. s # <<>> /\ 1 \in 1 .. Len(s)
      BY <2>1 DEF Going
    <3>2. s[1].kind = "abort" /\ s[1].place = FiqPlace
      BY <2>1, <3>1 DEF Going
    <3>3. 1 < Len(s) /\ s[1 + 1].kind = "fiq" /\ 1 + 1 \in 1 .. Len(s)
      BY <3>1, <3>2, PlaceAssumption DEF Placed
    <3> QED BY <3>1, <3>3
  <2> QED BY <2>1, <2>3, <2>4, <2>5, <2>6 DEF Going
<1> QED BY <1>6, <1>7 DEF Tried

LEMMA PlacedBelow ==
  ASSUME NEW s \in Seq(Frame), NEW m, Placed(s, m), s # <<>>, NEW t, t = Tail(s)
  PROVE  Placed(t, m)
<1>1. t \in Seq(Frame) /\ Len(t) = Len(s) - 1 /\ Len(t) \in Nat /\ Len(s) \in Nat
  BY TailFacts
<1>2. \A i \in 1 .. Len(t) : i + 1 \in 1 .. Len(s) /\ t[i] = s[i + 1]
  BY TailFacts
<1>3. \A i \in 1 .. Len(t) : i + 1 = Len(s) <=> i = Len(t)
  BY <1>1
<1> SUFFICES ASSUME NEW i \in 1 .. Len(t), t[i].kind = "abort"
             PROVE  \/ i = Len(t) /\ t[i].place = m /\ m \in Places
                    \/ i < Len(t) /\ t[i + 1].kind = "irq" /\ t[i].place = IrqPlace
                    \/ i < Len(t) /\ t[i + 1].kind = "fiq" /\ t[i].place = FiqPlace
  BY DEF Placed
<1>4. i + 1 \in 1 .. Len(s) /\ t[i] = s[i + 1]
  BY <1>2
<1>5. i + 1 < Len(s) => i < Len(t) /\ i + 1 \in 1 .. Len(t) /\ t[i + 1] = s[(i + 1) + 1]
  BY <1>1, <1>2
<1> QED BY <1>3, <1>4, <1>5 DEF Placed

\* The frame on top, an IRQ or an FIQ that is at no access, is left.
LEMMA TryPop ==
  ASSUME NEW s \in Seq(Frame), NEW m, NEW fr, NEW tr, NEW l, NEW c,
         Shape(s), Placed(s, m), Tried(s, m, fr, tr, l, c),
         s # <<>>, s[1].kind # "abort", s[1].at # "access", NEW t, t = Tail(s)
  PROVE  Placed(t, m) /\ Tried(t, m, fr, tr, l, c)
<1>1. t \in Seq(Frame) /\ Len(t) = Len(s) - 1 /\ Len(t) \in Nat /\ Len(s) \in Nat
  BY TailFacts
<1>2. \A i \in 1 .. Len(t) : i + 1 \in 1 .. Len(s) /\ t[i] = s[i + 1]
  BY TailFacts
<1>3. ASSUME NEW i \in 1 .. Len(s), s[i].kind = "abort"
      PROVE  i - 1 \in 1 .. Len(t) /\ t[i - 1] = s[i]
  <2>1. i # 1
    BY <1>3
  <2>2. i - 1 \in 1 .. Len(t) /\ (i - 1) + 1 = i
    BY <1>1, <2>1
  <2> QED BY <1>2, <2>2
<1>5. Len(t) # 0 => t # <<>>
  BY <1>1
<1>6. Placed(t, m)
  BY PlacedBelow
<1>7. ASSUME NEW p \in AllPlaces, fr[p] PROVE Going(t, m, p) /\ Counted(t, p, tr[p], l, c)
  <2>1. Going(s, m, p) /\ Counted(s, p, tr[p], l, c)
    BY <1>7 DEF Tried
  <2>2. NoAbort(t, p) => NoAbort(s, p)
    BY <1>3 DEF NoAbort
  <2>3. Counted(t, p, tr[p], l, c)
    BY <1>2, <2>1, <2>2 DEF Counted
  <2>4. p # FiqPlace => \A i \in 1 .. Len(t) : t[i].kind = "abort" => t[i].place = p
    BY <1>2, <2>1 DEF Going
  <2>5. p = IrqPlace => t # <<>> /\ t[Len(t)] = s[Len(s)] /\ s # <<>>
    <3> SUFFICES ASSUME p = IrqPlace PROVE t # <<>> /\ t[Len(t)] = s[Len(s)]
      OBVIOUS
    <3>1. Len(s) # 1
      BY <2>1 DEF Going
    <3>2. Len(t) \in 1 .. Len(t) /\ Len(t) + 1 = Len(s)
      BY <1>1, <3>1
    <3>3. t # <<>>
      BY <1>1, <1>5, <3>2
    <3> QED BY <1>2, <3>2, <3>3
  <2>6. p # FiqPlace
    BY <2>1 DEF Going
  <2> QED BY <2>1, <2>3, <2>4, <2>5, <2>6 DEF Going
<1> QED BY <1>6, <1>7 DEF Tried

\* A frame on top that is no abort goes on, and is not at a fresh access.
LEMMA TryMove ==
  ASSUME NEW s \in Seq(Frame), NEW m, NEW fr, NEW tr, NEW l, NEW c,
         Shape(s), Placed(s, m), Tried(s, m, fr, tr, l, c),
         s # <<>>, NEW f \in Frame, NEW t, t = [s EXCEPT ![1] = f],
         s[1].kind # "abort", f.kind = s[1].kind,
         s[1].at = "access" => /\ s[1].kind = "irq" => ~fr[IrqPlace]
                               /\ s[1].kind = "fiq" => ~fr[FiqPlace]
  PROVE  Placed(t, m) /\ Tried(t, m, fr, tr, l, c)
<1>1. t \in Seq(Frame) /\ Len(t) = Len(s) /\ Len(s) \in Nat \ {0} /\ t[1] = f
  BY TopFacts
<1>2. \A i \in 2 .. Len(s) : t[i] = s[i]
  BY TopFacts
<1>3. \A i \in 1 .. Len(s) : t[i].kind = s[i].kind
  BY <1>1, <1>2
<1>4. \A i \in 1 .. Len(s) : s[i].kind = "abort" => i \in 2 .. Len(s) /\ t[i] = s[i]
  BY <1>1, <1>2
<1>5. 1 \in 1 .. Len(s) /\ s[1].kind \in {"irq", "fiq"}
  BY <1>1 DEF Frame
<1>6. Placed(t, m)
  <2> SUFFICES ASSUME NEW i \in 1 .. Len(t), t[i].kind = "abort"
               PROVE  \/ i = Len(t) /\ t[i].place = m /\ m \in Places
                      \/ i < Len(t) /\ t[i + 1].kind = "irq" /\ t[i].place = IrqPlace
                      \/ i < Len(t) /\ t[i + 1].kind = "fiq" /\ t[i].place = FiqPlace
    BY DEF Placed
  <2>1. i \in 1 .. Len(s) /\ t[i] = s[i] /\ s[i].kind = "abort"
    BY <1>1, <1>3, <1>4
  <2>2. i < Len(s) => t[i + 1].kind = s[i + 1].kind
    BY <1>1, <1>3
  <2> QED BY <1>1, <2>1, <2>2 DEF Placed
<1>7. ASSUME NEW p \in AllPlaces, fr[p] PROVE Going(t, m, p) /\ Counted(t, p, tr[p], l, c)
  <2>1. Going(s, m, p) /\ Counted(s, p, tr[p], l, c)
    BY <1>7 DEF Tried
  <2>2. NoAbort(t, p) => NoAbort(s, p)
    BY <1>1, <1>3, <1>4 DEF NoAbort
  <2>3. Counted(t, p, tr[p], l, c)
    BY <1>1, <1>3, <1>4, <2>1, <2>2 DEF Counted
  <2>4. p # FiqPlace => \A i \in 1 .. Len(t) : t[i].kind = "abort" => t[i].place = p
    BY <1>1, <1>3, <1>4, <2>1 DEF Going
  <2>5. p = IrqPlace => t # <<>> /\ t[Len(t)] = s[Len(s)]
    <3> SUFFICES ASSUME p = IrqPlace PROVE t # <<>> /\ t[Len(t)] = s[Len(s)]
      OBVIOUS
    <3>1. Len(s) # 1
      BY <1>5, <1>7, <2>1 DEF Going
    <3> QED BY <1>1, <1>2, <3>1
  <2>6. p # FiqPlace
    <3> SUFFICES ASSUME p = FiqPlace PROVE FALSE
      OBVIOUS
    <3> QED BY <1>7, <2>1 DEF Going
  <2> QED BY <2>1, <2>3, <2>4, <2>5, <2>6 DEF Going
<1> QED BY <1>6, <1>7 DEF Tried

\* An access begins on a stack on which none of its own is aborted.
LEMMA TryBegin ==
  ASSUME NEW s, NEW m, NEW fr \in [AllPlaces -> BOOLEAN], NEW tr, NEW l, NEW c,
         Tried(s, m, fr, tr, l, c), NEW p \in AllPlaces, ~fr[p],
         Going(s, m, p), NoAbort(s, p),
         NEW fr2, fr2 = [fr EXCEPT ![p] = l # p]
  PROVE  Tried(s, m, fr2, tr, l, c)
<1>1. tr[p] = 0
  BY DEF Tried
<1>2. l # p => Counted(s, p, tr[p], l, c)
  BY <1>1 DEF Counted, NoAbort, Stage
<1>3. fr2[p] <=> l # p
  OBVIOUS
<1>4. \A q \in AllPlaces \ {p} : fr2[q] = fr[q]
  OBVIOUS
<1> QED BY <1>1, <1>2, <1>3, <1>4, Zenon DEF Tried

LEMMA TryEnd ==
  ASSUME NEW s, NEW m, NEW fr \in [AllPlaces -> BOOLEAN], NEW tr \in [AllPlaces -> 0 .. 4], NEW l, NEW c,
         Tried(s, m, fr, tr, l, c), NEW p \in AllPlaces,
         NEW fr2, fr2 = [fr EXCEPT ![p] = FALSE], NEW tr2, tr2 = [tr EXCEPT ![p] = 0]
  PROVE  Tried(s, m, fr2, tr2, l, c)
<1>1. ~fr2[p] /\ tr2[p] = 0
  OBVIOUS
<1>2. \A q \in AllPlaces \ {p} : fr2[q] = fr[q] /\ tr2[q] = tr[q]
  OBVIOUS
<1> QED BY <1>1, <1>2, Zenon DEF Tried

\* What an abort does to the history (AbortAt).
OnlyFresh(fr, tr, p, fr2, tr2) ==
  /\ \A q \in AllPlaces : fr2[q] <=> q = p /\ fr[q]
  /\ \A q \in AllPlaces : tr2[q] = IF ~fr2[q] THEN 0 ELSE IF tr[q] < 4 THEN tr[q] + 1 ELSE 4

\* The access that is under way at the top of the stack aborts.
LEMMA TryAbort ==
  ASSUME NEW s \in Seq(Frame), NEW m, NEW fr \in [AllPlaces -> BOOLEAN], NEW tr \in [AllPlaces -> 0 .. 4],
         NEW l, NEW c, Shape(s), Placed(s, m), Tried(s, m, fr, tr, l, c),
         NEW p \in AllPlaces,
         \/ s = <<>> /\ m = p /\ p \in Places
         \/ s # <<>> /\ s[1].kind = "irq" /\ s[1].at = "access" /\ p = IrqPlace
         \/ s # <<>> /\ s[1].kind = "fiq" /\ s[1].at = "access" /\ p = FiqPlace,
         NEW f \in Frame, f.kind = "abort", f.at = "compare", f.place = p,
         NEW t, t = <<f>> \o s,
         NEW fr2, NEW tr2, OnlyFresh(fr, tr, p, fr2, tr2)
  PROVE  Placed(t, m) /\ Tried(t, m, fr2, tr2, l, c)
<1>0. /\ \A q \in AllPlaces : fr2[q] <=> q = p /\ fr[q]
      /\ \A q \in AllPlaces : tr2[q] = IF ~fr2[q] THEN 0 ELSE IF tr[q] < 4 THEN tr[q] + 1 ELSE 4
  BY DEF OnlyFresh
<1>1. t \in Seq(Frame) /\ Len(t) = Len(s) + 1 /\ t[1] = f /\ Len(s) \in Nat /\ 1 \in 1 .. Len(t)
  BY PushFacts
<1>2. \A i \in 1 .. Len(s) : i + 1 \in 1 .. Len(t) /\ t[i + 1] = s[i]
  BY PushFacts
<1>3. \A i \in 1 .. Len(t) : i = 1 \/ (i - 1 \in 1 .. Len(s) /\ t[i] = s[i - 1])
  BY PushFacts
<1>4. IrqPlace # FiqPlace /\ IrqPlace \notin Places /\ FiqPlace \notin Places
  BY PlaceAssumption
<1>5. s # <<>> => 1 \in 1 .. Len(s)
  OBVIOUS
<1>6. s = <<>> => Len(s) = 0
  OBVIOUS
<1>7. Placed(t, m)
  <2> SUFFICES ASSUME NEW i \in 1 .. Len(t), t[i].kind = "abort"
               PROVE  \/ i = Len(t) /\ t[i].place = m /\ m \in Places
                      \/ i < Len(t) /\ t[i + 1].kind = "irq" /\ t[i].place = IrqPlace
                      \/ i < Len(t) /\ t[i + 1].kind = "fiq" /\ t[i].place = FiqPlace
    BY DEF Placed
  <2>1. CASE i = 1
    <3>1. s # <<>> => 1 < Len(t) /\ t[1 + 1] = s[1]
      BY <1>1, <1>2, <1>5
    <3>2. s = <<>> => 1 = Len(t)
      BY <1>1, <1>6
    <3> QED BY <1>1, <2>1, <3>1, <3>2
  <2>2. CASE i # 1
    <3>1. i - 1 \in 1 .. Len(s) /\ t[i] = s[i - 1] /\ s[i - 1].kind = "abort" /\ (i - 1) + 1 = i
      BY <1>3, <2>2
    <3>2. i - 1 = Len(s) => i = Len(t)
      BY <1>1
    <3>3. i - 1 < Len(s) => i < Len(t) /\ i \in 1 .. Len(s) /\ t[i + 1] = s[i]
      BY <1>1, <1>2, <2>2
    <3> QED BY <3>1, <3>2, <3>3 DEF Placed
  <2> QED BY <2>1, <2>2
\* No other abort on the stack is of this access.
<1>8. NoAbort(s, p)
  <2> SUFFICES ASSUME NEW i \in 1 .. Len(s), s[i].kind = "abort", s[i].place = p PROVE FALSE
    BY DEF NoAbort
  <2>1. s # <<>> /\ i # 1
    BY <1>6
  <2>2. \/ i = Len(s) /\ p \in Places
        \/ i < Len(s) /\ s[i + 1].kind = "irq" /\ p = IrqPlace
        \/ i < Len(s) /\ s[i + 1].kind = "fiq" /\ p = FiqPlace
    BY DEF Placed
  <2>3. i < Len(s) => i + 1 \in 1 .. Len(s)
    OBVIOUS
  <2>4. CASE p = IrqPlace
    <3>1. s[1].kind = "irq"
      BY <1>4, <2>1, <2>4
    <3>2. Len(s) = 1
      BY <1>5, <2>1, <3>1 DEF Shape
    <3>3. i = 1
      BY <3>2
    <3> QED BY <2>1, <3>3
  <2>5. CASE p = FiqPlace
    <3>1. s[1].kind = "fiq"
      BY <1>4, <2>1, <2>5
    <3>2. s[i + 1].kind = "fiq" /\ i + 1 \in 1 .. Len(s) /\ i + 1 # 1
      BY <1>4, <2>2, <2>3, <2>5
    <3> QED BY <1>5, <2>1, <3>1, <3>2 DEF Shape
  <2> QED BY <1>4, <2>1, <2>4, <2>5
<1>9. \A i \in 1 .. Len(t) : t[i].kind = "abort" /\ t[i].place = p => i = 1
  BY <1>3, <1>8 DEF NoAbort
<1>10. ASSUME fr2[p] PROVE Going(t, m, p) /\ Counted(t, p, tr2[p], l, c)
  <2>1. fr[p] /\ Going(s, m, p) /\ Counted(s, p, tr[p], l, c)
    BY <1>0, <1>10 DEF Tried
  <2>2. Stage("none", tr[p], l, c, p)
    BY <1>8, <2>1 DEF Counted
  <2>3. tr2[p] = tr[p] + 1
    BY <1>0, <1>10, <2>2 DEF Stage
  <2>4. Stage("compare", tr2[p], l, c, p)
    BY <2>2, <2>3 DEF Stage
  <2>5. ~NoAbort(t, p)
    BY <1>1 DEF NoAbort
  <2>6. Counted(t, p, tr2[p], l, c)
    BY <1>1, <1>9, <2>4, <2>5 DEF Counted
  <2>7. p # FiqPlace => \A i \in 1 .. Len(t) : t[i].kind = "abort" => t[i].place = p
    BY <1>1, <1>3, <2>1 DEF Going
  <2>8. p = IrqPlace => t # <<>> /\ t[Len(t)] = s[Len(s)]
    <3> SUFFICES ASSUME p = IrqPlace PROVE t # <<>> /\ t[Len(t)] = s[Len(s)]
      OBVIOUS
    <3>1. Len(s) \in 1 .. Len(s)
      BY <2>1, <1>1 DEF Going
    <3> QED BY <1>1, <1>2, <3>1
  <2>9. p = FiqPlace => t # <<>>
    BY <1>1
  <2> QED BY <1>1, <2>1, <2>6, <2>7, <2>8, <2>9 DEF Going
<1> QED BY <1>0, <1>7, <1>10 DEF Tried

\* The count of the access stays right from one place of dabort_main to another.
Follows(at, l, c, at2, l2, c2, p) == \A n : Stage(at, n, l, c, p) => Stage(at2, n, l2, c2, p)

\* The frame f takes the place of the abort on top.
GoesOn(s, f, t) ==
  /\ s # <<>> /\ s[1].kind = "abort" /\ t = [s EXCEPT ![1] = f]
  /\ f.kind = "abort" /\ f.place = s[1].place

\* The abort on top goes on, and perhaps remembers its place or counts.
LEMMA TryChange ==
  ASSUME NEW s \in Seq(Frame), NEW m, NEW fr, NEW tr, NEW l, NEW c, NEW l2, NEW c2,
         NEW f \in Frame, NEW t, GoesOn(s, f, t),
         Shape(s), Placed(s, m), Tried(s, m, fr, tr, l, c),
         Follows(s[1].at, l, c, f.at, l2, c2, f.place)
  PROVE  Placed(t, m) /\ Tried(t, m, fr, tr, l2, c2)
<1>0. /\ s # <<>> /\ s[1].kind = "abort" /\ t = [s EXCEPT ![1] = f]
      /\ f.kind = "abort" /\ f.place = s[1].place
  BY DEF GoesOn
<1> USE <1>0
<1>1. t \in Seq(Frame) /\ Len(t) = Len(s) /\ Len(s) \in Nat \ {0} /\ t[1] = f /\ 1 \in 1 .. Len(s)
  BY TopFacts
<1>2. \A i \in 2 .. Len(s) : t[i] = s[i]
  BY TopFacts
<1>3. \A i \in 1 .. Len(s) : t[i].kind = s[i].kind /\ t[i].place = s[i].place
  BY <1>1, <1>2
<1>4. Placed(t, m)
  <2> SUFFICES ASSUME NEW i \in 1 .. Len(t), t[i].kind = "abort"
               PROVE  \/ i = Len(t) /\ t[i].place = m /\ m \in Places
                      \/ i < Len(t) /\ t[i + 1].kind = "irq" /\ t[i].place = IrqPlace
                      \/ i < Len(t) /\ t[i + 1].kind = "fiq" /\ t[i].place = FiqPlace
    BY DEF Placed
  <2>1. i \in 1 .. Len(s) /\ t[i].place = s[i].place /\ s[i].kind = "abort"
    BY <1>1, <1>3
  <2>2. i < Len(s) => t[i + 1].kind = s[i + 1].kind
    BY <1>1, <1>3
  <2> QED BY <1>1, <2>1, <2>2 DEF Placed
<1>5. ASSUME NEW p \in AllPlaces, fr[p] PROVE Going(t, m, p) /\ Counted(t, p, tr[p], l2, c2)
  <2>1. Going(s, m, p) /\ Counted(s, p, tr[p], l, c)
    BY <1>5 DEF Tried
  <2>2. p = s[1].place
    BY <2>1, OnlyTop
  <2>3. ~NoAbort(t, p)
    BY <1>1, <2>2 DEF NoAbort
  <2>4. \A i \in 1 .. Len(t) : t[i].kind = "abort" /\ t[i].place = p => i = 1
    BY <1>1, <1>3, <2>2, AbortOnce
  <2>5. Stage(s[1].at, tr[p], l, c, p)
    BY <1>1, <2>1, <2>2 DEF Counted
  <2>6. Stage(f.at, tr[p], l2, c2, p)
    BY <2>2, <2>5 DEF Follows
  <2>10. Counted(t, p, tr[p], l2, c2)
    BY <1>1, <2>2, <2>3, <2>4, <2>6 DEF Counted
  <2>7. p # FiqPlace => \A i \in 1 .. Len(t) : t[i].kind = "abort" => t[i].place = p
    BY <1>1, <1>3, <2>1 DEF Going
  <2>8. p = IrqPlace => t # <<>> /\ t[Len(t)] = s[Len(s)]
    <3> SUFFICES ASSUME p = IrqPlace PROVE t # <<>> /\ t[Len(t)] = s[Len(s)]
      OBVIOUS
    <3>1. Len(s) # 1
      BY <2>1 DEF Going
    <3> QED BY <1>1, <1>2, <3>1
  <2>9. p = FiqPlace => t # <<>>
    BY <1>1
  <2> QED BY <1>1, <2>1, <2>2, <2>7, <2>8, <2>9, <2>10 DEF Going
<1> QED BY <1>4, <1>5 DEF Tried

\* The abort on top ends.
LEMMA TryReturn ==
  ASSUME NEW s \in Seq(Frame), NEW m, NEW fr, NEW tr, NEW l, NEW c, NEW l2, NEW c2,
         Shape(s), Placed(s, m), Tried(s, m, fr, tr, l, c),
         s # <<>>, s[1].kind = "abort", NEW t, t = Tail(s),
         \A n : Stage(s[1].at, n, l, c, s[1].place) => Stage("none", n, l2, c2, s[1].place)
  PROVE  Placed(t, m) /\ Tried(t, m, fr, tr, l2, c2)
<1>1. t \in Seq(Frame) /\ Len(t) = Len(s) - 1 /\ Len(t) \in Nat /\ Len(s) \in Nat /\ 1 \in 1 .. Len(s)
  BY TailFacts
<1>2. \A i \in 1 .. Len(t) : i + 1 \in 1 .. Len(s) /\ t[i] = s[i + 1] /\ i + 1 # 1
  BY TailFacts
<1>3. Len(t) # 0 => t # <<>>
  BY <1>1
<1>4. Placed(t, m)
  BY PlacedBelow
<1>5. ASSUME NEW p \in AllPlaces, fr[p] PROVE Going(t, m, p) /\ Counted(t, p, tr[p], l2, c2)
  <2>1. Going(s, m, p) /\ Counted(s, p, tr[p], l, c)
    BY <1>5 DEF Tried
  <2>2. p = s[1].place
    BY <2>1, OnlyTop
  <2>3. NoAbort(t, p)
    BY <1>1, <1>2, <2>2, AbortOnce DEF NoAbort
  <2>4. Stage("none", tr[p], l2, c2, p)
    BY <1>1, <2>1, <2>2 DEF Counted
  <2>5. Counted(t, p, tr[p], l2, c2)
    BY <2>3, <2>4 DEF Counted, NoAbort
  <2>6. p # FiqPlace => \A i \in 1 .. Len(t) : t[i].kind = "abort" => t[i].place = p
    BY <1>2, <2>1 DEF Going
  <2>7. p = IrqPlace => t # <<>> /\ t[Len(t)] = s[Len(s)]
    <3> SUFFICES ASSUME p = IrqPlace PROVE t # <<>> /\ t[Len(t)] = s[Len(s)]
      OBVIOUS
    <3>1. Len(s) # 1
      BY <2>1 DEF Going
    <3>2. Len(t) \in 1 .. Len(t) /\ Len(t) + 1 = Len(s)
      BY <1>1, <3>1
    <3>3. t # <<>>
      BY <1>1, <1>3, <3>2
    <3> QED BY <1>2, <3>2, <3>3
  <2>8. p = FiqPlace => t # <<>> /\ t[1].kind = "fiq" /\ t[1].at = "access"
    <3> SUFFICES ASSUME p = FiqPlace PROVE t # <<>> /\ t[1].kind = "fiq" /\ t[1].at = "access"
      OBVIOUS
    <3>1. 1 < Len(s) /\ s[1 + 1].kind = "fiq"
      BY <1>1, <2>2, PlaceAssumption DEF Placed
    <3>2. s[1 + 1].at = "access"
      BY <1>1, <3>1 DEF Shape
    <3>3. 1 \in 1 .. Len(t) /\ Len(t) # 0
      BY <1>1, <3>1
    <3> QED BY <1>2, <1>3, <3>1, <3>2, <3>3
  <2> QED BY <2>1, <2>5, <2>6, <2>7, <2>8 DEF Going
<1> QED BY <1>4, <1>5 DEF Tried

TriesAll == Placed(stack, main) /\ Tried(stack, main, fresh, tries, sLstLr, sRtyCnt)

LEMMA TryStep == TypeOK /\ TellsAll /\ TriesAll /\ [Next]_vars => TriesAll'
<1> SUFFICES ASSUME TypeOK, TellsAll, TriesAll, [Next]_vars PROVE TriesAll'
  OBVIOUS
<1> USE DEF TriesAll
<1>1. /\ stack \in Seq(Frame) /\ Shape(stack) /\ sRtyCnt \in 0 .. Wrap - 1
      /\ fresh \in [AllPlaces -> BOOLEAN] /\ tries \in [AllPlaces -> 0 .. 4]
  BY DEF TypeOK, TellsAll, Told
<1>2. stack # <<>> => /\ Head(stack) = stack[1] /\ stack[1] \in Frame /\ 1 \in 1 .. Len(stack)
                      /\ Tail(stack) \in Seq(Frame)
  BY <1>1, TailFacts
<1>3. None \notin AllPlaces /\ {IrqPlace, FiqPlace} \subseteq AllPlaces /\ Places \subseteq AllPlaces
      /\ IrqPlace # FiqPlace /\ IrqPlace \notin Places /\ FiqPlace \notin Places
  BY PlaceAssumption DEF AllPlaces
<1>ats. /\ InIrq = {"flag", "ack", "run", "access", "end", "clear", "stuck"}
        /\ InFiq = {"test", "ack", "run", "access", "end", "stuck"}
        /\ InAbort = {"compare", "again", "first", "count"}
  BY DEF InIrq, InFiq, InAbort
<1>same. UNCHANGED <<stack, main, fresh, tries, sLstLr, sRtyCnt>> => TriesAll'
  OBVIOUS
<1>push. ASSUME NEW kind \in {"irq", "fiq"}, NEW at \in {"flag", "test"}, Push(kind, at, None),
                UNCHANGED <<main, fresh, tries, sLstLr, sRtyCnt>>,
                \/ kind = "irq" /\ stack = <<>>
                \/ kind = "fiq" /\ \A i \in 1 .. Len(stack) : stack[i].kind # "fiq"
         PROVE  TriesAll'
  <2> DEFINE f == [kind |-> kind, at |-> at, id |-> None, place |-> None, said |-> 0]
  <2>1. f \in Frame /\ f.kind = kind /\ stack' = <<f>> \o stack
    BY <1>push, <1>ats DEF Push, Frame
  <2> HIDE DEF f
  <2> QED BY <2>1, <1>1, <1>push, TryPush
<1>back. ASSUME NEW kind \in {"irq", "fiq"}, NEW at, at # "access", In(kind, at), Return,
                UNCHANGED <<main, fresh, tries, sLstLr, sRtyCnt>>
         PROVE  TriesAll'
  <2>1. stack # <<>> /\ stack[1].kind # "abort" /\ stack[1].at # "access" /\ stack' = Tail(stack)
    BY <1>back, <1>2 DEF In, Return
  <2> QED BY <2>1, <1>1, <1>back, TryPop
\* No access of the frame on top is fresh but when it is at one.
<1>idle. ASSUME stack # <<>>, stack[1].kind \in {"irq", "fiq"}, stack[1].at # "access"
         PROVE  /\ stack[1].kind = "irq" => ~fresh[IrqPlace] /\ Len(stack) = 1
                /\ stack[1].kind = "fiq" => ~fresh[FiqPlace]
  <2>1. stack[1].kind = "irq" => Len(stack) = 1
    BY <1>idle, <1>1, <1>2 DEF Shape
  <2>2. stack[1].kind = "irq" => ~Going(stack, main, IrqPlace)
    BY <1>idle, <2>1 DEF Going
  <2>3. stack[1].kind = "fiq" => ~Going(stack, main, FiqPlace)
    BY <1>idle DEF Going
  <2> QED BY <1>3, <2>1, <2>2, <2>3 DEF Tried
<1>move. ASSUME NEW kind \in {"irq", "fiq"}, NEW at, at # "access", In(kind, at), NEW f \in Frame,
                f.kind = kind, stack' = [stack EXCEPT ![1] = f],
                UNCHANGED <<main, fresh, tries, sLstLr, sRtyCnt>>
         PROVE  TriesAll'
  <2>1. stack # <<>> /\ stack[1].kind = kind /\ stack[1].at # "access"
    BY <1>move, <1>2 DEF In
  <2>2. f.kind = stack[1].kind /\ stack[1].kind # "abort" /\ stack' = [stack EXCEPT ![1] = f]
    BY <2>1, <1>move
  <2>3. stack \in Seq(Frame) /\ Shape(stack) /\ Placed(stack, main)
        /\ Tried(stack, main, fresh, tries, sLstLr, sRtyCnt)
    BY <1>1
  <2>4. Placed(stack', main) /\ Tried(stack', main, fresh, tries, sLstLr, sRtyCnt)
    BY <2>1, <2>2, <2>3, TryMove
  <2> QED BY <2>4, <1>move
<1>goto. ASSUME NEW kind \in {"irq", "fiq"}, NEW at, at # "access", In(kind, at),
                NEW to \in InIrq \cup InFiq, GoTo(to),
                UNCHANGED <<main, fresh, tries, sLstLr, sRtyCnt>>
         PROVE  TriesAll'
  <2> DEFINE f == [stack[1] EXCEPT !.at = to]
  <2>1. f \in Frame /\ f.kind = kind /\ stack' = [stack EXCEPT ![1] = f]
    BY <1>goto, <1>1, <1>2 DEF In, GoTo, Frame
  <2> HIDE DEF f
  <2> QED BY <2>1, <1>goto, <1>move
<1>over. ASSUME NEW p \in AllPlaces, AbortAt(p), UNCHANGED <<main, sLstLr, sRtyCnt>>,
                \/ stack = <<>> /\ main = p /\ p \in Places
                \/ stack # <<>> /\ stack[1].kind = "irq" /\ stack[1].at = "access" /\ p = IrqPlace
                \/ stack # <<>> /\ stack[1].kind = "fiq" /\ stack[1].at = "access" /\ p = FiqPlace
         PROVE  TriesAll'
  <2> DEFINE f == [kind |-> "abort", at |-> "compare", id |-> None, place |-> p, said |-> 0]
  <2>1. f \in Frame /\ f.kind = "abort" /\ f.at = "compare" /\ f.place = p /\ stack' = <<f>> \o stack
    BY <1>over DEF Frame, AbortAt, Push, InAbort
  <2>2. OnlyFresh(fresh, tries, p, fresh', tries')
    BY <1>over DEF AbortAt, OnlyFresh
  <2> HIDE DEF f
  <2>3. stack \in Seq(Frame) /\ Shape(stack) /\ Placed(stack, main)
        /\ Tried(stack, main, fresh, tries, sLstLr, sRtyCnt)
        /\ fresh \in [AllPlaces -> BOOLEAN] /\ tries \in [AllPlaces -> 0 .. 4]
    BY <1>1
  <2>4. \/ stack = <<>> /\ main = p /\ p \in Places
        \/ stack # <<>> /\ stack[1].kind = "irq" /\ stack[1].at = "access" /\ p = IrqPlace
        \/ stack # <<>> /\ stack[1].kind = "fiq" /\ stack[1].at = "access" /\ p = FiqPlace
    BY <1>over
  <2>5. Placed(stack', main) /\ Tried(stack', main, fresh', tries', sLstLr, sRtyCnt)
    BY <2>1, <2>2, <2>3, <2>4, TryAbort
  <2> QED BY <2>5, <1>over
<1>a. ASSUME NEW p \in Places, Access(p) PROVE TriesAll'
  <2>1. stack = <<>> /\ main = None /\ main' = p /\ BeginAt(p) /\ UNCHANGED <<stack, sLstLr, sRtyCnt>>
    BY <1>a DEF Access
  <2>2. \A q \in AllPlaces : ~fresh[q] /\ tries[q] = 0
    <3>1. \A q \in AllPlaces : ~Going(stack, main, q)
      BY <1>3, <2>1 DEF Going, AllPlaces
    <3> QED BY <3>1 DEF Tried
  <2>3. Tried(stack, p, fresh, tries, sLstLr, sRtyCnt)
    BY <2>2, TryNone
  <2>4. Going(stack, p, p) /\ NoAbort(stack, p) /\ Placed(stack, p)
    BY <1>3, <2>1 DEF Going, NoAbort, Placed
  <2>5. p \in AllPlaces /\ ~fresh[p]
    BY <1>3, <2>2
  <2>6. Tried(stack, p, fresh', tries, sLstLr, sRtyCnt)
    BY <1>1, <2>1, <2>3, <2>4, <2>5, TryBegin DEF BeginAt
  <2> QED BY <2>1, <2>4, <2>6 DEF BeginAt
<1>b. CASE Attempt
  <2>1. stack = <<>> /\ main \in Places /\ main \in AllPlaces /\ UNCHANGED <<sLstLr, sRtyCnt>>
    BY <1>b, <1>3 DEF Attempt, TypeOK
  <2>2. CASE AbortAt(main) /\ UNCHANGED main
    BY <2>1, <2>2, <1>over
  <2>3. CASE EndAt(main) /\ main' = None /\ UNCHANGED stack
    <3>1. \A q \in AllPlaces : ~fresh'[q] /\ tries'[q] = 0
      <4>1. \A q \in AllPlaces : q # main => ~Going(stack, main, q)
        BY <1>3, <2>1 DEF Going, AllPlaces
      <4> QED BY <1>1, <2>1, <2>3, <4>1 DEF Tried, EndAt
    <3> QED BY <2>1, <2>3, <3>1, TryNone DEF Placed
  <2> QED BY <1>b, <2>2, <2>3 DEF Attempt
<1>stage. ASSUME NEW at, NEW to \in InAbort, In("abort", at), GoTo(to), UNCHANGED <<main, fresh, tries>>,
                 \A n : Stage(at, n, sLstLr, sRtyCnt, stack[1].place)
                          => Stage(to, n, sLstLr', sRtyCnt', stack[1].place)
          PROVE  TriesAll'
  <2> DEFINE f == [stack[1] EXCEPT !.at = to]
  <2>1. f \in Frame /\ f.kind = "abort" /\ f.at = to /\ f.place = stack[1].place
        /\ stack[1].kind = "abort" /\ stack[1].at = at /\ stack # <<>>
        /\ stack' = [stack EXCEPT ![1] = f]
    BY <1>stage, <1>1, <1>2 DEF In, GoTo, Frame
  <2> HIDE DEF f
  <2>2. stack \in Seq(Frame) /\ Shape(stack) /\ Placed(stack, main)
        /\ Tried(stack, main, fresh, tries, sLstLr, sRtyCnt)
    BY <1>1
  <2>3. Follows(stack[1].at, sLstLr, sRtyCnt, f.at, sLstLr', sRtyCnt', f.place)
    BY <2>1, <1>stage DEF Follows
  <2>4. GoesOn(stack, f, stack')
    BY <2>1 DEF GoesOn
  <2>5. Placed(stack', main) /\ Tried(stack', main, fresh, tries, sLstLr', sRtyCnt')
    BY <2>1, <2>2, <2>3, <2>4, TryChange
  <2> QED BY <2>5, <1>stage
<1>leave. ASSUME NEW at, In("abort", at), Return, UNCHANGED <<main, fresh, tries>>,
                 \A n : Stage(at, n, sLstLr, sRtyCnt, stack[1].place)
                          => Stage("none", n, sLstLr', sRtyCnt', stack[1].place)
          PROVE  TriesAll'
  <2>1. stack[1].kind = "abort" /\ stack[1].at = at /\ stack # <<>> /\ stack' = Tail(stack)
    BY <1>leave, <1>2 DEF In, Return
  <2>2. Placed(stack', main) /\ Tried(stack', main, fresh, tries, sLstLr', sRtyCnt')
    BY <2>1, <1>1, <1>leave, TryReturn
  <2> QED BY <2>2, <1>leave
<1>c. CASE Compare
  <2> DEFINE to == IF sLstLr = stack[1].place THEN "again" ELSE "first"
  <2>1. In("abort", "compare") /\ GoTo(to) /\ to \in InAbort /\ UNCHANGED <<main, fresh, tries, sLstLr, sRtyCnt>>
    BY <1>c, <1>2, <1>ats DEF Compare, In, history
  <2>2. \A n : Stage("compare", n, sLstLr, sRtyCnt, stack[1].place)
                 => Stage(to, n, sLstLr', sRtyCnt', stack[1].place)
    BY <2>1 DEF Stage
  <2> HIDE DEF to
  <2> QED BY <2>1, <2>2, <1>stage
<1>d. CASE Again
  <2>1. In("abort", "again") /\ stack # <<>> /\ sRtyCnt' = (sRtyCnt - 1) % Wrap /\ sLstLr' = sLstLr
        /\ stack[1].kind = "abort" /\ stack[1].at = "again"
    BY <1>d, <1>2 DEF Again, Lowered, In
  <2>2. sRtyCnt \in 1 .. Wrap - 1 => sRtyCnt' = sRtyCnt - 1
    <3> SUFFICES ASSUME sRtyCnt \in 1 .. Wrap - 1 PROVE (sRtyCnt - 1) % Wrap = sRtyCnt - 1
      BY <2>1
    <3>1. sRtyCnt - 1 \in 0 .. Wrap - 1 /\ Wrap \in Nat /\ Wrap > 2
      BY WrapAssumption
    <3> QED BY <3>1, SMT
  <2>3. CASE sRtyCnt' > 0 /\ Return /\ UNCHANGED <<main, tries, fresh>>
    <3>1. \A n : Stage("again", n, sLstLr, sRtyCnt, stack[1].place)
                   => Stage("none", n, sLstLr', sRtyCnt', stack[1].place)
      <4> SUFFICES ASSUME NEW n \in {2, 3}, sLstLr = stack[1].place, sRtyCnt = 4 - n
                   PROVE  Stage("none", n, sLstLr, sRtyCnt', stack[1].place)
        BY <2>1 DEF Stage
      <4>1. sRtyCnt' = 3 - n
        BY <2>2, WrapAssumption
      <4>2. n = 2
        BY <2>3, <4>1
      <4> QED BY <4>1, <4>2 DEF Stage
    <3> QED BY <2>1, <2>3, <3>1, <1>leave
  <2>4. CASE Skip
    <3> DEFINE below == Tail(stack)
    <3>1. \A q \in AllPlaces : q # stack[1].place => ~fresh[q] /\ tries[q] = 0
      BY <1>1, <2>1, OnlyTop DEF Tried
    <3>2. \A q \in AllPlaces : ~fresh'[q] /\ tries'[q] = 0
      BY <1>1, <1>2, <2>1, <2>4, <3>1 DEF Skip, EndAt
    <3>3. Placed(below, main)
      BY <1>1, <2>1, PlacedBelow
    <3>4. CASE stack' = below /\ main' = main
      BY <3>2, <3>3, <3>4, TryNone
    <3>5. CASE stack' = <<>>
      BY <3>2, <3>5, TryNone DEF Placed
    <3>6. CASE below # <<>> /\ stack' = [below EXCEPT ![1].at = "end"] /\ main' = main
      <4>1. below \in Seq(Frame) /\ below[1] \in Frame
        BY <1>2, <2>1, <3>6
      <4>2. stack' = [below EXCEPT ![1].at = "end"] /\ main' = main
        BY <3>6
      <4> HIDE DEF below
      <4>3. /\ Len(stack') = Len(below)
            /\ \A i \in 1 .. Len(below) : stack'[i].kind = below[i].kind /\ stack'[i].place = below[i].place
        BY <4>1, <4>2, <3>6, <1>ats DEF Frame
      <4>4. Placed(stack', main)
        BY <3>3, <4>3 DEF Placed
      <4> QED BY <3>2, <4>2, <4>4, TryNone
    <3> QED BY <2>4, <3>4, <3>5, <3>6 DEF Skip
  <2> QED BY <1>d, <2>3, <2>4 DEF Again, Worth
<1>e. CASE First
  <2>1. In("abort", "first") /\ GoTo("count") /\ sLstLr' = stack[1].place
        /\ UNCHANGED <<main, fresh, tries, sRtyCnt>>
    BY <1>e, <1>2 DEF First, Remember, In, history
  <2>2. \A n : Stage("first", n, sLstLr, sRtyCnt, stack[1].place)
                 => Stage("count", n, sLstLr', sRtyCnt', stack[1].place)
    BY <2>1 DEF Stage
  <2> QED BY <2>1, <2>2, <1>stage, <1>ats
<1>f. CASE Count
  <2>1. In("abort", "count") /\ Return /\ sRtyCnt' = 2 /\ UNCHANGED <<main, fresh, tries, sLstLr>>
    BY <1>f DEF Count, history
  <2>2. \A n : Stage("count", n, sLstLr, sRtyCnt, stack[1].place)
                 => Stage("none", n, sLstLr', sRtyCnt', stack[1].place)
    BY <2>1 DEF Stage
  <2> QED BY <2>1, <2>2, <1>leave
<1>g. CASE TakeIrq
  BY <1>g, <1>push DEF TakeIrq, history
<1>h. CASE TakeFiq
  BY <1>h, <1>1, <1>push DEF TakeFiq, history
<1>i. CASE SetFlag
  BY <1>i, <1>goto, <1>ats DEF SetFlag, history
<1>ack. ASSUME NEW id \in Interrupts, NEW kind \in {"irq", "fiq"}, In(kind, "ack"), Acknowledge(id),
               UNCHANGED <<main, fresh, tries, sLstLr, sRtyCnt>>
        PROVE  TriesAll'
  <2> DEFINE a == IF id \in Registered THEN "run" ELSE "stuck"
             f == [stack[1] EXCEPT !.id = id, !.at = a]
  <2>1. f \in Frame /\ f.kind = kind /\ stack' = [stack EXCEPT ![1] = f]
    BY <1>ack, <1>2, <1>ats DEF In, Frame, Acknowledge
  <2> HIDE DEF f, a
  <2> QED BY <1>ack, <2>1, <1>move
<1>j. CASE IrqAck
  BY <1>j, <1>ack DEF IrqAck, Pending, Interrupts, history
<1>k. CASE IrqNothing
  BY <1>k, <1>back DEF IrqNothing
<1>l. CASE IrqEnd
  BY <1>l, <1>goto, <1>ats DEF IrqEnd, history
<1>m. CASE ClearFlag
  BY <1>m, <1>back DEF ClearFlag
<1>n. CASE Test
  <2> DEFINE f == [stack[1] EXCEPT !.said = irqFlag, !.at = "ack"]
  <2>1. f \in Frame /\ f.kind = "fiq" /\ stack' = [stack EXCEPT ![1] = f]
    BY <1>n, <1>2, <1>ats DEF Test, In, Frame, TypeOK
  <2> HIDE DEF f
  <2> QED BY <1>n, <2>1, <1>move DEF Test, history
<1>o. CASE FiqAck
  BY <1>o, <1>ack DEF FiqAck, Pending, Interrupts, history
<1>p. CASE FiqNothing
  BY <1>p, <1>back DEF FiqNothing, history
<1>q. CASE FiqEnd
  BY <1>q, <1>back DEF FiqEnd, history
<1>r. CASE Serve
  <2>1. PICK kind \in {"irq", "fiq"} : In(kind, "run")
    BY <1>r DEF Serve
  <2>2. UNCHANGED <<main, sLstLr, sRtyCnt>> /\ stack # <<>> /\ stack[1].kind = kind /\ stack[1].at = "run"
    BY <1>r, <1>2, <2>1 DEF Serve, In
  <2>3. CASE GoTo("end") /\ UNCHANGED <<tries, fresh>>
    BY <2>1, <2>2, <2>3, <1>goto, <1>ats
  <2>4. CASE GoTo("access") /\ BeginAt(HandlerPlace)
    <3> DEFINE f == [stack[1] EXCEPT !.at = "access"]
               q == HandlerPlace
    <3>1. f \in Frame /\ f.kind = kind /\ f.at = "access" /\ stack' = [stack EXCEPT ![1] = f]
      BY <1>1, <1>2, <1>ats, <2>2, <2>4 DEF GoTo, Frame
    <3>2. /\ q \in AllPlaces /\ ~fresh[q]
          /\ kind = "irq" => q = IrqPlace /\ Len(stack) = 1
          /\ kind = "fiq" => q = FiqPlace
      BY <1>2, <1>3, <1>idle, <2>2 DEF HandlerPlace
    <3>3. fresh' = [fresh EXCEPT ![q] = sLstLr # q] /\ tries' = tries
      BY <2>4 DEF BeginAt
    <3> HIDE DEF f, q
    <3>move. /\ stack \in Seq(Frame) /\ Shape(stack) /\ Placed(stack, main)
             /\ Tried(stack, main, fresh, tries, sLstLr, sRtyCnt)
             /\ stack # <<>> /\ stack[1].kind # "abort" /\ f.kind = stack[1].kind
             /\ stack[1].at # "access"
      BY <1>1, <2>2, <3>1
    <3>4. Placed(stack', main) /\ Tried(stack', main, fresh, tries, sLstLr, sRtyCnt)
      BY <3>1, <3>move, TryMove
    <3>5. stack' \in Seq(Frame) /\ Len(stack') = Len(stack) /\ stack'[1] = f /\ stack' # <<>>
          /\ \A i \in 2 .. Len(stack) : stack'[i] = stack[i]
      BY <1>1, <2>2, <3>1, TopFacts
    <3>6. NoAbort(stack', q) /\ Going(stack', main, q)
      <4>1. CASE kind = "irq"
        <5>1. q = IrqPlace /\ Len(stack') = 1 /\ stack'[1].kind = "irq" /\ stack'[1].at = "access"
          BY <3>1, <3>2, <3>5, <4>1
        <5> QED BY <1>3, <3>5, <5>1 DEF NoAbort, Going
      <4>2. CASE kind = "fiq"
        <5>1. q = FiqPlace /\ stack'[1].kind = "fiq" /\ stack'[1].at = "access"
          BY <3>1, <3>2, <3>5, <4>2
        <5>2. Going(stack', main, q)
          BY <1>3, <3>5, <5>1 DEF Going
        <5>3. ASSUME NEW i \in 1 .. Len(stack'), stack'[i].kind = "abort", stack'[i].place = FiqPlace
              PROVE  FALSE
          <6>1. i \in 2 .. Len(stack) /\ i \in 1 .. Len(stack) /\ stack[i].kind = "abort"
                /\ stack[i].place = FiqPlace
            BY <1>1, <3>5, <5>1, <5>3
          <6>2. i < Len(stack) /\ stack[i + 1].kind = "fiq"
            BY <1>3, <6>1 DEF Placed
          <6>3. i + 1 \in 1 .. Len(stack) /\ 1 \in 1 .. Len(stack) /\ i + 1 # 1
            BY <1>1, <6>1, <6>2
          <6> QED BY <1>1, <2>2, <4>2, <6>2, <6>3 DEF Shape
        <5> QED BY <5>1, <5>2, <5>3 DEF NoAbort
      <4> QED BY <4>1, <4>2
    <3>7. Tried(stack', main, fresh', tries, sLstLr, sRtyCnt)
      BY <1>1, <3>2, <3>3, <3>4, <3>6, TryBegin
    <3> QED BY <2>2, <3>3, <3>4, <3>7
  <2> QED BY <1>r, <2>3, <2>4 DEF Serve
<1>s. CASE HandlerAttempt
  <2>1. PICK kind \in {"irq", "fiq"} : In(kind, "access")
    BY <1>s DEF HandlerAttempt
  <2>2. UNCHANGED <<main, sLstLr, sRtyCnt>> /\ stack # <<>> /\ stack[1].kind = kind /\ stack[1].at = "access"
    BY <1>s, <1>2, <2>1 DEF HandlerAttempt, In
  <2>3. PICK q \in AllPlaces : /\ AbortAt(q) \/ (EndAt(q) /\ GoTo("end"))
                               /\ kind = "irq" => q = IrqPlace
                               /\ kind = "fiq" => q = FiqPlace
    BY <1>s, <1>2, <1>3, <2>2 DEF HandlerAttempt, HandlerPlace
  <2>4. CASE AbortAt(q)
    BY <2>2, <2>3, <2>4, <1>over
  <2>5. CASE EndAt(q) /\ GoTo("end")
    <3> DEFINE f == [stack[1] EXCEPT !.at = "end"]
    <3>1. f \in Frame /\ f.kind = kind /\ stack' = [stack EXCEPT ![1] = f]
      BY <1>1, <1>2, <1>ats, <2>2, <2>5 DEF GoTo, Frame
    <3>6. f.kind = stack[1].kind /\ stack[1].kind # "abort" /\ stack[1].kind \in {"irq", "fiq"}
      BY <2>2, <3>1
    <3>2. fresh' = [fresh EXCEPT ![q] = FALSE] /\ tries' = [tries EXCEPT ![q] = 0]
      BY <2>5 DEF EndAt
    <3>3. /\ stack[1].kind = "irq" => ~fresh'[IrqPlace]
          /\ stack[1].kind = "fiq" => ~fresh'[FiqPlace]
      <4>1. fresh'[q] = FALSE
        BY <1>1, <3>2
      <4> QED BY <2>2, <2>3, <4>1
    <3> HIDE DEF f
    <3>4. Tried(stack, main, fresh', tries', sLstLr, sRtyCnt)
      BY <1>1, <3>2, TryEnd
    <3>7. stack \in Seq(Frame) /\ Shape(stack) /\ Placed(stack, main)
      BY <1>1
    <3>5. Placed(stack', main) /\ Tried(stack', main, fresh', tries', sLstLr, sRtyCnt)
      BY <2>2, <3>1, <3>3, <3>4, <3>6, <3>7, TryMove
    <3> QED BY <2>2, <3>5
  <2> QED BY <2>3, <2>4, <2>5
<1>t. ASSUME NEW i \in Interrupts, Raise(i) \/ Withdraw(i) PROVE TriesAll'
  BY <1>t DEF Raise, Withdraw, handling, history
<1>u. CASE UNCHANGED vars
  BY <1>u DEF vars, handling, history
<1> QED
  BY <1>a, <1>b, <1>c, <1>d, <1>e, <1>f, <1>g, <1>h, <1>i, <1>j, <1>k, <1>l, <1>m, <1>n, <1>o,
     <1>p, <1>q, <1>r, <1>s, <1>t, <1>u
  DEF Next, Execute, DataAbort, Handlers, Environment

\* An access whose place was not remembered when it began is tried three times,
\* neither more nor less, before it is given up (dabort_main).
THEOREM TriedThrice == Spec => []ThreeTries
<1>1. Init => TypeOK /\ TellsAll /\ TriesAll
  <2>1. Init => TellsAll /\ TriesAll
    BY DEF Init, TellsAll, Told, Shape, Flag, Reports, Above, TriesAll, Placed, Tried
  <2>2. Init => TypeOK
    BY TypeInit
  <2> QED BY <2>1, <2>2
<1>2. TypeOK /\ TellsAll /\ TriesAll /\ [Next]_vars => TypeOK' /\ TellsAll' /\ TriesAll'
  BY TypeStep, TellStep, TryStep
<1>3. TypeOK /\ TriesAll => ThreeTries
  <2> SUFFICES ASSUME TypeOK, TriesAll PROVE ThreeTries
    OBVIOUS
  <2>1. ASSUME NEW p \in AllPlaces, fresh[p] PROVE tries[p] <= 3
    <3>1. Counted(stack, p, tries[p], sLstLr, sRtyCnt)
      BY <2>1 DEF TriesAll, Tried
    <3>2. PICK at : Stage(at, tries[p], sLstLr, sRtyCnt, p)
      BY <3>1 DEF Counted, NoAbort
    <3> QED BY <3>2 DEF Stage
  <2>2. ASSUME GivesUp, fresh[Head(stack).place] PROVE tries[Head(stack).place] = 3
    <3> DEFINE p == stack[1].place
    <3>1. stack \in Seq(Frame) /\ stack # <<>> /\ Head(stack) = stack[1]
          /\ stack[1].kind = "abort" /\ stack[1].at = "again" /\ ~(Lowered(sRtyCnt) > 0)
          /\ 1 \in 1 .. Len(stack)
      BY <2>2, TailFacts DEF GivesUp, In, TypeOK
    <3>2. p \in AllPlaces
      <4>1. Placed(stack, main)
        BY DEF TriesAll
      <4> QED BY <3>1, <4>1 DEF Placed, AllPlaces
    <3>3. Stage("again", tries[p], sLstLr, sRtyCnt, p)
      BY <2>2, <3>1, <3>2 DEF TriesAll, Tried, Counted
    <3>4. tries[p] \in {2, 3} /\ sRtyCnt = 4 - tries[p]
      BY <3>3 DEF Stage
    <3>5. Lowered(2) = 1
      <4>1. 2 - 1 \in 0 .. Wrap - 1 /\ Wrap \in Nat /\ Wrap > 2
        BY WrapAssumption
      <4> QED BY <4>1, SMT DEF Lowered
    <3>6. sRtyCnt # 2
      BY <3>1, <3>5
    <3> QED BY <3>1, <3>4, <3>6
  <2> QED BY <2>1, <2>2 DEF ThreeTries
<1> QED BY <1>1, <1>2, <1>3, PTL DEF Spec
=============================================================================
