------------------------------ MODULE R5Safety ------------------------------
(***************************************************************************)
(* The exceptions of the R5 safety island (init/main_r5_safety.c): IRQ,    *)
(* FIQ and data abort over the main thread, the flag by which an FIQ sees  *)
(* that it came in the middle of an IRQ, and the two variables by which a  *)
(* data abort counts how often an access has been tried.                   *)
(*                                                                         *)
(* An access is represented by its place in the program, which is the lr   *)
(* of the abort.  The processor masks IRQ in every exception and FIQ in an *)
(* FIQ only; the interrupt controller (GIC) has every FIQ before any IRQ.  *)
(***************************************************************************)
EXTENDS Integers, Sequences

CONSTANTS
  Irqs,        \* interrupts of group 1
  Fiqs,        \* interrupts of group 0
  Registered,  \* those with a handler; isr_init puts no other in group 1
  Places,      \* accesses of the main thread that may abort
  IrqPlace,    \* an access of an IRQ handler that may abort
  FiqPlace,    \* an access of an FIQ handler that may abort
  Found,       \* those whose lr the vector puts where dabort_main looks for it
  None,        \* no place; the 0 of sLstLr
  Wrap         \* 2^32, the values of an unsigned int

Interrupts == Irqs \cup Fiqs
AllPlaces  == Places \cup {IrqPlace, FiqPlace}

ASSUME InterruptAssumption == Irqs \cap Fiqs = {} /\ Irqs \subseteq Registered
ASSUME PlaceAssumption == None \notin AllPlaces /\ IrqPlace # FiqPlace
                          /\ {IrqPlace, FiqPlace} \cap Places = {}
ASSUME WrapAssumption  == Wrap \in Nat /\ Wrap > 2

VARIABLES
  main,     \* the access the main thread is at
  stack,    \* the exceptions being handled, the newest first
  irqFlag,
  sLstLr, sRtyCnt,
  line,     \* GIC: interrupts whose source asks for service
  active,   \* GIC: interrupts acknowledged and not ended
  tries,    \* history: aborts of an access that is fresh, up to four
  fresh,    \* history: that access began, and went on, with no other abort remembered
  nothing   \* history: the last IRQ came to nothing

handling == <<main, stack, irqFlag, sLstLr, sRtyCnt>>
outside  == <<line, active>>
history  == <<tries, fresh, nothing>>
vars     == <<handling, outside, history>>

\* The places in irq_enter, fiq_enter and dabort_main.
InIrq   == {"flag", "ack", "run", "access", "end", "clear", "stuck"}
InFiq   == {"test", "ack", "run", "access", "end", "stuck"}
InAbort == {"compare", "again", "first", "count"}

Frame == [kind : {"irq", "fiq", "abort"}, at : InIrq \cup InFiq \cup InAbort, id : Interrupts \cup {None},
          place : AllPlaces \cup {None}, said : {0, 1}]

Init ==
  /\ main = None /\ stack = <<>> /\ irqFlag = 0
  /\ sLstLr = None /\ sRtyCnt = 0
  /\ line = {} /\ active = {}
  /\ tries = [p \in AllPlaces |-> 0] /\ fresh = [p \in AllPlaces |-> FALSE] /\ nothing = FALSE

In(kind, at) == stack # <<>> /\ Head(stack).kind = kind /\ Head(stack).at = at
GoTo(at)     == stack' = [stack EXCEPT ![1].at = at]
Return       == stack' = Tail(stack)
Push(kind, at, place) ==
  stack' = <<[kind |-> kind, at |-> at, id |-> None, place |-> place, said |-> 0]>> \o stack
-----------------------------------------------------------------------------
(* Accesses and data aborts.                                               *)

\* An access begins; the last abort, if any, was at another place.
BeginAt(p) == fresh' = [fresh EXCEPT ![p] = sLstLr # p] /\ UNCHANGED tries
EndAt(p)   == fresh' = [fresh EXCEPT ![p] = FALSE] /\ tries' = [tries EXCEPT ![p] = 0]

\* The access aborts.  Any other that is under way is no longer alone.
AbortAt(p) ==
  /\ Push("abort", "compare", p)
  /\ fresh' = [q \in AllPlaces |-> q = p /\ fresh[q]]
  /\ tries' = [q \in AllPlaces |-> IF ~fresh'[q] THEN 0 ELSE IF tries[q] < 4 THEN tries[q] + 1 ELSE 4]

Access(p) ==
  /\ stack = <<>> /\ main = None
  /\ main' = p
  /\ BeginAt(p)
  /\ UNCHANGED <<stack, irqFlag, sLstLr, sRtyCnt, outside, nothing>>

\* Whether it aborts is up to faults that are injected, stay, or are repaired by
\* dAbrtCb (parityClear).
Attempt ==
  /\ stack = <<>> /\ main # None
  /\ \/ AbortAt(main) /\ UNCHANGED main
     \/ EndAt(main) /\ main' = None /\ UNCHANGED stack
  /\ UNCHANGED <<irqFlag, sLstLr, sRtyCnt, outside, nothing>>

\* dabort_main
Compare ==
  /\ In("abort", "compare")
  /\ GoTo(IF sLstLr = Head(stack).place THEN "again" ELSE "first")
  /\ UNCHANGED <<main, irqFlag, sLstLr, sRtyCnt, outside, history>>

\* The lr on the stack is moved past the access, if it is found there; if not, the
\* access is made again, and aborts are counted for it as for one given up before.
Skip ==
  LET p     == Head(stack).place
      below == Tail(stack)
  IN /\ EndAt(p)
     /\ IF p \in Found /\ below = <<>> THEN main' = None ELSE UNCHANGED main
     /\ stack' = IF p \in Found /\ below # <<>> THEN [below EXCEPT ![1].at = "end"] ELSE below

\* What is left is worth another try; the form that tries once more.
WorthOneMore(n) == n >= 0
Worth(n)        == n > 0

\* The count is unsigned; the other is not.
Signed(n)  == n - 1
Lowered(n) == (n - 1) % Wrap

Again ==
  /\ In("abort", "again")
  /\ sRtyCnt' = Lowered(sRtyCnt)
  /\ IF Worth(sRtyCnt')
     THEN Return /\ UNCHANGED <<main, tries, fresh>>
     ELSE Skip
  /\ UNCHANGED <<irqFlag, sLstLr, outside, nothing>>

\* The place is remembered; the other form leaves the one before.
RememberOld(p) == UNCHANGED sLstLr
Remember(p)    == sLstLr' = p

First ==
  /\ In("abort", "first")
  /\ Remember(Head(stack).place)
  /\ GoTo("count")
  /\ UNCHANGED <<main, irqFlag, sRtyCnt, outside, history>>

Count ==
  /\ In("abort", "count")
  /\ sRtyCnt' = 2
  /\ Return
  /\ UNCHANGED <<main, irqFlag, sLstLr, outside, history>>

DataAbort == Compare \/ Again \/ First \/ Count
-----------------------------------------------------------------------------
(* The GIC and the processor.                                              *)

Pending == line \ active

\* An FIQ is signalled also while an IRQ is active.
FiqSignalled == Pending \cap Fiqs # {} /\ active \cap Fiqs = {}
IrqSignalled == Pending \cap Irqs # {} /\ Pending \cap Fiqs = {} /\ active = {}

TakeIrq ==
  /\ stack = <<>> /\ IrqSignalled
  /\ Push("irq", "flag", None)
  /\ UNCHANGED <<main, irqFlag, sLstLr, sRtyCnt, outside, history>>

TakeFiq ==
  /\ \A i \in DOMAIN stack : stack[i].kind # "fiq"
  /\ FiqSignalled
  /\ Push("fiq", "test", None)
  /\ UNCHANGED <<main, irqFlag, sLstLr, sRtyCnt, outside, history>>

\* The acknowledge register gives an interrupt of the group, which becomes
\* active, or 1022 or 1023 when there is none or one of the other comes first.  The
\* processor is stuck in an interrupt without a handler.
Acknowledge(id) ==
  /\ active' = active \cup {id}
  /\ stack' = [stack EXCEPT ![1].id = id, ![1].at = IF id \in Registered THEN "run" ELSE "stuck"]
-----------------------------------------------------------------------------
(* irq_enter                                                               *)

SetFlag ==
  /\ In("irq", "flag")
  /\ irqFlag' = 1
  /\ GoTo("ack")
  /\ UNCHANGED <<main, sLstLr, sRtyCnt, outside, history>>

IrqAck ==
  /\ In("irq", "ack") /\ IrqSignalled
  /\ \E id \in Pending \cap Irqs : Acknowledge(id)
  /\ UNCHANGED <<main, irqFlag, sLstLr, sRtyCnt, line, history>>

IrqNothing ==
  /\ In("irq", "ack") /\ ~IrqSignalled
  /\ Return
  /\ nothing' = TRUE
  /\ UNCHANGED <<main, irqFlag, sLstLr, sRtyCnt, outside, tries, fresh>>

\* The flag is lowered, and a form that leaves it up.
FlagKept == UNCHANGED irqFlag
FlagDown == irqFlag' = 0

IrqEnd ==
  /\ In("irq", "end")
  /\ active' = active \ {Head(stack).id}
  /\ GoTo("clear")
  /\ UNCHANGED <<main, irqFlag, sLstLr, sRtyCnt, line, history>>

ClearFlag ==
  /\ In("irq", "clear")
  /\ FlagDown
  /\ Return
  /\ nothing' = FALSE
  /\ UNCHANGED <<main, sLstLr, sRtyCnt, outside, tries, fresh>>
-----------------------------------------------------------------------------
(* fiq_enter                                                               *)

Test ==
  /\ In("fiq", "test")
  /\ stack' = [stack EXCEPT ![1].said = irqFlag, ![1].at = "ack"]
  /\ UNCHANGED <<main, irqFlag, sLstLr, sRtyCnt, outside, history>>

FiqAck ==
  /\ In("fiq", "ack") /\ FiqSignalled
  /\ \E id \in Pending \cap Fiqs : Acknowledge(id)
  /\ UNCHANGED <<main, irqFlag, sLstLr, sRtyCnt, line, history>>

\* What an FIQ that finds nothing ends, and a form that writes what it has read.
EndsAll     == active' = {}
EndsNothing == UNCHANGED active

FiqNothing ==
  /\ In("fiq", "ack") /\ ~FiqSignalled
  /\ EndsNothing
  /\ Return
  /\ UNCHANGED <<main, irqFlag, sLstLr, sRtyCnt, line, history>>

FiqEnd ==
  /\ In("fiq", "end")
  /\ active' = active \ {Head(stack).id}
  /\ Return
  /\ UNCHANGED <<main, irqFlag, sLstLr, sRtyCnt, line, history>>

\* A registered handler serves its source and may make an access of its own.
HandlerPlace == IF Head(stack).kind = "irq" THEN IrqPlace ELSE FiqPlace

Serve ==
  /\ In("irq", "run") \/ In("fiq", "run")
  /\ line' = line \ {Head(stack).id}
  /\ \/ GoTo("end") /\ UNCHANGED <<tries, fresh>>
     \/ GoTo("access") /\ BeginAt(HandlerPlace)
  /\ UNCHANGED <<main, irqFlag, sLstLr, sRtyCnt, active, nothing>>

HandlerAttempt ==
  /\ In("irq", "access") \/ In("fiq", "access")
  /\ \/ AbortAt(HandlerPlace)
     \/ EndAt(HandlerPlace) /\ GoTo("end")
  /\ UNCHANGED <<main, irqFlag, sLstLr, sRtyCnt, outside, nothing>>

Handlers ==
  \/ SetFlag \/ IrqAck \/ IrqNothing \/ IrqEnd \/ ClearFlag
  \/ Test \/ FiqAck \/ FiqNothing \/ FiqEnd
  \/ Serve \/ HandlerAttempt
-----------------------------------------------------------------------------
(* What goes on outside.                                                   *)

Raise(i)    == i \notin line /\ line' = line \cup {i}
                 /\ UNCHANGED <<handling, active, history>>
Withdraw(i) == i \in line /\ line' = line \ {i}
                 /\ UNCHANGED <<handling, active, history>>

Environment == \E i \in Interrupts : Raise(i) \/ Withdraw(i)

Execute == Attempt \/ DataAbort \/ Handlers

Next == (\E p \in Places : Access(p)) \/ Execute \/ TakeIrq \/ TakeFiq \/ Environment

Spec == Init /\ [][Next]_vars

\* The processor executes, and interrupts leave time for what they interrupt: at
\* most an abort in an FIQ in an abort in an IRQ, or over the main thread.
LiveSpec == Spec /\ \A depth \in 0 .. 4 : SF_vars(Len(stack) = depth /\ Execute)
-----------------------------------------------------------------------------
(* Properties.                                                             *)

TypeOK ==
  /\ main \in Places \cup {None}
  /\ stack \in Seq(Frame)
  /\ irqFlag \in {0, 1}
  /\ sLstLr \in AllPlaces \cup {None} /\ sRtyCnt \in 0 .. Wrap - 1
  /\ line \subseteq Interrupts /\ active \subseteq Interrupts
  /\ tries \in [AllPlaces -> 0 .. 4] /\ fresh \in [AllPlaces -> BOOLEAN]
  /\ nothing \in BOOLEAN

Acknowledged == {i \in DOMAIN stack : stack[i].at \in {"run", "access", "end", "stuck"}}

\* What the GIC holds active is what the handlers on the stack are going to end,
\* each once, though interrupts may come to nothing in between.
ActiveOnStack ==
  /\ active = {stack[i].id : i \in Acknowledged}
  /\ \A i, j \in Acknowledged : stack[i].id = stack[j].id => i = j

\* An IRQ that has raised its flag is below place i of the stack.
Within(i) == \E j \in DOMAIN stack : j > i /\ stack[j].kind = "irq" /\ stack[j].at # "flag"

\* An FIQ reports that it came in an IRQ whenever it did, from the time the IRQ
\* has raised its flag on, and at no other time unless the last IRQ came to
\* nothing and has left the flag up.
Preempted ==
  \A i \in DOMAIN stack : stack[i].kind = "fiq" /\ stack[i].at # "test" =>
    /\ Within(i) => stack[i].said = 1
    /\ stack[i].said = 1 => Within(i) \/ nothing

GivesUp == In("abort", "again") /\ ~(Lowered(sRtyCnt) > 0)

\* An access that aborts is tried three times, neither more nor less, before it is
\* given up, if the last abort was at another place and none comes in between.
ThreeTries ==
  /\ \A p \in AllPlaces : fresh[p] => tries[p] <= 3
  /\ GivesUp /\ fresh[Head(stack).place] => tries[Head(stack).place] = 3

\* An access of the main thread whose lr is found comes to an end, also one whose
\* fault stays and one that had been given up before, unless the accesses of
\* handlers abort again and again or an interrupt has no handler.
AccessEnds ==
  \/ []<>(\E i \in DOMAIN stack : stack[i].place \in {IrqPlace, FiqPlace})
  \/ main \in Found ~> (main = None \/ \E i \in DOMAIN stack : stack[i].at = "stuck")
=============================================================================
