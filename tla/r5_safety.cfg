SPECIFICATION LiveSpec
CONSTANTS
  irq1 = irq1
  fiq1 = fiq1
  fiq2 = fiq2
  here = here
  there = there
  inIrq = inIrq
  inFiq = inFiq
  None = None
  Irqs <- MCIrqs
  Fiqs <- MCFiqs
  Registered <- MCRegistered
  Places <- MCPlaces
  Found <- MCFound
  IrqPlace = inIrq
  FiqPlace = inFiq
  Wrap = 4
INVARIANTS
  TypeOK
  ActiveOnStack
  Preempted
  ThreeTries
PROPERTIES
  AccessEnds
