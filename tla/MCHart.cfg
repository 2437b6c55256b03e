CONSTANT ShortIntervals = {TRUE, FALSE}
SPECIFICATION FairSpec
INVARIANTS
  StacksApart
  MretTargetsMain
PROPERTIES
  TrapTransparent
  TimerServiced
  KernelProgresses
