CONSTANTS
  Steppers <- MCSteppers
  Scripts <- MCScripts
  VisitsBeforeInterrupt = 4
SPECIFICATION FairSpec
INVARIANTS
  TypeOK
  BoundariesAgree
  PollsAgree
  OddStopsAgree
  RefusalNeedsBoth
PROPERTY CallsReturn
CHECK_DEADLOCK FALSE
