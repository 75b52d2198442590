\* One decision loop, two resumes, appends that may be cut short.
CONSTANTS
  Stage <- MCStage
  Start = "plan"
  Stop = "stop"
  NoStage = "no stage"
  Slot <- MCSlot
  Tag = {"u1"}
  NoUnit = "no unit"
  Epoch = {1}
  Def <- MCDef
  Edge <- MCEdge
  FanoutFn <- MCFanoutFn
  IterateFn <- MCIterateFn
  MaxBackwardJumps = 1
  MaxIterations = 2
  MayTear = TRUE
  MaxFaults = 1
  MaxResumes = 2
  MaxDrifts = 0

SPECIFICATION Spec
INVARIANTS
  NumbersIncrease
  NeverAhead

\* A settled run waits for a resume that need not come.
CHECK_DEADLOCK FALSE
