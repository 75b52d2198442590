\* Unit loops under one failed append, one drift of the generators, two resumes.
CONSTANTS
  Stage <- MCStage
  Start = "slice"
  Stop = "stop"
  NoStage = "no stage"
  Slot <- MCSlot
  Tag = {"a", "b", "c"}
  NoUnit = "no unit"
  Epoch = {1, 2}
  Def <- MCDef
  Edge <- MCEdge
  FanoutFn <- MCFanoutFn
  IterateFn <- MCIterateFn
  MaxBackwardJumps = 1
  MaxIterations = 2
  MayTear = FALSE
  MaxFaults = 1
  MaxResumes = 2
  MaxDrifts = 1

SPECIFICATION FairSpec
INVARIANTS
  UnitParity
  UnitsExactlyOnce
PROPERTIES
  OneStory
  NearerTheEnd

\* A settled run waits for a resume that need not come.
CHECK_DEADLOCK FALSE
