\* The second pass of a stage that follows itself.
CONSTANTS
  Stage = {"slice"}
  Start = "slice"
  Stop = "stop"
  NoStage = "no stage"
  Slot = {"slices"}
  Tag = {"a", "b", "c"}
  NoUnit = "no unit"
  Epoch = {1}
  Def <- MCDef
  Edge <- MCEdge
  FanoutFn <- MCFanoutFn
  IterateFn <- MCIterateFn
  MaxBackwardJumps = 1
  MaxIterations = 2
  MayTear = FALSE
  MaxFaults = 1
  MaxResumes = 2
  MaxDrifts = 0

SPECIFICATION Spec
INVARIANTS UnitParity
CHECK_DEADLOCK FALSE
