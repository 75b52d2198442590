\* Two loops through one decision, one resume, one append that fails and leaves
\* nothing.
CONSTANTS
  Stage <- MCStage
  Start = "plan"
  Stop = "stop"
  NoStage = "no stage"
  Slot <- MCSlot
  Tag = {"u1"}
  NoUnit = "no unit"
  Epoch = {1}
  Def <- MCDef
  Edge <- MCDetourEdge
  FanoutFn <- MCFanoutFn
  IterateFn <- MCIterateFn
  MaxBackwardJumps = 1
  MaxIterations = 2
  MayTear = FALSE
  MaxFaults = 1
  MaxResumes = 1
  MaxDrifts = 0

SPECIFICATION FairSpec
INVARIANTS
  StateParity
  VisitedParity
  EnvelopeMatchesTrail
  RetriesBounded
PROPERTIES
  CallSettles

\* A settled run waits for a resume that need not come.
CHECK_DEADLOCK FALSE
