\* The user picks a model after session_start and before a run; no skill is typed.
CONSTANTS
  Model = {"u1", "u2", "o1", "o2"}
  ModelName = {"u1", "u2", "o1", "o2", "gone"}
  Level = {"low", "high"}
  None = None
  File <- MCFile
  Workflow = "ship"
  StageRef <- MCStageRef
  Skill = {}
  UserModel = {"u1", "u2"}
  UserLevel = {"low"}

SPECIFICATION Spec
INVARIANT
  UserModelKept
