\* Both scopes, overlapping too, with every answer Pi may give.
CONSTANTS
  Model = {"u1", "u2", "o1", "o2"}
  ModelName = {"u1", "u2", "o1", "o2", "gone"}
  Level = {"low", "high"}
  None = None
  File <- MCFile
  Workflow = "ship"
  StageRef <- MCStageRef
  Skill = {"blueprint", "commit"}
  UserModel = {"u1", "u2"}
  UserLevel = {"low"}

SPECIFICATION Spec
INVARIANTS
  NoOverrideSurvives
  LevelRestored
  StageRunsOnItsModel
  SnapshotsAreTheUsers
