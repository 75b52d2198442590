\* A dictation, three fetches of two repositories, a stage's session.
CONSTANTS
  None = None
  Attempts = 2
  CapChunks = 3
  ScanChunks = 2
  MaxChunks = 3
  Fetch = {f1, f2, f3}
  Repo = {r1, sha}
  ShaRepo = {sha}
  MaxTurns = 6
SPECIFICATION MCSpec
INVARIANTS
  NothingLost
  OverlayAgrees
  ReportsWholeClone
  CommitsLatestValid
PROPERTIES
  WindsDown
  FetchesAreAnswered
  SessionSettles

\* Every component comes to an end.
CHECK_DEADLOCK FALSE
