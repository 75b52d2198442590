\* A turn the user aborts after the first one.
CONSTANTS
  None = None
  Attempts = 2
  CapChunks = 3
  ScanChunks = 2
  MaxChunks = 3
  Fetch = {f1, f2, f3}
  Repo = {r1, sha}
  ShaRepo = {sha}
  MaxTurns = 6
SPECIFICATION MCSpec
INVARIANT AbortsAreHonoured

CHECK_DEADLOCK FALSE
