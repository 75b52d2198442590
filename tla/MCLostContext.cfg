\* A session that is replaced while it compacts.
CONSTANTS
  None = None
  AgentFile = {a1, a2}
  MaxVersion = 3
  Faults = {"crash", "write", "corrupt"}
  MaxFaults = 1
  MaxTasks = 3
  MaxCalls = 4
  Guide = {g1}
  RootGuide = root
  MaxHead = 2
  MaxSession = 2
  MaxFailures = 1
  Name = {a, b, c}
  First = a
  Final = c
  Stop = Stop
  Missing = Missing
  u = u
  p = p
  Overlay = {u, p}
  LoadOrder <- MCOrder
  Load = {l1, l2}
  MaxEdits = 2
  Questionnaires <- MCQuestionnaires
  Text = {x, y}
  Process = {p1}
  Needed = {encoder, decoder}
  Spare = {fp32}
  Archive = archive
  MaxMishaps = 3
  BlockingCall = {c1, c2}
  SessionFile = {s1, s2}
  Question = {q1, q2}
  MaxMessage = 3
  Entry = {e1, e2}
  AgentName = {n1, n2}
  MaxWrites = 3
  m1 = m1
  m2 = m2
  Model = {m1, m2}
  Reasoning = {m1}
  Gone = Gone
  Blocklists <- MCBlocklists
  MaxChanges = 3
SPECIFICATION MCSpec
INVARIANT ReplacementHasContext

CHECK_DEADLOCK FALSE
