SPECIFICATION Spec
CONSTANTS
  j1 = j1
  j2 = j2
  j3 = j3
  j4 = j4
  j5 = j5
  l1 = l1
  l2 = l2
  l3 = l3
  l4 = l4
  l5 = l5
  c1 = c1
  c2 = c2
  NoJob = NoJob
  Jobs = {j1, j2, j3, j4, j5}
  Launchers = {l1, l2, l3, l4, l5}
  Request <- Tasks
  Cancellers = {}
  Kinds = {"luna", "sonnet"}
  Capacity <- TwoEach
  QuotaKinds = {}
  PsFlaky = TRUE
  Crashes = TRUE
CONSTRAINT OneGroup
INVARIANTS LiveWritersDisjoint SuccessorAfterSettled
