SPECIFICATION LiveSpec
CONSTANTS
  j1 = j1
  j2 = j2
  j3 = j3
  j4 = j4
  j5 = j5
  l1 = l1
  l2 = l2
  l3 = l3
  l4 = l4
  l5 = l5
  c1 = c1
  c2 = c2
  NoJob = NoJob
  Jobs = {j1}
  Launchers = {l1}
  Request <- OneLuna
  Cancellers = {c1}
  Kinds = {"luna"}
  Capacity <- OneEach
  QuotaKinds = {"luna"}
  PsFlaky = FALSE
  Crashes = FALSE
INVARIANTS StopOwnsDisposition TerminalIsProven
PROPERTIES VerdictIsFinal NoSpawnAfterClose StopSettles LaunchResolves DrainCloses
