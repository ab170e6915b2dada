SPECIFICATION EndingAlone
CONSTANTS
  MaxRuns = 0
  MaxStages = 1
  WorkerStages = {}
  r1 = r1
  r2 = r2
  r3 = r3
  Runs = {r1, r2, r3}
  First = r1
  NoRun = NoRun
  Paths = {"p", "o"}
  PhasePaths = {"p"}
  Edits = {"edit"}
  Branches = {"main", "side"}
  Upstream = "main"
  MaxWork = 1
  MaxAdvance = 1
  Chained = TRUE
  codex = codex
  claude = claude
  antigravity = antigravity
  Endpoints = {codex, claude, antigravity}
  Providers = {codex, claude, antigravity}
  ProviderOf <- OwnProvider
  Capable <- Fit
  Bannered = {codex}
  MaxMade = 0
SYMMETRY Resuming
CONSTRAINT Bounded
INVARIANT EmptyMeansClean
CHECK_DEADLOCK FALSE
