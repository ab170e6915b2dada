SPECIFICATION AnySpec
CONSTANTS
  MaxRuns = 3
  MaxStages = 2
  WorkerStages = {1}
  r1 = r1
  r2 = r2
  r3 = r3
  Runs = {r1, r2, r3}
  First = r1
  NoRun = NoRun
  Paths = {"p", "o"}
  PhasePaths = {"p"}
  Edits = {"edit"}
  Branches = {"main", "side"}
  Upstream = "main"
  MaxWork = 1
  MaxAdvance = 1
  Chained = TRUE
  codex = codex
  claude = claude
  antigravity = antigravity
  Endpoints = {codex, claude, antigravity}
  Providers = {codex, claude, antigravity}
  ProviderOf <- OwnProvider
  Capable <- Fit
  Bannered = {codex}
  MaxMade = 2
SYMMETRY Resuming
CONSTRAINT Bounded
INVARIANTS TypesOK SourceQuiet StoppedRunRecovers ReportedIsCandidate PublishedIsThere BlockedPushResumes IndependentReview RetryIsClean  ReviewedIsFinal
CHECK_DEADLOCK FALSE
