SPECIFICATION BothSpec
CONSTANTS
  Pids = {p1, p2}
  Commits = {c1, c2}
  NoCommit = NoCommit
  NoLease = NoLease
  NoPid = NoPid
  Admin = Admin
  Keep = 1
  MaxLives = 2
  MaxCrashes = 1
  MaxFaults = 2
  a1 = a1
  a2 = a2
  a3 = a3
  w1 = w1
  Agents = {a1, a2, a3}
  Workers = {w1}
  Paths = {"p", "q"}
  Scope <- Writes
  Cap = 2
  WorkerCap = 1
SYMMETRY Sym
CONSTRAINT Bounded
INVARIANTS GenerationsTypeOK CodeStays LeaseIsOwn RecordNamesCopy CleanCloseIsTrue
PROPERTY NativeKeepsSlots
CHECK_DEADLOCK FALSE
