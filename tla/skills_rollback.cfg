SPECIFICATION BothSpec
CONSTANTS
  x1 = x1
  x2 = x2
  t1 = t1
  Txns = {x1, x2}
  Names <- Two
  Targets = {t1, t2}
  Requests <- AnyRequest
  NoTarget = NoTarget
  NoTxn = NoTxn
  NoState = NoState
  User = User
  Initial = Initial
  NoEntry = NoEntry
  MaxFaults = 0
  MaxCrashes = 0
  MaxUser = 0
  Installers = {}
  Managers = {}
  NoRun = NoRun
CONSTRAINT Bounded
INVARIANT RunsAgree
CHECK_DEADLOCK FALSE
