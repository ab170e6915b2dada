SPECIFICATION BothSpec
CONSTANTS
  x1 = x1
  x2 = x2
  t1 = t1
  Txns = {x1, x2}
  Names <- Two
  Targets = {t1, t2}
  Requests <- AnyRequest
  NoTarget = NoTarget
  NoTxn = NoTxn
  NoState = NoState
  User = User
  Initial = Initial
  NoEntry = NoEntry
  MaxFaults = 2
  MaxCrashes = 1
  MaxUser = 1
  Installers = {g1, g2}
  Managers = {u1, u2}
  NoRun = NoRun
CONSTRAINT Bounded
INVARIANTS SkillsTypeOK Recoverable LinksRestored StateMatchesLinks OldLinksKept OneOwner ActAlone
 
CHECK_DEADLOCK FALSE
