SPECIFICATION MCSpec
CONSTANTS
  t1 = t1
  t2 = t2
  self = self
  other = other
  Profile = {self, other}
  Self = self
  EnvProfiles <- MCNone
  Toggle = {t1, t2}
  MaxToggles = 1
  MaxBreaks = 1
  Engine <- MCOpenVAS
  Items <- MCItems
  MaxInstalls = 1
ACTION_CONSTRAINT
  DiskMovesBeforeStart
CHECK_DEADLOCK FALSE
INVARIANT
  RefusalAborts
