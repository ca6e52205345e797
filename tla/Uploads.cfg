SPECIFICATION Spec
CONSTANTS
  upload = upload
  r1 = r1
  r2 = r2
  r3 = r3
  other = other
  here = here
  there = there
  Source = {here, there}
  Request = {upload, r1, r2, r3, other}
  SourceOf <- MCSourceOf
  Authorized = {upload, r1, r2, other}
  Uploading = {upload}
  Archive <- MCArchive
  Token = 2
  Burst = 4
  MaxBuckets = 1
  Limit = 3
  MaxClock = 2
  MaxFaults = 1
  MaxKills = 1
SYMMETRY Alike
INVARIANTS
  RateHolds
  ScannedWhole
  DiskBounded
  NothingLeftBehind
CHECK_DEADLOCK FALSE
