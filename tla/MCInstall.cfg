SPECIFICATION MCSpec
CONSTANTS
  Requests = {r1, r2}
  OldRequest = r0
  NoReq = NoReq
  HalfWritten = torn
  LostWrite = lost
  MaxLost = 1
  MaxStarts = 2
  MaxSubmits = 1
  d1 = d1
  d2 = d2
  a1 = a1
  oldBytes = oldBytes
  foreign = foreign
  blank = blank
INVARIANTS InstallHonest ImagesAndDisksSound UpgradeHonest
PROPERTIES InstallStepsSafe
CHECK_DEADLOCK FALSE
