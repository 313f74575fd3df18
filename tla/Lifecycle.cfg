SPECIFICATION FairSpec
CONSTANTS
  p1 = p1
  p2 = p2
  b1 = b1
  b2 = b2
  b3 = b3
  d1 = d1
  d2 = d2
  None = None
  Damaged = Damaged
  Proc = {p1, p2}
  Promoted = {p1, p2}
  Digest <- MCDigest
  digest <- MCdigest
  release <- MCrelease
  Bundle = {b1, b2}
  MaxFaults = 1
INVARIANTS ActiveIsComplete StatusIsCurrent
PROPERTIES NeverDowngraded RefinesExtension OperationsEnd
