SPECIFICATION DevSpec
CONSTANTS
  w1 = w1
  w2 = w2
  r1 = r1
  r2 = r2
  DevNone = DevNone
  DevWorker = {w1, w2}
  DevBuild = {r1, r2}
  DevMaxFaults = 0
INVARIANTS PublicationIsAtomic
