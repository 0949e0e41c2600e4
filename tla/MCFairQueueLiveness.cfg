SPECIFICATION FairSpec
CONSTANTS
  r1 = r1
  r2 = r2
  r3 = r3
  Requesters = {r1, r2, r3}
  Wants <- One
  MaxQueued = 3
  MaxJobs = 2
  MaxPerRequester = 0
  WorkerSlots = 0
  None = None
PROPERTY NobodyStarves
