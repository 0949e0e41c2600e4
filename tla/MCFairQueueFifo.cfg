SPECIFICATION FairSpec
CONSTANTS
  r1 = r1
  r2 = r2
  r3 = r3
  Requesters = {r1, r2}
  Wants <- OneTwo
  MaxQueued = 2
  MaxJobs = 2
  MaxPerRequester = 2
  WorkerSlots = 4
  None = None
PROPERTY FifoWithinRequester
