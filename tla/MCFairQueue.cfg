SPECIFICATION Spec
CONSTANTS
  r1 = r1
  r2 = r2
  r3 = r3
  Requesters = {r1, r2, r3}
  Wants <- OneTwo
  MaxQueued = 4
  MaxJobs = 3
  MaxPerRequester = 2
  WorkerSlots = 4
  None = None
SYMMETRY Sym
INVARIANTS
  TypeOK
  PlanFits
  WakeupAdmits
  SaturationIsFinal
  LeastServedFirst
  RingIsFair
  NoRecapture
PROPERTY OvertakenIsStillAdmitted
