CONSTANTS
  profile = profile
  schemaSync = schemaSync
  r1 = r1
  r2 = r2
  none = none
  Workers <- MCWorkers
  Requests <- MCRequests
  WorkerOf <- MCWorkerOf
  QueueSize = 1
  NoJob = none
SPECIFICATION FairSpec
INVARIANTS
  TypeOK
  NoSendOnClosedChannel
  WaitIsFinal
  CleanShutdownCutsNothing
  AcceptedJobIsHeld
PROPERTIES
  ShutdownTerminates
  AcceptedJobSettles
  KeepsContract
