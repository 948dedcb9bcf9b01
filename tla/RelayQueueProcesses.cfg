\* Two processes with one pipeline each and one VAA that a user forces through
\* processVaa; two failures.
CONSTANTS
  p1 = p1  p2 = p2  v1 = v1  v2 = v2  spy = spy  user = user
  Proc <- Procs
  Vaa <- OneVaa
  Caller <- User
  Forced <- User
  CacheSize = 1
  Concurrency = 1
  Attempts = 2
  MaxStalls = 1
  KeepCompleted = 1
  KeepFailed = 1
  MaxFaults = 2
  MaxStarts = 4
  None = None
SPECIFICATION FairSpec
INVARIANTS NoOverlapWithoutLostLock
PROPERTIES QueuedIsFinished
