\* One process, two VAAs, one finished job of each kind kept.
CONSTANTS
  p1 = p1  p2 = p2  v1 = v1  v2 = v2  spy = spy  user = user
  Proc <- OneProc
  Vaa <- Vaas
  Caller <- Spy
  Forced <- Nobody
  CacheSize = 1
  Concurrency = 2
  Attempts = 2
  MaxStalls = 1
  KeepCompleted = 1
  KeepFailed = 1
  MaxFaults = 1
  MaxStarts = 3
  None = None
SPECIFICATION Spec
INVARIANTS TypeOK AddedIsKept TriesBounded RelayedTwiceHasCause MetricsAgree
PROPERTIES KeepsContract
SYMMETRY VaaSymmetry
