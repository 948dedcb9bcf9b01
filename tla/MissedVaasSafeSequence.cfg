\* One failure: does the safe sequence keep its promise?
CONSTANTS
  MaxSeq = 3
  Filtered <- NoneFiltered
  PageSize = 2
  StartSeqs <- NoStart
  HasPrefix = TRUE
  ForceReindex <- Never
  MaxFaults = 1
  None = None
SPECIFICATION Spec
INVARIANTS AllBelowSafeProcessed
