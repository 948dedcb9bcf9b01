\* Recovery under fairness, with one failure or crash.
CONSTANTS
  MaxSeq = 3
  Filtered <- NoneFiltered
  PageSize = 2
  StartSeqs <- NoStart
  HasPrefix = TRUE
  ForceReindex <- Never
  MaxFaults = 1
  None = None
SPECIFICATION FairSpec
PROPERTIES MissedRecovered
