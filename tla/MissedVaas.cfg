\* Four sequences, two failures or crashes; with and without a starting sequence
\* and forced reindexing, which worker.ts recommends together.
CONSTANTS
  MaxSeq = 3
  Filtered <- FilterTwo
  PageSize = 2
  StartSeqs <- NoStartOrTwo
  HasPrefix = TRUE
  ForceReindex <- EitherWay
  MaxFaults = 2
  None = None
SPECIFICATION Spec
INVARIANTS TypeOK SeenIsHandled SafeCovers
PROPERTIES FailedUntilHandled
