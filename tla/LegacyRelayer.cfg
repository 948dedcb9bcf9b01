\* Two jobs with two attempts each and two calls in each attempt.
CONSTANTS
  j1 = j1  j2 = j2
  Job <- Jobs
  Chain <- Chains
  EVMChain <- EVMChains
  Solana = 1
  Sui = 21
  Sei = 32
  DefaultChains <- Endpoints
  DefaultRetries = 2
  Undefined = Undefined
  Directories <- Dirs
  Objects <- ConfigObjects
  OwnOptions <- Options
  FilterLists <- Lists
  MaxCalls = 2
SPECIFICATION Spec
INVARIANTS ContextsComplete
PROPERTIES BuiltIsKept KeysAsConfigured JobsEnd
\* A relayer that has refused to start or has ended, or whose jobs are done,
\* takes no further step.
CHECK_DEADLOCK FALSE
