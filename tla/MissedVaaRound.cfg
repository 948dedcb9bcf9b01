\* Three filters on two lanes, three leaps on two lanes; one response is cut off.
CONSTANTS
  f1 = f1  f2 = f2  f3 = f3
  Filters <- ThreeFilters
  MissingOf <- Leaps
  Concurrency = 2
  FetchConcurrency = 2
  RetryAttempts = 1
  MaxCuts = 1
  Ended = Ended
SPECIFICATION FairRoundSpec
INVARIANTS AllHaveOutcomes
PROPERTIES GivenUpAfterAllTries FetchesEachOnce RoundsEnd
\* A response that is cut off stops everything in the end; that nothing else
\* does is what RoundsEnd says.
CHECK_DEADLOCK FALSE
