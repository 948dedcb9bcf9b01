\* Three jobs through two middlewares with different options, over two final VAAs
\* and one that a reorganisation may move; caches of one hash.
CONSTANTS
  f1 = f1  f2 = f2  safe = safe
  j1 = j1  j2 = j2  j3 = j3  first = first  second = second  None = None  NaN = NaN
  Request <- Jobs
  Body <- Bodies
  RetryAfter <- Headers
  Middleware <- Middlewares
  OptsOf <- Options
  Vaa <- Vaas
  emitterChain <- Chains
  consistencyLevel <- Levels
  Reorgable <- NotFinal
  CacheSize = 1
  MaxReorgs = 1
SPECIFICATION Spec
INVARIANTS HashIsOfThisJob RetriesBounded
SYMMETRY Symmetric
