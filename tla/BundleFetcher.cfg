\* Two VAAs in the bundle and one outside it, two builds at once, without a number
\* of attempts at first and with the default once restored.
CONSTANTS
  u = u  v = v  w = w  first = first  second = second
  Vaa <- Vaas
  vaaIds <- Bundle
  Build <- Builds
  givenAttempts = Undefined
  Undefined = Undefined
  MaxFailures = 1
  MaxRestores = 1
SPECIFICATION FairSpec
INVARIANTS TypeOK ResolvedHasAll NothingLost
PROPERTIES RejectedTellsWhy BuildResolves
\* The system may stop: every build settled and nothing is left to sign.
CHECK_DEADLOCK FALSE
