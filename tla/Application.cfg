\* A delivery of an emitter of Sui, its address written in two ways; one middleware
\* given to use().
CONSTANTS
  d1 = d1
  Delivery <- Deliveries
  Chain <- Chains
  Emitter <- Emitters
  KeepsCase <- Chains
  Written <- Addresses
  chainOf <- ChainOf
  emitterOf <- EmitterOf
  MaxUse = 1
  MaxCalls = 4
  MaxAttempts = 2
SPECIFICATION FairSpec
INVARIANTS SubscribedIsRouted NothingRunsAfterOutcome ErrorsAreToldOrCaught
PROPERTIES Resubscribes
\* The system may stop: the process ended, or spins.
CHECK_DEADLOCK FALSE
