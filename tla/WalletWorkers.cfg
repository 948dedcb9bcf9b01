\* Two wallets of one chain, one of another, a chain without wallets; two
\* pipelines make three calls, nested ones included.
CONSTANTS
  evm = evm  solana = solana  sui = sui  e1 = e1  e2 = e2  s1 = s1  a = a  b = b
  Chain <- Chains
  Supported <- WithKeys
  Wallet <- Wallets
  ChainOf <- WalletChain
  Pipeline <- Pipelines
  MaxCalls = 3
SPECIFICATION FairSpec
INVARIANTS CalledOnce StartedInOrder
PROPERTIES WorkersArePool CallIsSettled
\* The system may stop: the process ended, or the bound on calls is reached.
CHECK_DEADLOCK FALSE
