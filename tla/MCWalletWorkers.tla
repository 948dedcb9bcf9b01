--------------------------- MODULE MCWalletWorkers ---------------------------
(* Constant values for model checking WalletWorkers.                       *)
EXTENDS WalletWorkers, TLC
CONSTANTS evm, solana, sui, e1, e2, s1, a, b
Chains == {evm, solana, sui}
WithKeys == {evm, solana}
Wallets == {e1, e2, s1}
WalletChain == (e1 :> evm) @@ (e2 :> evm) @@ (s1 :> solana)
Pipelines == {a, b}
=============================================================================
