----------------------------- MODULE MCSourceTx ------------------------------
(* Constant values for model checking SourceTx.                            *)
EXTENDS SourceTx, TLC
CONSTANTS j1, j2, j3, first, second, f1, f2, safe
Jobs == {j1, j2, j3}
Bodies == 0..2
Headers == {NaN, 2}
Middlewares == {first, second}
Options == (first :> [retries |-> None, initialDelay |-> None, maxDelay |-> 1500])
             @@ (second :> [retries |-> 1, initialDelay |-> 500, maxDelay |-> None])
Chains == (f1 :> "bsc") @@ (f2 :> "bsc") @@ (safe :> "ethereum")
Levels == (f1 :> 16) @@ (f2 :> 16) @@ (safe :> 201)
Vaas == {f1, f2, safe}
NotFinal == {safe}
Symmetric == Permutations(Jobs) \cup Permutations({f1, f2})
=============================================================================
