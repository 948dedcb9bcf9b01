--------------------------- MODULE MCBundleFetcher ---------------------------
(* Constant values for model checking BundleFetcher.                       *)
EXTENDS BundleFetcher
CONSTANTS u, v, w, first, second
Vaas == {u, v, w}
Bundle == {u, v}
Builds == {first, second}
=============================================================================
