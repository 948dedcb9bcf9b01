--------------------------- MODULE MCLegacyRelayer ---------------------------
(* Constant values for model checking LegacyRelayer.  Chain ids are those  *)
(* of Wormhole.                                                            *)
EXTENDS LegacyRelayer, TLC
CONSTANTS j1, j2
Jobs == {j1, j2}
Chains == {1, 2, 21, 32}
EVMChains == {2}
Endpoints == 1 :> <<"s">> @@ 2 :> <<"e", "f">> @@ 21 :> <<"u">> @@ 32 :> <<"i">>

Keys(from, holds) == [from |-> from, holds |-> holds]
FileLists == {Keys("file", h) : h \in {"strings", "numbers"}}
EnvLists == {Keys("env", "strings")}
Subsets(S, V) == UNION {[T -> V] : T \in SUBSET S}

\* Two supported chains and keys of a third: only loaded, for there is no url
\* of a spy.  All chains: with jobs.
ObjectKeys == Subsets({1, 2, 21}, FileLists)
ArrayKeys == UNION {[0..(n - 1) -> [chainId : {1, 2}, privateKeys : FileLists]] : n \in 0..3}
Environs == Subsets({1, 2}, EnvLists)
Dir(chains, isArray, keys, environ, spy, valid) ==
  [valid |-> valid, chains |-> chains, isArray |-> isArray, keys |-> keys,
   spy |-> spy, environ |-> environ]
AllKeys == [c \in Chains |-> Keys("file", IF c = 21 THEN "nothing" ELSE "strings")]
Dirs ==
  {Dir({1, 2}, FALSE, k, e, Undefined, TRUE) : k \in ObjectKeys, e \in Environs}
  \cup {Dir({1, 2}, TRUE, k, e, Undefined, TRUE) : k \in ArrayKeys, e \in Environs}
  \cup {Dir(Chains, FALSE, AllKeys, <<>>, s, v) : s \in {"spy", Undefined}, v \in BOOLEAN}

ConfigObjects == {[spy |-> "spy", keys |-> Undefined]}
\* No keys, but endpoints.
Options == {[providers |-> 2 :> <<"own">> @@ 32 :> <<"own">>]}

Filter(c, e) == [chainId |-> c, emitter |-> e]
Lists == {<<>>, <<Filter(2, "a"), Filter(21, "a"), Filter(2, "b")>>}
=============================================================================
