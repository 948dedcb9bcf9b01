---------------------------- MODULE LegacyConfig -----------------------------
(***************************************************************************)
(* The configuration of a legacy relayer, of                               *)
(* src/relayer/middleware/legacy-plugin/config.ts, as operators on a       *)
(* directory of files and the environment variables:                       *)
(*                                                                         *)
(*   valid    common.json can be read and passes validateCommonEnv         *)
(*   chains   its supported chains                                         *)
(*   isArray  whether privateKeys of executor.json is an array             *)
(*   keys     privateKeys: from index (an array's, or the chain) to an     *)
(*            entry [chainId, privateKeys] or a list of keys               *)
(*   spy      spyServiceHost of listener.json, or Undefined                *)
(*   environ  PRIVATE_KEYS_CHAIN_<chain>: from chain to a list of keys     *)
(*                                                                         *)
(* A list of keys is told by where it was written and by what it holds.    *)
(***************************************************************************)
EXTENDS Integers, FiniteSets

CONSTANTS
  Chain,     \* chain ids
  Undefined  \* JavaScript's

Mode == {"LISTENER", "EXECUTOR", "BOTH"}

KeyList == [from : {"file", "env"}, holds : {"strings", "numbers", "nothing"}]
Entry == [chainId : Chain, privateKeys : KeyList]
IsEntry(v) == "chainId" \in DOMAIN v

IsDirectory(dir) ==
  /\ dir.isArray \in BOOLEAN /\ IsFiniteSet(DOMAIN dir.keys)
  /\ IF dir.isArray THEN DOMAIN dir.keys \subseteq Nat /\ \A i \in DOMAIN dir.keys : dir.keys[i] \in Entry
     ELSE \A c \in DOMAIN dir.keys : dir.keys[c] \in KeyList
  /\ \A c \in DOMAIN dir.environ : dir.environ[c] \in KeyList

\* A variable that is not set falls back to the file.
privateKeyEnvVarLoader(chains, environ) ==
  [c \in chains \cap DOMAIN environ |-> environ[c]]

\* Object.assign
assign(target, source) ==
  [k \in DOMAIN target \cup DOMAIN source |->
     IF k \in DOMAIN source THEN source[k] ELSE target[k]]

\* Mutant: the file overrides the environment.
loadExecutorFileFirst(dir) ==
  assign(privateKeyEnvVarLoader(dir.chains, dir.environ), dir.keys)

\* privateKeys of the raw configuration: assigned onto what the file has, be it
\* an object or an array.
loadExecutor(dir) == assign(dir.keys, privateKeyEnvVarLoader(dir.chains, dir.environ))

\* transformPrivateKeys goes through an array of entries without holes, and
\* throws for anything else.
Transforms(dir) ==
  LET raw == loadExecutor(dir)
  IN  /\ dir.isArray /\ \A i \in DOMAIN raw : IsEntry(raw[i])
      /\ \A i \in DOMAIN raw : i > 0 => i - 1 \in DOMAIN raw

\* The last entry of a chain counts.
transformPrivateKeys(dir) ==
  LET raw == loadExecutor(dir)
      at(c) == {i \in DOMAIN raw : raw[i].chainId = c}
      last(c) == CHOOSE i \in at(c) : \A k \in at(c) : k <= i
  IN  [c \in {raw[i].chainId : i \in DOMAIN raw} |-> raw[last(c)].privateKeys]

\* validateEnvs goes on with the raw keys when the transformation throws.
EnvKeys(dir) == IF Transforms(dir) THEN transformPrivateKeys(dir) ELSE loadExecutor(dir)

\* Every index is a supported chain with a list of strings, and every
\* supported chain has one.
validatePrivateKeys(keys, chains) ==
  /\ \A c \in DOMAIN keys : c \in chains /\ ~IsEntry(keys[c]) /\ keys[c].holds # "numbers"
  /\ chains \subseteq DOMAIN keys

\* The types and the enumerations of common.json.
validateCommonEnv(dir) == dir.valid

Loads(dir, mode) ==
  /\ validateCommonEnv(dir)
  /\ mode # "LISTENER" => validatePrivateKeys(EnvKeys(dir), dir.chains)
=============================================================================
