--------------------------- MODULE StandardRelayer ---------------------------
(***************************************************************************)
(* StandardRelayerApp (src/relayer/application-standard.ts) and what its   *)
(* middleware puts into the contexts of the jobs: providers() and          *)
(* tokenBridgeContracts(), which build what they hand out when the first   *)
(* jobs come through.  Jobs run concurrently; one that throws is tried     *)
(* again.  Storage, wallets and staging area are modules of their own.     *)
(***************************************************************************)
EXTENDS Integers, Sequences, FiniteSets, TLC

CONSTANTS
  Chain, EVMChain, Sui, Sei,  \* chain ids
  DefaultChains,   \* defaultSupportedChains of the environment: per chain its
                   \* endpoints
  DefaultRetries,  \* defaultStdOpts.workflows.retries
  Job,             \* VAAs of the queue
  Undefined        \* JavaScript's

ASSUME ChainsAssumption ==
  /\ EVMChain \subseteq Chain /\ {Sui, Sei} \subseteq Chain
  /\ DOMAIN DefaultChains \subseteq Chain
  /\ \A c \in DOMAIN DefaultChains : DefaultChains[c] # <<>>
  /\ DefaultRetries \in Nat \ {0}

VARIABLES
  app,           \* the application: spy, keys, providers it was given, wallets
                 \* or not, attempts per job; Undefined before
  providers,     \* closure of providers(): per chain a provider per endpoint
  suiState,      \* closure of tokenBridgeContracts(), with the module's
                 \* tokenBridgeEmitterCapSui: known or not
  evmContracts,  \* closure of tokenBridgeContracts(): per chain its contracts
  job            \* per VAA: where it is, what it is, its context

shared == <<providers, suiState, evmContracts>>
stdVars == <<app, shared, job>>

NoContext == [providers |-> Undefined, contracts |-> Undefined, transfer |-> FALSE]
NoJob == [at |-> "none", attempts |-> 0, from |-> Undefined, transfer |-> FALSE,
          ctx |-> NoContext]

StdInit ==
  /\ app = Undefined
  /\ providers = Undefined /\ suiState = FALSE /\ evmContracts = Undefined
  /\ job = [j \in Job |-> NoJob]

-----------------------------------------------------------------------------
\* What a source names replaces what the target has, undefined included.
mergeDeep(target, source) ==
  [k \in DOMAIN target \cup DOMAIN source |->
     IF k \in DOMAIN source THEN source[k] ELSE target[k]]

defaultStdOpts ==
  [spyEndpoint |-> "localhost:7073", retries |-> DefaultRetries,
   privateKeys |-> Undefined, providers |-> <<>>]

Constructed(opts) ==
  LET o == mergeDeep(defaultStdOpts, opts)
      keys == IF o.privateKeys = Undefined THEN <<>> ELSE o.privateKeys
  IN  [spy |-> o.spyEndpoint, attempts |-> o.retries, keys |-> keys,
       wallets |-> DOMAIN keys # {}, providers |-> o.providers]

\* The default endpoints of the chains that have keys, then those given.
ProviderChains ==
  app.providers @@ [c \in DOMAIN DefaultChains \cap DOMAIN app.keys |-> DefaultChains[c]]

-----------------------------------------------------------------------------
(* Jobs.                                                                   *)

Arrives(j, from, transfer) ==
  /\ job[j].at = "none"
  /\ job' = [job EXCEPT ![j].at = "waiting", ![j].from = from, ![j].transfer = transfer]
  /\ UNCHANGED <<app, shared>>

Now(j, at) == [job EXCEPT ![j].at = at]

\* Mutant: the attempts are not counted.
ThrownUncounted(j) == job' = [job EXCEPT ![j].at = "waiting", ![j].ctx = NoContext]

\* Thrown out of the pipeline: tried again until the attempts are used up.
Thrown(j) ==
  LET again == job[j].attempts + 1 < app.attempts
  IN  job' = [job EXCEPT ![j].at = IF again THEN "waiting" ELSE "givenUp",
                         ![j].attempts = @ + 1, ![j].ctx = NoContext]

\* UnrecoverableError: not tried again.
ThrownForGood(j) ==
  job' = [job EXCEPT ![j].at = "givenUp", ![j].attempts = @ + 1, ![j].ctx = NoContext]

\* isTokenBridgeVaa: Sui's emitter is known once its state was read.
isTokenBridgeVaa(j) == job[j].transfer /\ (job[j].from = Sui => suiState')

instantiateReadEvmContracts(p) == [c \in DOMAIN p \cap EVMChain |-> p[c]]

\* tokenBridgeContracts() once Sui's state is settled, and the way down to the
\* handler of the route.
AttachContracts(j, p) ==
  /\ evmContracts' = IF evmContracts # Undefined THEN evmContracts
                     ELSE instantiateReadEvmContracts(p)
  /\ job' = [job EXCEPT ![j].at = "routed",
                        ![j].ctx = [providers |-> p, contracts |-> evmContracts',
                                    transfer |-> isTokenBridgeVaa(j)]]

\* ctx.providers is set: down to tokenBridgeContracts(), which reads the state
\* of Sui unless it is known.
AttachProviders(j, p) ==
  IF ~suiState /\ Sui \in DOMAIN p
  THEN /\ job' = [job EXCEPT ![j].at = "readingSui", ![j].ctx.providers = p]
       /\ UNCHANGED <<suiState, evmContracts>>
  ELSE suiState' = suiState /\ AttachContracts(j, p)

\* The job begins.  Without providers they are built, by every job that comes
\* before the first of them is done.
Enter(j) ==
  /\ job[j].at = "waiting"
  /\ IF providers = Undefined
     THEN job' = Now(j, "building") /\ UNCHANGED <<suiState, evmContracts>>
     ELSE AttachProviders(j, providers)
  /\ UNCHANGED <<app, providers>>

BuildProviders(j) ==
  /\ job[j].at = "building"
  /\ providers' = ProviderChains
  /\ AttachProviders(j, ProviderChains)
  /\ UNCHANGED app

\* Mutant: the error is logged and not thrown.
BuildFailsPartly(j) ==
  /\ job[j].at = "building" /\ Sei \in DOMAIN ProviderChains
  /\ providers' = [c \in DOMAIN ProviderChains \ {Sei} |-> ProviderChains[c]]
  /\ AttachProviders(j, providers')
  /\ UNCHANGED app

\* Mutant: what an earlier build assigned is dropped.
BuildFailsDropping(j) ==
  /\ job[j].at = "building" /\ Sei \in DOMAIN ProviderChains
  /\ providers' = Undefined
  /\ Thrown(j)
  /\ UNCHANGED <<app, suiState, evmContracts>>

\* Only Sei's client connects while it is built.
BuildFails(j) ==
  /\ job[j].at = "building" /\ Sei \in DOMAIN ProviderChains
  /\ Thrown(j)
  /\ UNCHANGED <<app, shared>>

ReadSuiState(j) ==
  /\ job[j].at = "readingSui"
  /\ suiState' = TRUE
  /\ AttachContracts(j, job[j].ctx.providers)
  /\ UNCHANGED <<app, providers>>

\* getObjectFields throws, or returns null.
ReadSuiStateFails(j) ==
  /\ job[j].at = "readingSui"
  /\ Thrown(j) \/ ThrownForGood(j)
  /\ UNCHANGED <<app, shared>>

StdStep(j) ==
  Enter(j) \/ BuildProviders(j) \/ BuildFails(j) \/ ReadSuiState(j) \/ ReadSuiStateFails(j)

-----------------------------------------------------------------------------
Ended(j) == job[j].at \in {"done", "givenUp"}

\* Whoever built it and whatever failed meanwhile, the handler of a job gets
\* all providers of the application, the contracts of its EVM chains, and a
\* transfer of the token bridge as such if its chain has a provider.
ContextsComplete ==
  \A j \in Job : job[j].at \in {"routed", "handling", "calling"} =>
    LET ctx == job[j].ctx
    IN  /\ ctx.providers = ProviderChains
        /\ ctx.contracts = [c \in DOMAIN ProviderChains \cap EVMChain |-> ProviderChains[c]]
        /\ ctx.transfer = (job[j].transfer /\ (job[j].from = Sui => suiState))
        /\ Sui \in DOMAIN ProviderChains => suiState

\* What was built for one job is there for all later ones: late builds and
\* reads of others, and their failures, do not take it back or change what it
\* is for (a late build replaces the clients by others of the same endpoints).
BuiltIsKept ==
  [][/\ providers # Undefined => providers' = providers
     /\ suiState => suiState'
     /\ evmContracts # Undefined => evmContracts' = evmContracts]_shared
=============================================================================
