------------------------ MODULE LegacyRelayerProofs -------------------------
(***************************************************************************)
(* Proofs about LegacyRelayer, for any chains, endpoints, configurations,  *)
(* jobs and calls: what the middleware builds for the first jobs stays and *)
(* is the same for all, and the keys are those that were configured.       *)
(*                                                                         *)
(* The invariant: whoever built them, the providers are those of the       *)
(* application's options and the contracts those of its providers; the     *)
(* state of Sui is asked for exactly when there is a provider for it.      *)
(***************************************************************************)
EXTENDS LegacyRelayer, FiniteSetTheorems, WellFoundedInduction, TLAPS

Contracts == [c \in DOMAIN ProviderChains \cap EVMChain |-> ProviderChains[c]]

At == {"none", "waiting", "building", "readingSui", "routed", "handling", "calling", "done",
       "givenUp"}

Context == [providers : {Undefined, ProviderChains}, contracts : {Undefined, Contracts},
            transfer : BOOLEAN]

JobRecord == [at : At, attempts : Nat, from : DOMAIN subscribed \cup {Undefined},
              transfer : BOOLEAN, ctx : Context]

\* A job's context, when it has come that far.
JobInv(j) ==
  /\ job[j] \in JobRecord
  /\ job[j].at = "readingSui" => job[j].ctx.providers = ProviderChains /\ Sui \in DOMAIN ProviderChains
  /\ job[j].at \in {"routed", "handling", "calling"} =>
       /\ job[j].ctx.providers = ProviderChains /\ job[j].ctx.contracts = Contracts
       /\ job[j].ctx.transfer = (job[j].transfer /\ (job[j].from = Sui => suiState))
       /\ Sui \in DOMAIN ProviderChains => suiState

\* The closures of the middleware.
BuiltInv ==
  /\ providers \in {Undefined, ProviderChains} /\ evmContracts \in {Undefined, Contracts}
  /\ suiState \in BOOLEAN /\ (suiState => Sui \in DOMAIN ProviderChains)

\* Before the start there is nothing.
NotBegun ==
  /\ providers = Undefined /\ evmContracts = Undefined /\ suiState = FALSE
  /\ \A j \in Job : job[j] = NoJob

Inv ==
  /\ DOMAIN job = Job
  /\ phase = "starting" => NotBegun
  /\ phase # "starting" => BuiltInv /\ \A j \in Job : JobInv(j)

-----------------------------------------------------------------------------
LEMMA InitInv == Init => Inv
BY DEF Init, StdInit, Inv, NotBegun

\* What was there before the start fits every application.
LEMMA BegunInv ==
  ASSUME NotBegun PROVE BuiltInv /\ \A j \in Job : JobInv(j)
<1>1. BuiltInv
  BY DEF NotBegun, BuiltInv
<1>2. NoContext \in Context
  BY DEF NoContext, Context
<1>3. NoJob \in JobRecord /\ NoJob.at = "none"
  BY <1>2 DEF NoJob, JobRecord, At
<1> QED
  BY <1>1, <1>3 DEF NotBegun, JobInv

LEMMA StartKeepsInv ==
  ASSUME Inv, phase = "starting", UNCHANGED <<shared, job>>
  PROVE  Inv'
<1>1. NotBegun'
  BY DEF Inv, NotBegun, shared
<1>2. BuiltInv' /\ \A j \in Job : JobInv(j)'
  <2>1. NotBegun' => (BuiltInv /\ \A j \in Job : JobInv(j))'
    BY BegunInv, PTL
  <2> QED
    BY <1>1, <2>1
<1> QED
  BY <1>1, <1>2 DEF Inv

-----------------------------------------------------------------------------
(* Steps of one job after the start.                                       *)

LEMMA OneJobInv ==
  ASSUME Inv, phase # "starting", NEW j \in Job,
         UNCHANGED <<app, subscribed>>, phase' # "starting",
         DOMAIN job' = Job, \A k \in Job \ {j} : job'[k] = job[k],
         BuiltInv', suiState => suiState', JobInv(j)'
  PROVE  Inv'
<1>1. ASSUME NEW k \in Job, k # j PROVE JobInv(k)'
  <2>1. JobInv(k) /\ BuiltInv /\ job'[k] = job[k]
    BY <1>1 DEF Inv
  <2>2. /\ ProviderChains' = ProviderChains /\ Contracts' = Contracts
        /\ JobRecord' = JobRecord
    BY DEF ProviderChains, Contracts, JobRecord, Context
  <2>3. (Sui \in DOMAIN ProviderChains => suiState) => suiState' = suiState
    BY <2>1, <2>2 DEF BuiltInv
  <2> QED
    BY <2>1, <2>2, <2>3 DEF JobInv
<1> QED
  BY <1>1 DEF Inv

LEMMA NoContextFits == NoContext \in Context
BY DEF NoContext, Context

\* A job whose pipeline threw starts anew, or is given up.
LEMMA ThrownInv ==
  ASSUME Inv, phase # "starting", NEW j \in Job, Thrown(j) \/ ThrownForGood(j),
         UNCHANGED <<app, subscribed, shared>>, phase' # "starting"
  PROVE  Inv'
<1>1. job[j] \in JobRecord /\ DOMAIN job = Job /\ JobInv(j) /\ BuiltInv
  BY DEF Inv, JobInv
<1>2. PICK at \in {"waiting", "givenUp"} :
        job' = [job EXCEPT ![j] = [job[j] EXCEPT !.at = at, !.attempts = job[j].attempts + 1,
                                                 !.ctx = NoContext]]
  BY <1>1 DEF Thrown, ThrownForGood
<1>3. job'[j] = [job[j] EXCEPT !.at = at, !.attempts = job[j].attempts + 1, !.ctx = NoContext]
  BY <1>1, <1>2
<1>4. /\ ProviderChains' = ProviderChains /\ Contracts' = Contracts /\ Context' = Context
      /\ JobRecord' = JobRecord
  BY DEF ProviderChains, Contracts, JobRecord, Context
<1>5. job'[j] \in JobRecord /\ job'[j].at = at
  <2>1. at \in At /\ job[j].attempts + 1 \in Nat /\ NoContext \in Context
    BY <1>1, NoContextFits DEF JobRecord, At
  <2> QED
    BY <1>1, <1>3, <2>1 DEF JobRecord
<1>6. JobInv(j)' /\ BuiltInv'
  BY <1>1, <1>4, <1>5 DEF JobInv, BuiltInv, shared
<1>7. DOMAIN job' = Job /\ \A k \in Job \ {j} : job'[k] = job[k]
  BY <1>1, <1>2
<1> QED
  BY <1>6, <1>7, OneJobInv DEF shared

LEMMA AttachContractsInv ==
  ASSUME Inv, phase # "starting", NEW j \in Job, job[j].at \in {"waiting", "building", "readingSui"},
         UNCHANGED <<app, subscribed>>, phase' # "starting",
         providers' \in {providers, ProviderChains},
         suiState' \in BOOLEAN, suiState => suiState',
         suiState' <=> Sui \in DOMAIN ProviderChains,
         AttachContracts(j, ProviderChains)
  PROVE  Inv'
<1>1. /\ job[j] \in JobRecord /\ DOMAIN job = Job /\ JobInv(j)
      /\ BuiltInv
  BY DEF Inv, JobInv
<1>2. /\ ProviderChains' = ProviderChains /\ Contracts' = Contracts /\ Context' = Context
      /\ JobRecord' = JobRecord
  BY DEF ProviderChains, Contracts, JobRecord, Context
<1>3. evmContracts' = Contracts
  BY <1>1 DEF AttachContracts, instantiateReadEvmContracts, Contracts, BuiltInv
<1> DEFINE transfer == job[j].transfer /\ (job[j].from = Sui => suiState')
           ctx == [providers |-> ProviderChains, contracts |-> Contracts, transfer |-> transfer]
<1>4. job' = [job EXCEPT ![j] = [job[j] EXCEPT !.at = "routed", !.ctx = ctx]]
  BY <1>1, <1>3 DEF AttachContracts, isTokenBridgeVaa
<1>5. ctx \in Context /\ transfer \in BOOLEAN
  BY <1>1 DEF Context, JobRecord
<1>6. ctx.providers = ProviderChains /\ ctx.contracts = Contracts /\ ctx.transfer = transfer
  OBVIOUS
<1> HIDE DEF ctx
<1>7. /\ job'[j].at = "routed" /\ job'[j].ctx = ctx /\ job'[j] \in JobRecord
      /\ job'[j].transfer = job[j].transfer /\ job'[j].from = job[j].from
  BY <1>1, <1>4, <1>5 DEF JobRecord, At
<1>8. JobInv(j)'
  BY <1>2, <1>6, <1>7 DEF JobInv
<1>9. BuiltInv'
  BY <1>1, <1>2, <1>3 DEF BuiltInv
<1>10. DOMAIN job' = Job /\ \A k \in Job \ {j} : job'[k] = job[k]
  BY <1>1, <1>4
<1> QED
  BY <1>1, <1>8, <1>9, <1>10, OneJobInv

\* A job that only moves on within the middleware or the plugin.
LEMMA MovesInv ==
  ASSUME Inv, phase # "starting", NEW j \in Job, NEW at \in At, job' = Now(j, at),
         UNCHANGED <<app, subscribed, shared>>, phase' # "starting", at # "readingSui",
         at \in {"routed", "handling", "calling"} => job[j].at \in {"routed", "handling", "calling"}
  PROVE  Inv'
<1>1. job[j] \in JobRecord /\ DOMAIN job = Job /\ JobInv(j) /\ BuiltInv
  BY DEF Inv, JobInv
<1>2. /\ ProviderChains' = ProviderChains /\ Contracts' = Contracts /\ Context' = Context
      /\ JobRecord' = JobRecord
  BY DEF ProviderChains, Contracts, JobRecord, Context
<1>3. job' = [job EXCEPT ![j] = [job[j] EXCEPT !.at = at]]
  BY <1>1 DEF Now
<1>4. /\ job'[j].at = at /\ job'[j] \in JobRecord /\ job'[j].ctx = job[j].ctx
      /\ job'[j].transfer = job[j].transfer /\ job'[j].from = job[j].from
  BY <1>1, <1>3 DEF JobRecord
<1>5. JobInv(j)' /\ BuiltInv'
  BY <1>1, <1>2, <1>4 DEF JobInv, BuiltInv, shared
<1>6. DOMAIN job' = Job /\ \A k \in Job \ {j} : job'[k] = job[k]
  BY <1>1, <1>3
<1> QED
  BY <1>5, <1>6, OneJobInv DEF shared

-----------------------------------------------------------------------------
(* The actions.                                                            *)

LEMMA AttachProvidersInv ==
  ASSUME Inv, phase # "starting", NEW j \in Job, job[j].at \in {"waiting", "building"},
         UNCHANGED <<app, subscribed>>, phase' # "starting",
         providers' \in {providers, ProviderChains},
         AttachProviders(j, ProviderChains)
  PROVE  Inv'
<1>1. /\ job[j] \in JobRecord /\ DOMAIN job = Job /\ JobInv(j)
      /\ BuiltInv
  BY DEF Inv, JobInv
<1>2. CASE ~suiState /\ Sui \in DOMAIN ProviderChains
  <2>1. /\ ProviderChains' = ProviderChains /\ Contracts' = Contracts /\ Context' = Context
        /\ JobRecord' = JobRecord
    BY DEF ProviderChains, Contracts, JobRecord, Context
  <2>2. /\ UNCHANGED <<suiState, evmContracts>>
        /\ job' = [job EXCEPT ![j].at = "readingSui", ![j].ctx.providers = ProviderChains]
    BY <1>2 DEF AttachProviders
  <2> DEFINE ctx == [job[j].ctx EXCEPT !.providers = ProviderChains]
  <2>3. job' = [job EXCEPT ![j] = [job[j] EXCEPT !.at = "readingSui", !.ctx = ctx]]
    BY <1>1, <2>2
  <2>4. ctx \in Context /\ ctx.providers = ProviderChains
    BY <1>1 DEF JobRecord, Context
  <2> HIDE DEF ctx
  <2>5. /\ job'[j].at = "readingSui" /\ job'[j].ctx = ctx /\ job'[j] \in JobRecord
        /\ DOMAIN job' = Job /\ \A k \in Job \ {j} : job'[k] = job[k]
    BY <1>1, <2>3, <2>4 DEF JobRecord, At
  <2>6. JobInv(j)'
    BY <1>1, <1>2, <2>1, <2>4, <2>5 DEF JobInv
  <2>7. BuiltInv'
    BY <1>1, <2>1, <2>2 DEF BuiltInv
  <2> QED
    BY <1>1, <2>2, <2>5, <2>6, <2>7, OneJobInv
<1>3. CASE ~(~suiState /\ Sui \in DOMAIN ProviderChains)
  <2>1. suiState' = suiState /\ AttachContracts(j, ProviderChains)
    BY <1>3 DEF AttachProviders
  <2>2. suiState' \in BOOLEAN /\ (suiState' <=> Sui \in DOMAIN ProviderChains)
    BY <1>1, <1>3, <2>1 DEF BuiltInv
  <2> QED
    BY <2>1, <2>2, AttachContractsInv
<1> QED
  BY <1>2, <1>3

LEMMA MiddlewareInv ==
  ASSUME Inv, phase # "starting", NEW j \in Job, Middleware(j)
  PROVE  Inv'
<1>0. JobInv(j) /\ BuiltInv /\ UNCHANGED <<subscribed, phase>>
  BY DEF Inv, Middleware, startVars
<1>1. CASE Enter(j)
  <2>1. job[j].at = "waiting" /\ app' = app /\ providers' = providers
    BY <1>1 DEF Enter
  <2>2. CASE providers = Undefined
    <3>1. job' = Now(j, "building") /\ UNCHANGED shared
      BY <1>1, <2>2 DEF Enter, shared
    <3>2. "building" \in At
      BY DEF At
    <3> QED
      BY <1>0, <2>1, <3>1, <3>2, MovesInv
  <2>3. CASE providers # Undefined
    BY <1>0, <1>1, <2>1, <2>3, AttachProvidersInv DEF Enter, BuiltInv
  <2> QED
    BY <2>2, <2>3
<1>2. CASE BuildProviders(j)
  BY <1>0, <1>2, AttachProvidersInv DEF BuildProviders
<1>3. CASE BuildFails(j)
  BY <1>0, <1>3, ThrownInv DEF BuildFails
<1>4. CASE ReadSuiState(j)
  <2>1. /\ job[j].at = "readingSui" /\ suiState' = TRUE /\ app' = app /\ providers' = providers
        /\ AttachContracts(j, ProviderChains) /\ Sui \in DOMAIN ProviderChains
    BY <1>0, <1>4 DEF ReadSuiState, JobInv
  <2> QED
    BY <1>0, <2>1, AttachContractsInv
<1>5. CASE ReadSuiStateFails(j)
  BY <1>0, <1>5, ThrownInv DEF ReadSuiStateFails
<1> QED
  BY <1>1, <1>2, <1>3, <1>4, <1>5 DEF Middleware, StdStep

\* What leaves the jobs and the closures alone.
LEMMA RestInv ==
  ASSUME Inv, phase # "starting", phase' # "starting",
         UNCHANGED <<app, shared, subscribed, job>>
  PROVE  Inv'
<1>1. /\ ProviderChains' = ProviderChains /\ Contracts' = Contracts /\ Context' = Context
      /\ JobRecord' = JobRecord
  BY DEF ProviderChains, Contracts, JobRecord, Context
<1> QED
  BY <1>1 DEF Inv, BuiltInv, JobInv, shared

LEMMA HandlerInv ==
  ASSUME Inv, phase # "starting", NEW j \in Job,
         ConsumeEvent(j) \/ Call(j) \/ CallSettles(j) \/ HandleWorkflowEnds(j)
  PROVE  Inv'
<1> USE DEF HandlerThrows, shared, startVars
<1>0. JobInv(j) /\ UNCHANGED <<app, shared, subscribed>>
  BY DEF Inv, JobInv, ConsumeEvent, Call, CallSettles, HandleWorkflowEnds
<1>1. CASE HandlerThrows(j) /\ phase' = phase
  BY <1>0, <1>1, ThrownInv
<1>2. ASSUME NEW at \in {"done", "handling"}, job' = Now(j, at), UNCHANGED phase,
             job[j].at \in {"routed", "handling"}
      PROVE  Inv'
  <2>1. at \in At
    BY <1>2 DEF At
  <2> QED
    BY <1>0, <1>2, <2>1, MovesInv
<1>3. CASE ConsumeEvent(j)
  BY <1>1, <1>2, <1>3 DEF ConsumeEvent
<1>4. ASSUME NEW c \in Chain, Returned(j, c), job[j].at = "handling" PROVE Inv'
  <2>1. CASE app.wallets /\ Queues(c)
    <3>1. job' = Now(j, "calling") /\ phase' = phase /\ "calling" \in At
      BY <1>4, <2>1 DEF Returned, At
    <3> QED
      BY <1>0, <1>4, <3>1, MovesInv
  <2>2. CASE ~(app.wallets /\ Queues(c))
    BY <1>1, <1>4, <2>2 DEF Returned
  <2> QED
    BY <2>1, <2>2
<1>5. ASSUME job[j].at = "handling", job' = job, phase' # "starting" PROVE Inv'
  BY <1>0, <1>5, RestInv
<1>6. ASSUME NEW c \in Chain, Unreturned(j, c), job[j].at = "handling" PROVE Inv'
  <2>1. CASE ~app.wallets
    BY <1>1, <1>6, <2>1 DEF Unreturned
  <2>2. CASE app.wallets
    <3>1. job' = job /\ phase' # "starting"
      BY <1>0, <1>6, <2>2 DEF Unreturned
    <3> QED
      BY <1>5, <1>6, <3>1
  <2> QED
    BY <2>1, <2>2
<1>7. CASE Call(j)
  <2>1. PICK c \in Chain : execute(j, c) \/ executeOn(j, c)
    BY <1>7 DEF Call
  <2>2. job[j].at = "handling"
    BY <1>7 DEF Call
  <2>3. CASE executeOn(j, c)
    BY <1>4, <2>2, <2>3 DEF executeOn
  <2>4. CASE execute(j, c)
    <3>1. CASE c \in EVMChain
      BY <1>6, <2>2, <2>4, <3>1 DEF execute
    <3>2. CASE c \notin EVMChain /\ c = Solana
      BY <1>4, <2>2, <2>4, <3>2 DEF execute
    <3>3. CASE c \notin EVMChain /\ c # Solana
      BY <1>5, <2>2, <2>4, <3>3 DEF execute
    <3> QED
      BY <3>1, <3>2, <3>3
  <2> QED
    BY <2>1, <2>3, <2>4
<1>8. CASE CallSettles(j)
  <2>1. job[j].at = "calling" /\ phase' = phase /\ "handling" \in At
    BY <1>8 DEF CallSettles, At
  <2>2. CASE job' = Now(j, "handling")
    BY <1>0, <2>1, <2>2, MovesInv
  <2>3. CASE HandlerThrows(j)
    BY <1>1, <2>1, <2>3
  <2> QED
    BY <1>8, <2>2, <2>3 DEF CallSettles
<1>9. CASE HandleWorkflowEnds(j)
  BY <1>1, <1>2, <1>9 DEF HandleWorkflowEnds
<1> QED
  BY <1>3, <1>7, <1>8, <1>9

\* A VAA arrives from a chain the relayer has subscribed to.
LEMMA DeliverInv ==
  ASSUME Inv, phase # "starting", NEW j \in Job, Deliver(j)
  PROVE  Inv'
<1>0. /\ JobInv(j) /\ job[j] \in JobRecord /\ DOMAIN job = Job /\ BuiltInv
      /\ UNCHANGED <<app, shared, subscribed, phase>>
  BY DEF Inv, JobInv, Deliver, Arrives, startVars
<1>1. PICK c \in DOMAIN subscribed, transfer \in BOOLEAN : Arrives(j, c, transfer)
  BY DEF Deliver
<1>2. /\ job[j].at = "none"
      /\ job' = [job EXCEPT ![j] = [job[j] EXCEPT !.at = "waiting", !.from = c, !.transfer = transfer]]
  BY <1>0, <1>1 DEF Arrives
<1>3. /\ ProviderChains' = ProviderChains /\ Contracts' = Contracts /\ Context' = Context
      /\ JobRecord' = JobRecord
  BY <1>0 DEF ProviderChains, Contracts, JobRecord, Context
<1>4. /\ job'[j].at = "waiting" /\ job'[j] \in JobRecord
      /\ DOMAIN job' = Job /\ \A k \in Job \ {j} : job'[k] = job[k]
  BY <1>0, <1>2 DEF JobRecord, At
<1>5. JobInv(j)' /\ BuiltInv'
  BY <1>0, <1>2, <1>3, <1>4 DEF JobInv, BuiltInv, shared
<1> QED
  BY <1>0, <1>4, <1>5, OneJobInv DEF shared

\* The start, a load before it, and calls that settle unheard leave the jobs and
\* the closures alone.
LEMMA StartsInv ==
  ASSUME Inv, \/ \E mode \in Mode : LoadEarlier(mode)
              \/ RunDirectory \/ RunObject \/ StartOwn
  PROVE  Inv'
<1>1. phase = "starting"
  BY DEF LoadEarlier, RunDirectory, RunObject, StartOwn
<1>2. UNCHANGED <<shared, job>>
  BY DEF LoadEarlier, RunDirectory, RunObject, StartOwn, Starts, stdVars
<1> QED
  BY <1>1, <1>2, StartKeepsInv

LEMMA StepInv == Inv /\ [Next]_vars => Inv'
<1> SUFFICES ASSUME Inv, [Next]_vars PROVE Inv'
  OBVIOUS
<1>1. CASE UNCHANGED vars
  <2>1. UNCHANGED <<app, shared, subscribed, job, phase>>
    BY <1>1 DEF vars, stdVars, startVars
  <2>2. CASE phase = "starting"
    BY <2>1, <2>2, StartKeepsInv
  <2>3. CASE phase # "starting"
    BY <2>1, <2>3, RestInv
  <2> QED
    BY <2>2, <2>3
<1>2. CASE (\E mode \in Mode : LoadEarlier(mode)) \/ RunDirectory \/ RunObject \/ StartOwn
  BY <1>2, StartsInv
<1>3. ASSUME phase = "listening", NEW j \in Job, Deliver(j) PROVE Inv'
  BY <1>3, DeliverInv
<1>4. ASSUME NEW j \in Job, JobStep(j) PROVE Inv'
  BY <1>4, MiddlewareInv, HandlerInv DEF JobStep
<1>5. CASE phase = "listening" /\ DroppedSettles
  <2>1. phase' # "starting" /\ UNCHANGED <<app, shared, subscribed, job>>
    BY <1>5 DEF DroppedSettles, stdVars
  <2> QED
    BY <1>5, <2>1, RestInv
<1> QED
  BY <1>1, <1>2, <1>3, <1>4, <1>5 DEF Next

LEMMA Invariance == Spec => []Inv
  BY InitInv, StepInv, PTL DEF Spec

-----------------------------------------------------------------------------
\* Whatever interleaves with a job in the middleware, its handler has all that
\* the middleware promises.
THEOREM HandlersHaveTheirContext == Spec => []ContextsComplete
<1>1. Inv => ContextsComplete
  <2> SUFFICES ASSUME Inv, NEW j \in Job, job[j].at \in {"routed", "handling", "calling"}
               PROVE  /\ job[j].ctx.providers = ProviderChains /\ job[j].ctx.contracts = Contracts
                      /\ job[j].ctx.transfer = (job[j].transfer /\ (job[j].from = Sui => suiState))
                      /\ Sui \in DOMAIN ProviderChains => suiState
    BY DEF ContextsComplete, Contracts
  <2>1. phase # "starting"
    BY DEF Inv, NotBegun, NoJob
  <2> QED
    BY <2>1 DEF Inv, JobInv
<1> QED
  BY <1>1, Invariance, PTL

LEMMA BuiltStep ==
  ASSUME Inv, [Next]_vars
  PROVE  /\ providers # Undefined => providers' = providers
         /\ suiState => suiState'
         /\ evmContracts # Undefined => evmContracts' = evmContracts
<1>1. CASE UNCHANGED shared
  BY <1>1 DEF shared
<1>2. ASSUME NEW j \in Job, JobStep(j), Middleware(j)
      PROVE  /\ providers # Undefined => providers' = providers
             /\ suiState => suiState'
             /\ evmContracts # Undefined => evmContracts' = evmContracts
  <2>1. BuiltInv
    BY <1>2 DEF Inv, JobStep
  <2>2. providers # Undefined => providers' = providers
    BY <1>2, <2>1 DEF Middleware, StdStep, Enter, BuildProviders, BuildFails, ReadSuiState,
                     ReadSuiStateFails, BuiltInv, shared
  <2>3. /\ suiState => suiState'
        /\ evmContracts # Undefined => evmContracts' = evmContracts
    BY <1>2, <2>1 DEF Middleware, StdStep, Enter, BuildProviders, BuildFails, ReadSuiState,
                     ReadSuiStateFails, AttachProviders, AttachContracts, BuiltInv, shared
  <2> QED
    BY <2>2, <2>3
<1>3. \/ UNCHANGED shared
      \/ \E j \in Job : JobStep(j) /\ Middleware(j)
  <2>1. CASE UNCHANGED vars
    BY <2>1 DEF vars, stdVars
  <2>2. CASE (\E mode \in Mode : LoadEarlier(mode)) \/ RunDirectory \/ RunObject \/ StartOwn
    BY <2>2 DEF LoadEarlier, RunDirectory, RunObject, StartOwn, Starts, stdVars
  <2>3. ASSUME NEW j \in Job, Deliver(j) PROVE UNCHANGED shared
    BY <2>3 DEF Deliver, Arrives
  <2>4. ASSUME NEW j \in Job, JobStep(j), ~Middleware(j) PROVE UNCHANGED shared
    BY <2>4 DEF JobStep, ConsumeEvent, Call, CallSettles, HandleWorkflowEnds
  <2>5. CASE DroppedSettles
    BY <2>5 DEF DroppedSettles, stdVars
  <2> QED
    BY <2>1, <2>2, <2>3, <2>4, <2>5 DEF Next
<1> QED
  BY <1>1, <1>2, <1>3

\* A build or a read that ends late, or fails, does not change what another has
\* built.
THEOREM BuiltStays == Spec => BuiltIsKept
<1>1. Inv /\ [Next]_vars =>
        [/\ providers # Undefined => providers' = providers
         /\ suiState => suiState'
         /\ evmContracts # Undefined => evmContracts' = evmContracts]_shared
  BY BuiltStep
<1> QED
  BY <1>1, Invariance, PTL DEF Spec, BuiltIsKept

-----------------------------------------------------------------------------
(* The keys of a relayer started from a directory.                         *)

LEMMA SetHasMax ==
  ASSUME NEW S \in SUBSET Nat, IsFiniteSet(S), S # {}
  PROVE  \E i \in S : \A k \in S : k <= i
<1> DEFINE Above(i) == {k \in S : k > i}
           Aboves == {Above(i) : i \in S}
<1>1. Aboves \subseteq FiniteSubsetsOf(S) /\ Aboves # {}
  <2>1. \A i \in S : Above(i) \in SUBSET S /\ IsFiniteSet(Above(i))
    BY FS_Subset
  <2> QED
    BY <2>1 DEF FiniteSubsetsOf
<1>2. PICK A \in Aboves : \A B \in Aboves : <<B, A>> \notin StrictSubsetOrdering(S)
  <2> HIDE DEF Aboves
  <2> QED
    BY <1>1, FS_StrictSubsetOrderingWellFounded, WFMin
<1>3. PICK i \in S : A = Above(i)
  BY <1>2
<1>4. ASSUME NEW k \in S, k > i PROVE FALSE
  <2>1. /\ Above(k) \in SUBSET S /\ Above(i) \in SUBSET S
        /\ \A m \in Above(k) : m \in Above(i)
        /\ k \in Above(i) /\ ~(k > k)
    BY <1>4
  <2>2. Above(k) \subseteq Above(i) /\ Above(k) # Above(i)
    BY <2>1
  <2>3. Above(k) \in Aboves
    OBVIOUS
  <2>4. <<Above(k), A>> \in (SUBSET S) \X (SUBSET S) /\ Above(k) \subseteq A /\ Above(k) # A
    BY <1>3, <2>1, <2>2
  <2> HIDE DEF Above, Aboves
  <2>5. <<Above(k), A>> \in StrictSubsetOrdering(S)
    BY <2>4 DEF StrictSubsetOrdering
  <2> QED
    BY <1>2, <2>3, <2>5
<1> QED
  <2>1. \A k \in S : k <= i
    BY <1>4
  <2> QED
    BY <2>1
\* What the environment names wins.
LEMMA LoadExecutorOK ==
  ASSUME NEW d \in Directories, NEW raw, raw = loadExecutor(d)
  PROVE  /\ DOMAIN raw = DOMAIN d.keys \cup (d.chains \cap DOMAIN d.environ)
         /\ \A c \in d.chains \cap DOMAIN d.environ :
              c \in DOMAIN raw /\ raw[c] = d.environ[c] /\ ~IsEntry(raw[c])
         /\ \A c \in DOMAIN raw \ (d.chains \cap DOMAIN d.environ) :
              c \in DOMAIN d.keys /\ raw[c] = d.keys[c]
<1> DEFINE env == [c \in d.chains \cap DOMAIN d.environ |-> d.environ[c]]
<1>1. raw = [k \in DOMAIN d.keys \cup DOMAIN env |-> IF k \in DOMAIN env THEN env[k] ELSE d.keys[k]]
  BY DEF loadExecutor, assign, privateKeyEnvVarLoader
<1>2. DOMAIN env = d.chains \cap DOMAIN d.environ /\ \A c \in DOMAIN env : env[c] = d.environ[c]
  OBVIOUS
<1>3. \A c \in DOMAIN d.environ : ~IsEntry(d.environ[c])
  BY DirectoriesAssumption DEF IsDirectory, IsEntry, KeyList
<1> HIDE DEF env
<1> QED
  BY <1>1, <1>2, <1>3

\* The keys that pass the validation, per chain.
LEMMA EnvKeysOK ==
  ASSUME NEW d \in Directories, NEW keys, keys = EnvKeys(d),
         validatePrivateKeys(keys, d.chains)
  PROVE  /\ DOMAIN keys = d.chains
         /\ \A c \in d.chains :
              IF c \in DOMAIN d.environ THEN keys[c] = d.environ[c]
              ELSE keys[c] \in IF d.isArray
                               THEN {d.keys[i].privateKeys :
                                       i \in {k \in DOMAIN d.keys : d.keys[k].chainId = c}}
                               ELSE {d.keys[c]}
<1>1. DOMAIN keys = d.chains /\ \A c \in d.chains : ~IsEntry(keys[c])
  BY DEF validatePrivateKeys
<1>2. PICK raw : raw = loadExecutor(d)
  OBVIOUS
<1>3. /\ DOMAIN raw = DOMAIN d.keys \cup (d.chains \cap DOMAIN d.environ)
      /\ \A c \in d.chains \cap DOMAIN d.environ :
           c \in DOMAIN raw /\ raw[c] = d.environ[c] /\ ~IsEntry(raw[c])
      /\ \A c \in DOMAIN raw \ (d.chains \cap DOMAIN d.environ) :
           c \in DOMAIN d.keys /\ raw[c] = d.keys[c]
  BY <1>2, LoadExecutorOK
<1>4. /\ IsFiniteSet(DOMAIN d.keys)
      /\ d.isArray => DOMAIN d.keys \in SUBSET Nat /\ \A i \in DOMAIN d.keys : IsEntry(d.keys[i])
  BY DirectoriesAssumption DEF IsDirectory, IsEntry, Entry
<1>5. CASE ~Transforms(d)
  <2>1. keys = raw
    BY <1>2, <1>5 DEF EnvKeys
  <2>2. ASSUME NEW c \in d.chains, c \in DOMAIN d.environ PROVE keys[c] = d.environ[c]
    BY <1>3, <2>1, <2>2
  <2>3. ASSUME NEW c \in d.chains, c \notin DOMAIN d.environ
        PROVE  c \in DOMAIN d.keys /\ keys[c] = d.keys[c] /\ ~d.isArray
    <3>1. c \in DOMAIN d.keys /\ keys[c] = d.keys[c]
      BY <1>1, <1>3, <2>1, <2>3
    <3>2. ~d.isArray
      BY <1>1, <1>4, <3>1
    <3> QED
      BY <3>1, <3>2
  <2> QED
    BY <1>1, <2>2, <2>3
<1>6. CASE Transforms(d)
  <2>1. d.isArray /\ \A i \in DOMAIN raw : IsEntry(raw[i])
    BY <1>2, <1>6 DEF Transforms
  <2>2. d.chains \cap DOMAIN d.environ = {}
    BY <1>3, <2>1
  <2>3. /\ DOMAIN raw = DOMAIN d.keys /\ DOMAIN raw \in SUBSET Nat /\ IsFiniteSet(DOMAIN raw)
        /\ \A i \in DOMAIN raw : raw[i] = d.keys[i]
    BY <1>3, <1>4, <2>1, <2>2
  <2> DEFINE at(c) == {i \in DOMAIN raw : raw[i].chainId = c}
             last(c) == CHOOSE i \in at(c) : \A k \in at(c) : k <= i
  <2>4. keys = [c \in {raw[i].chainId : i \in DOMAIN raw} |-> raw[last(c)].privateKeys]
    BY <1>2, <1>6 DEF EnvKeys, transformPrivateKeys
  <2>5. ASSUME NEW c \in d.chains PROVE last(c) \in at(c)
    <3>1. at(c) # {}
      BY <1>1, <2>4
    <3>2. at(c) \in SUBSET Nat /\ IsFiniteSet(at(c))
      BY <2>3, FS_Subset
    <3> HIDE DEF at
    <3> QED
      BY <3>1, <3>2, SetHasMax
  <2>6. ASSUME NEW c \in d.chains
        PROVE  keys[c] = raw[last(c)].privateKeys
    <3> HIDE DEF last
    <3> QED
      BY <1>1, <2>4
  <2>7. ASSUME NEW c \in d.chains
        PROVE  \E i \in DOMAIN d.keys : d.keys[i].chainId = c /\ keys[c] = d.keys[i].privateKeys
    <3>1. last(c) \in DOMAIN raw /\ raw[last(c)].chainId = c
      BY <2>5
    <3>2. keys[c] = raw[last(c)].privateKeys
      BY <2>6
    <3> HIDE DEF last
    <3> QED
      BY <2>3, <3>1, <3>2
  <2> HIDE DEF at, last
  <2> QED
    BY <1>1, <2>1, <2>2, <2>7
<1> QED
  BY <1>5, <1>6

\* Until the relayer is started there is no application, and the directory is
\* one of those.
StartInv == phase = "starting" => app = Undefined /\ dir \in Directories

LEMMA StartInvariance == Spec => []StartInv
<1>1. Init => StartInv
  BY DEF Init, StdInit, StartInv
<1>2. StartInv /\ [Next]_vars => StartInv'
  <2> SUFFICES ASSUME StartInv, [Next]_vars, phase' = "starting"
               PROVE  app' = Undefined /\ dir' \in Directories
    BY DEF StartInv
  <2>1. CASE UNCHANGED vars
    BY <2>1 DEF StartInv, vars, stdVars, startVars
  <2>2. ASSUME NEW mode \in Mode, LoadEarlier(mode) PROVE app' = Undefined /\ dir' \in Directories
    BY <2>2 DEF LoadEarlier, StartInv, stdVars
  <2>3. CASE RunDirectory \/ RunObject \/ StartOwn
    BY <2>3 DEF RunDirectory, RunObject, StartOwn, Starts
  <2>4. ASSUME NEW j \in Job, Deliver(j), phase = "listening" PROVE FALSE
    BY <2>4 DEF Deliver, startVars
  <2>5. ASSUME NEW j \in Job, JobStep(j) PROVE FALSE
    BY <2>5 DEF JobStep, Middleware, ConsumeEvent, Call, execute, executeOn, Returned, Unreturned,
                HandlerThrows, CallSettles, HandleWorkflowEnds, startVars
  <2>6. CASE phase = "listening" /\ DroppedSettles
    BY <2>6 DEF DroppedSettles
  <2> QED
    BY <2>1, <2>2, <2>3, <2>4, <2>5, <2>6 DEF Next
<1> QED
  BY <1>1, <1>2, PTL DEF Spec

LEMMA RunDirectoryKeys ==
  ASSUME StartInv, RunDirectory, app' # Undefined
  PROVE  /\ DOMAIN app'.keys = dir.chains
         /\ \A c \in dir.chains :
              IF c \in DOMAIN dir.environ THEN app'.keys[c] = dir.environ[c]
              ELSE app'.keys[c] \in FileKeys(c)
<1>1. app = Undefined /\ dir \in Directories
  BY DEF StartInv, RunDirectory
<1>2. Loads(dir, "BOTH") /\ Load("BOTH")
      /\ Starts([spyEndpoint |-> listenerEnv'.spy, privateKeys |-> executorEnv'])
  BY <1>1 DEF RunDirectory, stdVars
<1>3. validatePrivateKeys(EnvKeys(dir), dir.chains) /\ executorEnv' = EnvKeys(dir)
      /\ EnvKeys(dir) # Undefined
  BY <1>1, <1>2, DirectoriesAssumption DEF Loads, Load
<1>4. app'.keys = EnvKeys(dir)
  <2> DEFINE opts == [spyEndpoint |-> listenerEnv'.spy, privateKeys |-> executorEnv']
             o == mergeDeep(defaultStdOpts, opts)
  <2>1. app' = Constructed(opts)
    BY <1>2 DEF Starts
  <2>2. o.privateKeys = executorEnv'
    BY DEF mergeDeep
  <2>3. app'.keys = IF o.privateKeys = Undefined THEN <<>> ELSE o.privateKeys
    <3> HIDE DEF opts
    <3> QED
      BY <2>1 DEF Constructed
  <2> HIDE DEF o
  <2> QED
    BY <1>3, <2>2, <2>3
<1> DEFINE keys == app'.keys
<1>5. keys = EnvKeys(dir) /\ validatePrivateKeys(keys, dir.chains)
  BY <1>3, <1>4
<1> HIDE DEF keys
<1>6. /\ DOMAIN keys = dir.chains
      /\ \A c \in dir.chains :
           IF c \in DOMAIN dir.environ THEN keys[c] = dir.environ[c] ELSE keys[c] \in FileKeys(c)
  BY <1>1, <1>5, EnvKeysOK DEF FileKeys
<1> QED
  BY <1>6 DEF keys

\* A relayer started from a directory signs for its supported chains with the
\* keys of the environment, or else of the file, and has no others.
THEOREM StartsWithItsKeys == Spec => KeysAsConfigured
<1>1. StartInv /\ [Next]_vars =>
        [RunDirectory /\ app' # Undefined =>
           /\ DOMAIN app'.keys = dir.chains
           /\ \A c \in dir.chains :
                IF c \in DOMAIN dir.environ THEN app'.keys[c] = dir.environ[c]
                ELSE app'.keys[c] \in FileKeys(c)]_vars
  BY RunDirectoryKeys
<1> QED
  BY <1>1, StartInvariance, PTL DEF Spec, KeysAsConfigured
=============================================================================
