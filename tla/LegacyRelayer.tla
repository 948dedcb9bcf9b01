---------------------------- MODULE LegacyRelayer ----------------------------
(***************************************************************************)
(* A relayer of the older plugin interface                                 *)
(* (src/relayer/middleware/legacy-plugin/): its start from a directory of  *)
(* files, from a configuration object or around an application of one's    *)
(* own, the routes of the plugin's filters, and the handler that runs the  *)
(* plugin's consumeEvent and handleWorkflow with an executor over          *)
(* ctx.wallets.                                                            *)
(*                                                                         *)
(* The plugin is the application's.  It makes its calls one after the      *)
(* other, awaits what the executor returns and does not catch what that    *)
(* throws.  What the wallets do with a call is the module WalletWorkers.   *)
(***************************************************************************)
EXTENDS StandardRelayer, FiniteSetsExt, Bags

CONSTANTS
  Solana,       \* a chain id
  Directories,  \* configuration directories with their environment
  Objects,      \* configuration objects: [spy, keys], each may be Undefined
  OwnOptions,   \* options of an application the user built
  FilterLists,  \* what getFilters may return: sequences of [chainId, emitter]
  MaxCalls      \* bound: calls of the executor per attempt

VARIABLES
  dir,         \* the directory, until the relayer is started
  executorEnv, \* module variables of config.ts: what a load left there
  listenerEnv,
  phase,       \* starting, listening, refused (run or listen threw), ended
  subscribed,  \* the emitters subscribed and routed, per chain
  plugin,      \* per job: calls made in this attempt, and the chain whose
               \* wallet it awaits
  dropped      \* the calls in the wallets' queues whose promise nobody has: a bag
               \* of their chains

startVars == <<dir, executorEnv, listenerEnv, phase, subscribed>>
vars == <<stdVars, startVars, plugin, dropped>>

INSTANCE LegacyConfig

ASSUME DirectoriesAssumption ==
  \A d \in Directories : IsDirectory(d) /\ EnvKeys(d) # Undefined

NoPlugin == [made |-> 0, awaits |-> Undefined]

Init ==
  /\ StdInit
  /\ dir \in Directories
  /\ executorEnv = Undefined /\ listenerEnv = Undefined
  /\ phase = "starting" /\ subscribed = <<>>
  /\ plugin = [j \in Job |-> NoPlugin]
  /\ dropped = EmptyBag

-----------------------------------------------------------------------------
(* The start.                                                              *)

\* What the modes read, kept for later loads: a mode that does not read one of
\* them leaves what is there.
Load(mode) ==
  /\ executorEnv' = IF mode = "LISTENER" THEN executorEnv ELSE EnvKeys(dir)
  /\ listenerEnv' = IF mode = "EXECUTOR" THEN listenerEnv ELSE [spy |-> dir.spy]

\* loadRelayerEngineConfig, called by the application before it runs the
\* relayer with another environment or other files.
LoadEarlier(mode) ==
  /\ phase = "starting" /\ executorEnv = Undefined /\ listenerEnv = Undefined
  /\ Loads(dir, mode) /\ Load(mode)
  /\ dir' \in Directories
  /\ UNCHANGED <<stdVars, phase, subscribed, plugin, dropped>>

\* Only the last emitter of a chain is kept.
Routes(filters) ==
  LET of(c) == {i \in DOMAIN filters : filters[i].chainId = c}
  IN  [c \in {filters[i].chainId : i \in DOMAIN filters} |-> filters[Max(of(c))].emitter]

\* legacyPluginCompat and listen.
Starts(opts) ==
  \E filters \in FilterLists :
    /\ app' = Constructed(opts)
    /\ subscribed' = Routes(filters)
    /\ phase' = IF filters # <<>> /\ app'.spy = Undefined THEN "refused" ELSE "listening"
    /\ dir' = Undefined
    /\ UNCHANGED <<shared, job, plugin, dropped>>

\* run always names the two options, so that the default url is never used.
RunDirectory ==
  /\ phase = "starting"
  /\ IF Loads(dir, "BOTH")
     THEN Load("BOTH") /\ Starts([spyEndpoint |-> listenerEnv'.spy, privateKeys |-> executorEnv'])
     ELSE /\ phase' = "refused" /\ dir' = Undefined
          /\ UNCHANGED <<stdVars, executorEnv, listenerEnv, subscribed, plugin, dropped>>

RunObject ==
  /\ phase = "starting"
  /\ \E o \in Objects : Starts([spyEndpoint |-> o.spy, privateKeys |-> o.keys])
  /\ UNCHANGED <<executorEnv, listenerEnv>>

\* legacyPluginCompat on a StandardRelayerApp of the user.
StartOwn ==
  /\ phase = "starting"
  /\ \E opts \in OwnOptions : Starts(opts)
  /\ UNCHANGED <<executorEnv, listenerEnv>>

-----------------------------------------------------------------------------
(* The handler of a job, at the end of the middleware.                     *)

Deliver(j) ==
  /\ \E c \in DOMAIN subscribed, transfer \in BOOLEAN : Arrives(j, c, transfer)
  /\ UNCHANGED <<startVars, plugin, dropped>>

Middleware(j) == StdStep(j) /\ UNCHANGED <<startVars, plugin, dropped>>

\* The pipeline throws with the plugin's error.
HandlerThrows(j) ==
  /\ Thrown(j)
  /\ plugin' = [plugin EXCEPT ![j] = NoPlugin]

\* consumeEvent throws, returns nothing, or returns workflow data.
ConsumeEvent(j) ==
  /\ job[j].at = "routed"
  /\ \/ HandlerThrows(j)
     \/ \E at \in {"done", "handling"} : job' = Now(j, at) /\ UNCHANGED plugin
  /\ UNCHANGED <<app, shared, startVars, dropped>>

\* ctx.wallets.onX: rejects at once for a chain without queue.
Queues(c) == c \in DOMAIN app.keys

\* The executor returns the promise of the call.
Returned(j, c) ==
  IF app.wallets /\ Queues(c)
  THEN /\ job' = Now(j, "calling")
       /\ plugin' = [plugin EXCEPT ![j].made = @ + 1, ![j].awaits = c]
       /\ UNCHANGED <<phase, dropped>>
  ELSE HandlerThrows(j) /\ UNCHANGED <<phase, dropped>>

\* The executor makes the call and returns nothing.  A rejection that nobody
\* handles ends the process.
Unreturned(j, c) ==
  IF ~app.wallets THEN HandlerThrows(j) /\ UNCHANGED <<phase, dropped>>
  ELSE /\ plugin' = [plugin EXCEPT ![j].made = @ + 1]
       /\ dropped' = IF Queues(c) THEN dropped (+) SetToBag({c}) ELSE dropped
       /\ phase' = IF Queues(c) THEN phase ELSE "ended"
       /\ UNCHANGED job

\* execute(action): on an EVM chain the promise is not returned; an action for
\* another chain than these and Solana is not executed.
execute(j, c) ==
  IF c \in EVMChain THEN Unreturned(j, c)
  ELSE IF c = Solana THEN Returned(j, c)
  ELSE /\ plugin' = [plugin EXCEPT ![j].made = @ + 1]
       /\ UNCHANGED <<job, phase, dropped>>

\* execute.onEVM, execute.onSolana, execute.onSui.
executeOn(j, c) == c \in EVMChain \cup {Solana, Sui} /\ Returned(j, c)

Call(j) ==
  /\ job[j].at = "handling" /\ plugin[j].made < MaxCalls
  /\ \E c \in Chain : execute(j, c) \/ executeOn(j, c)
  /\ UNCHANGED <<app, shared, dir, executorEnv, listenerEnv, subscribed>>

\* A wallet of the chain has run the function; a queue without wallets never
\* does.
HasWallets(c) == app.keys[c].holds # "nothing"

CallSettles(j) ==
  /\ job[j].at = "calling" /\ HasWallets(plugin[j].awaits)
  /\ \/ /\ job' = Now(j, "handling")
        /\ plugin' = [plugin EXCEPT ![j].awaits = Undefined]
     \/ HandlerThrows(j)
  /\ UNCHANGED <<app, shared, startVars, dropped>>

\* A call settles whose promise nobody has.
DroppedSettles ==
  /\ \E c \in BagToSet(dropped) :
       HasWallets(c) /\ dropped' = dropped (-) SetToBag({c})
  /\ phase' \in {phase, "ended"}
  /\ UNCHANGED <<stdVars, dir, executorEnv, listenerEnv, subscribed, plugin>>

\* handleWorkflow returns or throws.
HandleWorkflowEnds(j) ==
  /\ job[j].at = "handling"
  /\ (job' = Now(j, "done") /\ UNCHANGED plugin) \/ HandlerThrows(j)
  /\ UNCHANGED <<app, shared, startVars, dropped>>

-----------------------------------------------------------------------------
JobStep(j) ==
  /\ phase = "listening"
  /\ \/ Middleware(j) \/ ConsumeEvent(j) \/ Call(j) \/ CallSettles(j)
     \/ HandleWorkflowEnds(j)

Next ==
  \/ \E mode \in Mode : LoadEarlier(mode)
  \/ RunDirectory \/ RunObject \/ StartOwn
  \/ phase = "listening" /\ \E j \in Job : Deliver(j)
  \/ \E j \in Job : JobStep(j)
  \/ phase = "listening" /\ DroppedSettles

\* The RPCs asked by the middleware, the plugin and the wallets answer or fail.
Spec == Init /\ [][Next]_vars /\ \A j \in Job : WF_vars(JobStep(j))

-----------------------------------------------------------------------------
\* A relayer started from a directory runs with a list of keys for each
\* supported chain and no other: the one of its own environment variable, or
\* else the one of executor.json, whatever was loaded in the process before.
FileKeys(c) ==
  IF dir.isArray THEN {dir.keys[i].privateKeys : i \in {k \in DOMAIN dir.keys : dir.keys[k].chainId = c}}
  ELSE {dir.keys[c]}

KeysAsConfigured ==
  [][RunDirectory /\ app' # Undefined =>
       /\ DOMAIN app'.keys = dir.chains
       /\ \A c \in dir.chains :
            IF c \in DOMAIN dir.environ THEN app'.keys[c] = dir.environ[c]
            ELSE app'.keys[c] \in FileKeys(c)]_vars

\* A job comes to an end unless the process does, or it awaits a wallet of a
\* chain whose list of keys is empty.
JobsEnd ==
  \A j \in Job :
    job[j].at = "waiting" ~>
      \/ Ended(j) \/ phase # "listening"
      \/ job[j].at = "calling" /\ ~HasWallets(plugin[j].awaits)
=============================================================================
