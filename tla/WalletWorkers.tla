---------------------------- MODULE WalletWorkers ----------------------------
(***************************************************************************)
(* The wallets middleware (src/relayer/middleware/wallet/): pipelines hand *)
(* functions to the wallets of a chain through one queue per chain, and    *)
(* one worker per private key takes them off it.                           *)
(*                                                                         *)
(* A pipeline awaits the promise of its call.  The function runs with the  *)
(* wallet of the worker and may itself call ctx.wallets and await that.    *)
(* Pipelines and functions are the application's: that each awaits one     *)
(* call at a time is a choice of this model.                               *)
(***************************************************************************)
EXTENDS Integers, FiniteSets, Sequences, SequencesExt

CONSTANTS
  Chain,        \* chains the pipelines name
  Supported,    \* keys of opts.privateKeys: chains that have a queue
  Wallet,       \* private keys, over all chains
  ChainOf,      \* the chain each private key belongs to
  Pipeline,     \* pipeline runs of the process
  MaxCalls      \* bound: calls of the executor

ASSUME ConstantsAssumption ==
  /\ Supported \subseteq Chain
  /\ ChainOf \in [Wallet -> Supported]
  /\ MaxCalls \in Nat

CallId == 1..MaxCalls
Caller == Pipeline \cup CallId
ASSUME CallersAssumption == Pipeline \cap CallId = {}

VARIABLES
  executeFunction, \* whether the first pipeline has created it
  queue,    \* per supported chain: the calls in its queue
  calls,    \* the calls made, in order: chain, caller and state of the promise
  worker,   \* per wallet: none, building, idle, busy or dead
  running,  \* functions that run, each with its wallet
  begun,    \* history, per call: how often its function was called
  alive     \* the process

vars == <<executeFunction, queue, calls, worker, running, begun, alive>>

Ids == 1..Len(calls)
WorkersOf(c) == {w \in Wallet : ChainOf[w] = c}
Settled(i) == calls[i].state \in {"resolved", "rejected"}
Unsettled(by) == {i \in Ids : calls[i].by = by /\ ~Settled(i)}

-----------------------------------------------------------------------------
\* The first context that reaches the middleware: no await between the check
\* and the assignment.  The promises of the workers are dropped.
InitializeWallets ==
  /\ alive /\ ~executeFunction
  /\ executeFunction' = TRUE
  /\ worker' = [w \in Wallet |-> "building"]
  /\ UNCHANGED <<queue, calls, running, begun, alive>>

\* createWalletToolbox returned.
WorkerStarts(w) ==
  /\ alive /\ worker[w] = "building"
  /\ worker' = [worker EXCEPT ![w] = "idle"]
  /\ UNCHANGED <<executeFunction, queue, calls, running, begun, alive>>

\* createWalletToolbox rejected: no provider, or a key it cannot read.  Nobody
\* handles the rejection, which ends the process unless the application has
\* installed a handler.
WorkerFails(w) ==
  /\ alive /\ worker[w] = "building"
  /\ worker' = [worker EXCEPT ![w] = "dead"]
  /\ alive' \in BOOLEAN
  /\ UNCHANGED <<executeFunction, queue, calls, running, begun>>

\* Mutant: the newest call is served first.
EnqueueFirst(i, c) == queue' = [queue EXCEPT ![c] = <<i>> \o @]

Enqueue(i, c) == queue' = [queue EXCEPT ![c] = Append(@, i)]

\* ctx.wallets(c, f) by a pipeline, or by a function that runs.  The caller
\* awaits the promise before it does anything else.
Execute(by, c) ==
  /\ alive /\ executeFunction /\ Len(calls) < MaxCalls
  /\ by \in Pipeline \cup {r.call : r \in running}
  /\ Unsettled(by) = {}
  /\ LET i == Len(calls) + 1
     IN  IF c \in Supported
         THEN /\ Enqueue(i, c)
              /\ calls' = Append(calls, [chain |-> c, by |-> by, state |-> "pending"])
         ELSE /\ UNCHANGED queue
              /\ calls' = Append(calls, [chain |-> c, by |-> by, state |-> "rejected"])
  /\ UNCHANGED <<executeFunction, worker, running, begun, alive>>

\* Mutant: the call leaves the queue only after its function has run.
DequeueLater(w) ==
  /\ alive /\ worker[w] = "idle" /\ queue[ChainOf[w]] # <<>>
  /\ LET i == Head(queue[ChainOf[w]])
     IN  /\ running' = running \cup {[wallet |-> w, call |-> i]}
         /\ begun' = [begun EXCEPT ![i] = @ + 1]
  /\ worker' = [worker EXCEPT ![w] = "busy"]
  /\ UNCHANGED <<executeFunction, queue, calls, alive>>

\* The worker wakes up and finds a call: action.f is called.
Dequeue(w) ==
  /\ alive /\ worker[w] = "idle" /\ queue[ChainOf[w]] # <<>>
  /\ LET i == Head(queue[ChainOf[w]])
     IN  /\ running' = running \cup {[wallet |-> w, call |-> i]}
         /\ begun' = [begun EXCEPT ![i] = @ + 1]
  /\ queue' = [queue EXCEPT ![ChainOf[w]] = Tail(@)]
  /\ worker' = [worker EXCEPT ![w] = "busy"]
  /\ UNCHANGED <<executeFunction, calls, alive>>

\* Mutant: an error of the function is logged and nobody rejects the promise.
SettleResultOnly(r, end) ==
  /\ alive /\ r \in running /\ Unsettled(r.call) = {}
  /\ running' = running \ {r}
  /\ worker' = [worker EXCEPT ![r.wallet] = "idle"]
  /\ calls' = IF end = "resolved" THEN [calls EXCEPT ![r.call].state = end] ELSE calls
  /\ UNCHANGED <<executeFunction, queue, begun, alive>>

\* Mutant: a function that threw goes back to the queue.
SettleRequeues(r, end) ==
  /\ alive /\ r \in running /\ Unsettled(r.call) = {}
  /\ running' = running \ {r}
  /\ worker' = [worker EXCEPT ![r.wallet] = "idle"]
  /\ IF end = "resolved"
     THEN calls' = [calls EXCEPT ![r.call].state = end] /\ UNCHANGED queue
     ELSE queue' = [queue EXCEPT ![ChainOf[r.wallet]] = Append(@, r.call)] /\ UNCHANGED calls
  /\ UNCHANGED <<executeFunction, begun, alive>>

\* The function returned or threw; the promise of the call is settled and the
\* worker goes on.
Settle(r, end) ==
  /\ alive /\ r \in running /\ Unsettled(r.call) = {}
  /\ running' = running \ {r}
  /\ worker' = [worker EXCEPT ![r.wallet] = "idle"]
  /\ calls' = [calls EXCEPT ![r.call].state = end]
  /\ UNCHANGED <<executeFunction, queue, begun, alive>>

-----------------------------------------------------------------------------
Init ==
  /\ executeFunction = FALSE
  /\ queue = [c \in Supported |-> <<>>] /\ calls = <<>>
  /\ worker = [w \in Wallet |-> "none"]
  /\ running = {} /\ begun = [i \in CallId |-> 0] /\ alive = TRUE

WorkerStep(w) ==
  \/ WorkerStarts(w) \/ WorkerFails(w) \/ Dequeue(w)
  \/ \E r \in running : r.wallet = w /\ \E end \in {"resolved", "rejected"} : Settle(r, end)

Next ==
  \/ InitializeWallets
  \/ \E by \in Caller, c \in Chain : Execute(by, c)
  \/ \E w \in Wallet : WorkerStep(w)

Spec == Init /\ [][Next]_vars

\* Every worker's timer goes off, createWalletToolbox ends, and a function that
\* awaits no other call ends.  The pipelines owe nothing.
FairSpec == Spec /\ \A w \in Wallet : WF_vars(WorkerStep(w))

-----------------------------------------------------------------------------
TypeOK ==
  /\ executeFunction \in BOOLEAN /\ alive \in BOOLEAN
  /\ queue \in [Supported -> Seq(CallId)]
  /\ calls \in Seq([chain : Chain, by : Caller, state : {"pending", "resolved", "rejected"}])
  /\ Len(calls) <= MaxCalls
  /\ worker \in [Wallet -> {"none", "building", "idle", "busy", "dead"}]
  /\ running \subseteq [wallet : Wallet, call : CallId]
  /\ begun \in [CallId -> Nat]

\* Neither lost nor doubled: every function is called at most once, however many
\* workers share the queue, and an unsettled call is queued once or runs.
CalledOnce ==
  \A i \in Ids :
    /\ begun[i] <= 1
    /\ ~Settled(i) =>
         Cardinality({j \in DOMAIN queue[calls[i].chain] : queue[calls[i].chain][j] = i})
           + Cardinality({r \in running : r.call = i}) = 1

\* The calls for one chain start in the order in which they were made.
StartedInOrder ==
  \A i, j \in Ids : i < j /\ calls[i].chain = calls[j].chain /\ calls[i].chain \in Supported
                    /\ begun[j] > 0 => begun[i] > 0

\* A call that waits: for a call its own function made, or in the queue of a
\* chain whose workers are dead or run functions that themselves wait.
Awaits(i) == Unsettled(i) # {}
Waits(i) ==
  \/ Awaits(i)
  \/ /\ begun[i] = 0
     /\ \A w \in WorkersOf(calls[i].chain) :
          worker[w] = "dead" \/ \E r \in running : r.wallet = w /\ Awaits(r.call)

\* Every call is settled, unless the process ends or the call waits for ever:
\* no worker of its chain was started, or functions wait for each other.
CallIsSettled ==
  \A i \in CallId :
    i \in Ids ~> (i \in Ids /\ Settled(i)) \/ ~alive \/ [](i \in Ids /\ Waits(i))

\* Queues and workers are one pool per chain: each call is served by one wallet
\* of its chain, which has it alone, in the order of the calls, and its promise is
\* settled once its function has ended, and then never again.
Waiting == {[call |-> i, chain |-> calls[i].chain] :
              i \in {j \in Ids : ~Settled(j) /\ begun[j] = 0}}
Over == {[call |-> i, chain |-> calls[i].chain, state |-> calls[i].state] :
           i \in {j \in Ids : Settled(j)}}

Pool == INSTANCE WalletPool
        WITH Call <- CallId, waiting <- Waiting, served <- running, ended <- Over

WorkersArePool == Pool!PSpec
=============================================================================
