----------------------------- MODULE RelayQueue -----------------------------
(***************************************************************************)
(* How a VAA gets from processVaa through the Redis queue and the          *)
(* middleware pipeline: RelayerApp (src/relayer/application.ts) with       *)
(* RedisStorage (src/relayer/storage/redis-storage.ts) on top of BullMQ.   *)
(*                                                                         *)
(* Several relayer processes may share the queue.  In each of them calls   *)
(* of processVaa run concurrently (the spy's are not even awaited) and up  *)
(* to Concurrency jobs go through the pipeline at a time.  A process may   *)
(* crash, be stopped, or lose the lock of a job while its pipeline still   *)
(* runs; BullMQ then hands the job out again.                              *)
(*                                                                         *)
(* BullMQ itself is not part of the repository: its job states are         *)
(* modelled from the options and calls of redis-storage.ts.                *)
(***************************************************************************)
EXTENDS Integers, FiniteSets, Sequences, SequencesExt, Metrics

CONSTANTS
  Proc,           \* relayer processes that share the Redis queue
  Vaa,            \* VAAs; the job id is made of chain, emitter, sequence, hash
  Caller,         \* who calls processVaa: the spy, the missed-VAA worker, ...
  Forced,         \* callers that pass { force: true }
  CacheSize,      \* max of alreadyFilteredCache
  Concurrency,    \* opts.concurrency, pipelines one process runs at a time
  Attempts,       \* opts.attempts
  MaxStalls,      \* BullMQ's maxStalledCount (default 1, not set in src)
  KeepCompleted,  \* opts.maxCompletedQueueSize
  KeepFailed,     \* removeOnFail of addVaaToQueue (50000)
  MaxFaults,      \* bound: crashes, failures of Redis, lost locks
  MaxStarts,      \* bound: pipeline runs of a VAA, over all its lives
  None

ASSUME ConstantsAssumption ==
  /\ IsFiniteSet(Proc) /\ IsFiniteSet(Vaa) /\ IsFiniteSet(Caller)
  /\ Forced \subseteq Caller
  /\ CacheSize \in Nat \ {0} /\ Concurrency \in Nat \ {0} /\ Attempts \in Nat \ {0}
  /\ MaxStalls \in Nat /\ KeepCompleted \in Nat /\ KeepFailed \in Nat
  /\ MaxFaults \in Nat /\ MaxStarts \in Nat
  /\ None \notin Nat

VARIABLES
  proc,    \* per process: up, stopping, stopped or down
  cache,   \* per process: alreadyFilteredCache
  intake,  \* calls of processVaa that are awaiting
  job,     \* per VAA: the state of its job, none when there is no such job id
  made,    \* per VAA: attemptsMade
  stalls,  \* per VAA: BullMQ's count of stalls
  token,   \* per VAA: the lock of its job, the number of the run that holds it
  ended,   \* completed and failed jobs, oldest first
  exec,    \* pipeline runs in flight
  starts,  \* history, per VAA: runs started
  faults,  \* failures so far
  added,   \* history: VAAs of an Added event not relayed or given up since
  ran,     \* history: VAAs with a Completed event since their job was added
  relayed, \* history: VAAs with a Completed event, ever
  twice,   \* history: VAAs with two Completed events
  again,   \* history: relayed VAAs whose job was trimmed and added anew
  finishedVaas, \* history, per VAA: labels the runs of its job were counted with
  excuse,  \* history: VAAs of which a run failed outside of the pipeline
  lostLock \* history: VAAs of which a run lost its lock and went on

jobVars == <<job, made, stalls, token, ended>>
history == <<starts, added, ran, relayed, twice, again, excuse, lostLock, finishedVaas>>
vars == <<proc, cache, intake, jobVars, exec, faults, history>>

JobState == {"none", "waiting", "active", "delayed", "completed", "failed"}
Call == [proc : Proc, vaa : Vaa, by : Caller, at : {"filter", "add"}]
Run == [proc : Proc, vaa : Vaa, n : 1..MaxStarts, attempts : 1..MaxStarts,
        at : {"log", "pipeline", "rejected", "progress"}]

Fault == faults < MaxFaults /\ faults' = faults + 1
NoFault == faults' = faults

RunsOf(p) == {e \in exec : e.proc = p}
Holds(e) == job[e.vaa] = "active" /\ token[e.vaa] = e.n
IsLive(p) == proc[p] # "down"

-----------------------------------------------------------------------------
(* processVaa                                                              *)

\* shouldProcessVaa up to its first await: a VAA in the cache was filtered
\* before; force overrides that.
Receive(p, v, c) ==
  /\ IsLive(p)
  /\ ~\E x \in intake : x.proc = p /\ x.vaa = v /\ x.by = c
  /\ v \in cache[p] => c \in Forced
  /\ intake' = intake \cup
       {[proc |-> p, vaa |-> v, by |-> c,
         at |-> IF v \in cache[p] THEN "add" ELSE "filter"]}
  /\ UNCHANGED <<proc, cache, jobVars, exec, faults, history>>

FiltersPass(x) ==
  /\ x \in intake /\ x.at = "filter"
  /\ intake' = (intake \ {x}) \cup {[x EXCEPT !.at = "add"]}
  /\ UNCHANGED <<proc, cache, jobVars, exec, faults, history>>

\* Mutant: the cache grows with every VAA filtered.
RememberAll(p, v) == cache' = [cache EXCEPT ![p] = @ \cup {v}]

\* A filter returned false or threw.  The cache evicts when it is full; which
\* entry is the least recently used is left open.
Remember(p, v) ==
  IF v \in cache[p] \/ Cardinality(cache[p]) < CacheSize
  THEN cache' = [cache EXCEPT ![p] = @ \cup {v}]
  ELSE \E w \in cache[p] : cache' = [cache EXCEPT ![p] = (@ \ {w}) \cup {v}]

FiltersReject(x) ==
  /\ x \in intake /\ x.at = "filter"
  /\ Remember(x.proc, x.vaa)
  /\ intake' = (intake \ {x}) \cup
       IF x.by \in Forced THEN {[x EXCEPT !.at = "add"]} ELSE {}
  /\ UNCHANGED <<proc, jobVars, exec, faults, history>>

\* Mutant: the job id does not make add idempotent.
NewJobAlways(v) ==
  /\ job' = [job EXCEPT ![v] = "waiting"]
  /\ made' = [made EXCEPT ![v] = 0]
  /\ stalls' = [stalls EXCEPT ![v] = 0]
  /\ UNCHANGED <<ran, again, finishedVaas>>

\* vaaQueue.add: an existing job id makes it a no-op, whatever the job's state.
NewJob(v) ==
  IF job[v] = "none"
  THEN /\ job' = [job EXCEPT ![v] = "waiting"]
       /\ made' = [made EXCEPT ![v] = 0]
       /\ stalls' = [stalls EXCEPT ![v] = 0]
       /\ ran' = ran \ {v} /\ again' = again \cup ({v} \cap relayed)
       /\ finishedVaas' = [finishedVaas EXCEPT ![v] = {}]
  ELSE UNCHANGED <<job, made, stalls, ran, again, finishedVaas>>

\* addVaaToQueue, and the Added event, emitted for an existing job too.
AddVaaToQueue(x) ==
  /\ x \in intake /\ x.at = "add"
  /\ intake' = intake \ {x}
  /\ NewJob(x.vaa)
  /\ added' = IF job[x.vaa] \in {"completed", "failed"} THEN added
              ELSE added \cup {x.vaa}
  /\ UNCHANGED <<proc, cache, token, ended, exec, faults, starts, relayed, twice,
                 excuse, lostLock>>

\* Mutant: Added is emitted before add is awaited.
AddFailsAfterAdded(x) ==
  /\ x \in intake /\ x.at = "add" /\ Fault
  /\ intake' = intake \ {x}
  /\ NewJob(x.vaa) \/ UNCHANGED <<job, made, stalls, ran, again, finishedVaas>>
  /\ added' = added \cup {x.vaa}
  /\ UNCHANGED <<proc, cache, token, ended, exec, starts, relayed, twice, excuse, lostLock>>

\* add rejects, before or after the job reached Redis.
AddFails(x) ==
  /\ x \in intake /\ x.at = "add" /\ Fault
  /\ intake' = intake \ {x}
  /\ NewJob(x.vaa) \/ UNCHANGED <<job, made, stalls, ran, again, finishedVaas>>
  /\ UNCHANGED <<proc, cache, token, ended, exec, starts, added, relayed, twice, excuse, lostLock>>

-----------------------------------------------------------------------------
(* The worker of a process: startWorker and onVaaFromQueue.                *)

\* Mutant: a job is handed out again while it is active.
TakeActiveJob(p, v) ==
  /\ proc[p] = "up" /\ Cardinality(RunsOf(p)) < Concurrency
  /\ job[v] \in {"waiting", "active"} /\ starts[v] < MaxStarts
  /\ job' = [job EXCEPT ![v] = "active"]
  /\ made' = [made EXCEPT ![v] = @ + 1]
  /\ starts' = [starts EXCEPT ![v] = @ + 1]
  /\ token' = [token EXCEPT ![v] = starts[v] + 1]
  /\ exec' = exec \cup
       {[proc |-> p, vaa |-> v, n |-> starts[v] + 1, attempts |-> made[v] + 1,
         at |-> "log"]}
  /\ UNCHANGED <<proc, cache, intake, stalls, ended, faults, added, ran, relayed, twice, again,
                 excuse, lostLock, finishedVaas>>

\* Mutant: the limit on running pipelines is off by one.
TakeJobBelow(p, v) ==
  /\ proc[p] = "up" /\ Cardinality(RunsOf(p)) < Concurrency - 1
  /\ job[v] = "waiting" /\ starts[v] < MaxStarts
  /\ job' = [job EXCEPT ![v] = "active"]
  /\ made' = [made EXCEPT ![v] = @ + 1]
  /\ starts' = [starts EXCEPT ![v] = @ + 1]
  /\ token' = [token EXCEPT ![v] = starts[v] + 1]
  /\ exec' = exec \cup
       {[proc |-> p, vaa |-> v, n |-> starts[v] + 1, attempts |-> made[v] + 1,
         at |-> "log"]}
  /\ UNCHANGED <<proc, cache, intake, stalls, ended, faults, added, ran, relayed, twice, again,
                 excuse, lostLock, finishedVaas>>

TakeJob(p, v) ==
  /\ proc[p] = "up" /\ Cardinality(RunsOf(p)) < Concurrency
  /\ job[v] = "waiting" /\ starts[v] < MaxStarts
  /\ job' = [job EXCEPT ![v] = "active"]
  /\ made' = [made EXCEPT ![v] = @ + 1]
  /\ starts' = [starts EXCEPT ![v] = @ + 1]
  /\ token' = [token EXCEPT ![v] = starts[v] + 1]
  /\ exec' = exec \cup
       {[proc |-> p, vaa |-> v, n |-> starts[v] + 1, attempts |-> made[v] + 1,
         at |-> "log"]}
  /\ UNCHANGED <<proc, cache, intake, stalls, ended, faults, added, ran, relayed, twice, again,
                 excuse, lostLock, finishedVaas>>

\* The line about who processes the job is in its log; the handler is called.
LogResolves(e) ==
  /\ e \in exec /\ e.at = "log"
  /\ exec' = (exec \ {e}) \cup {[e EXCEPT !.at = "pipeline"]}
  /\ UNCHANGED <<proc, cache, intake, jobVars, faults, history>>

Counted(v, label) == finishedVaas' = [finishedVaas EXCEPT ![v] = @ \cup {label}]

\* The pipeline ran to its end and Completed is emitted, inside the try: if the
\* listeners return, job.updateProgress(100) is awaited next; if one of them
\* throws, the run is rejected although it was counted as a success.
PipelineCompletes(e) ==
  /\ e \in exec /\ e.at = "pipeline"
  /\ \E at \in {"progress", "rejected"} :
       /\ exec' = (exec \ {e}) \cup {[e EXCEPT !.at = at]}
       /\ excuse' = IF at = "rejected" THEN excuse \cup {e.vaa} ELSE excuse
  /\ ran' = ran \cup {e.vaa} /\ relayed' = relayed \cup {e.vaa}
  /\ twice' = IF e.vaa \in relayed THEN twice \cup {e.vaa} ELSE twice
  /\ Counted(e.vaa, Succeeded)
  /\ UNCHANGED <<proc, cache, intake, jobVars, faults, starts, added, again, lostLock>>

Limit(end) == IF end = "completed" THEN KeepCompleted ELSE KeepFailed

\* removeOnComplete, removeOnFail: when there are more finished jobs of the
\* kind than the limit, the oldest of them is removed.
EndJob(v, end) ==
  LET state == [job EXCEPT ![v] = end]
      q == Append(ended, v)
      alike == {i \in DOMAIN q : state[q[i]] = end}
  IN  /\ IF Cardinality(alike) <= Limit(end) THEN job' = state /\ ended' = q
         ELSE \E i \in alike :
                /\ \A k \in alike : i <= k
                /\ job' = [state EXCEPT ![q[i]] = "none"]
                /\ ended' = RemoveAt(q, i)
      /\ token' = [token EXCEPT ![v] = None]
      /\ added' = added \ {v}

\* The handler returned: moveToCompleted, which fails when the lock is lost.
JobCompletes(e) ==
  /\ e \in exec /\ e.at = "progress"
  /\ exec' = exec \ {e}
  /\ IF Holds(e)
     THEN EndJob(e.vaa, "completed") /\ UNCHANGED <<made, stalls>>
     ELSE UNCHANGED <<jobVars, added>>
  /\ UNCHANGED <<proc, cache, intake, faults, starts, ran, relayed, twice, again, excuse, lostLock,
                 finishedVaas>>

\* The handler threw: retried after a backoff while attempts are left, unless
\* the error is an UnrecoverableError.
Fails(e, recoverable) ==
  /\ exec' = exec \ {e}
  /\ IF ~Holds(e) THEN UNCHANGED <<jobVars, added>>
     ELSE IF recoverable /\ made[e.vaa] < Attempts
     THEN /\ job' = [job EXCEPT ![e.vaa] = "delayed"]
          /\ token' = [token EXCEPT ![e.vaa] = None]
          /\ UNCHANGED <<made, stalls, ended, added>>
     ELSE EndJob(e.vaa, "failed") /\ UNCHANGED <<made, stalls>>

\* Mutant: pushVaaThroughPipeline swallows the error.
PipelineThrowsNothing(e, recoverable) ==
  /\ e \in exec /\ e.at = "pipeline"
  /\ exec' = (exec \ {e}) \cup {[e EXCEPT !.at = "progress"]}
  /\ UNCHANGED <<proc, cache, intake, jobVars, faults, history>>

\* The pipeline threw; the error pipeline is called but not awaited, and
\* Failed is emitted.
PipelineThrows(e, recoverable) ==
  /\ e \in exec /\ e.at = "pipeline"
  /\ Fails(e, recoverable)
  /\ Counted(e.vaa, FailedWith(e.attempts, Attempts))
  /\ UNCHANGED <<proc, cache, intake, faults, starts, ran, relayed, twice, again, excuse, lostLock>>

\* What the listener threw reaches the catch block, which emits Failed as well
\* and rethrows it; no middleware counts that.
ListenerThrew(e, recoverable) ==
  /\ e \in exec /\ e.at = "rejected"
  /\ Fails(e, recoverable)
  /\ UNCHANGED <<proc, cache, intake, faults, starts, ran, relayed, twice, again, excuse, lostLock,
                 finishedVaas>>

\* A call of BullMQ's job rejects, and the job counts as failed: job.log before
\* the pipeline started, updateProgress after the Completed event.
JobCallFails(e) ==
  /\ e \in exec /\ e.at \in {"log", "progress"} /\ Fault
  /\ Fails(e, TRUE)
  /\ excuse' = excuse \cup {e.vaa}
  /\ UNCHANGED <<proc, cache, intake, starts, ran, relayed, twice, again, lostLock, finishedVaas>>

\* The backoff is over.
Promote(v) ==
  /\ job[v] = "delayed"
  /\ job' = [job EXCEPT ![v] = "waiting"]
  /\ UNCHANGED <<proc, cache, intake, made, stalls, token, ended, exec, faults, history>>

\* The lock of a running job expires: its renewal failed, or the event loop
\* was busy for too long.
LoseLock(v) ==
  /\ job[v] = "active" /\ token[v] # None /\ Fault
  /\ token' = [token EXCEPT ![v] = None]
  /\ excuse' = excuse \cup {v} /\ lostLock' = lostLock \cup {v}
  /\ UNCHANGED <<proc, cache, intake, job, made, stalls, ended, exec, starts, added, ran, relayed,
                 twice, again, finishedVaas>>

\* The stalled check of a running worker finds an active job without a lock.
HandleStalled(p, v) ==
  /\ proc[p] = "up" /\ job[v] = "active" /\ token[v] = None
  /\ IF stalls[v] < MaxStalls
     THEN /\ job' = [job EXCEPT ![v] = "waiting"]
          /\ stalls' = [stalls EXCEPT ![v] = @ + 1]
          /\ UNCHANGED <<token, ended, added>>
     ELSE EndJob(v, "failed") /\ UNCHANGED stalls
  /\ UNCHANGED <<proc, cache, intake, made, exec, faults, starts, ran, relayed, twice, again,
                 excuse, lostLock, finishedVaas>>

-----------------------------------------------------------------------------
(* Processes.                                                              *)

\* stop(): stopWorker awaits worker.close(), of which BullMQ promises that it
\* takes no new job and waits for the running ones.  The listen loop goes on.
Stop(p) ==
  /\ proc[p] = "up" /\ proc' = [proc EXCEPT ![p] = "stopping"]
  /\ UNCHANGED <<cache, intake, jobVars, exec, faults, history>>

StopReturns(p) ==
  /\ proc[p] = "stopping" /\ RunsOf(p) = {}
  /\ proc' = [proc EXCEPT ![p] = "stopped"]
  /\ UNCHANGED <<cache, intake, jobVars, exec, faults, history>>

\* Nothing in memory survives; the locks of its jobs expire.
Crash(p) ==
  /\ IsLive(p) /\ Fault
  /\ proc' = [proc EXCEPT ![p] = "down"]
  /\ cache' = [cache EXCEPT ![p] = {}]
  /\ intake' = {x \in intake : x.proc # p}
  /\ exec' = exec \ RunsOf(p)
  /\ token' = [v \in Vaa |-> IF \E e \in RunsOf(p) : e.vaa = v /\ e.n = token[v]
                             THEN None ELSE token[v]]
  /\ excuse' = excuse \cup {e.vaa : e \in RunsOf(p)}
  /\ UNCHANGED <<job, made, stalls, ended, starts, added, ran, relayed, twice, again, lostLock,
                 finishedVaas>>

Restart(p) ==
  /\ proc[p] = "down" /\ proc' = [proc EXCEPT ![p] = "up"]
  /\ UNCHANGED <<cache, intake, jobVars, exec, faults, history>>

-----------------------------------------------------------------------------
Init ==
  /\ proc = [p \in Proc |-> "up"] /\ cache = [p \in Proc |-> {}]
  /\ intake = {} /\ exec = {} /\ faults = 0
  /\ job = [v \in Vaa |-> "none"]
  /\ made = [v \in Vaa |-> 0] /\ stalls = [v \in Vaa |-> 0]
  /\ token = [v \in Vaa |-> None] /\ ended = <<>>
  /\ starts = [v \in Vaa |-> 0]
  /\ added = {} /\ ran = {} /\ relayed = {} /\ twice = {} /\ again = {} /\ excuse = {}
  /\ lostLock = {}
  /\ finishedVaas = [v \in Vaa |-> {}]

ProcessVaa ==
  \/ \E p \in Proc, v \in Vaa, c \in Caller : Receive(p, v, c)
  \/ \E x \in intake :
       FiltersPass(x) \/ FiltersReject(x) \/ AddVaaToQueue(x) \/ AddFails(x)

RunStep(e) ==
  \/ LogResolves(e) \/ PipelineCompletes(e) \/ JobCompletes(e) \/ JobCallFails(e)
  \/ \E recoverable \in BOOLEAN : PipelineThrows(e, recoverable) \/ ListenerThrew(e, recoverable)

WorkerStep ==
  \/ \E p \in Proc, v \in Vaa : TakeJob(p, v) \/ HandleStalled(p, v)
  \/ \E e \in exec : RunStep(e)
  \/ \E v \in Vaa : Promote(v)

Next ==
  \/ ProcessVaa \/ WorkerStep
  \/ \E v \in Vaa : LoseLock(v)
  \/ \E p \in Proc : Stop(p) \/ StopReturns(p) \/ Crash(p) \/ Restart(p)

Spec == Init /\ [][Next]_vars

\* The event loop and BullMQ's timers run what is due, and a pipeline ends one
\* way or the other.  Nothing in the code restarts a process or stops one.
FairSpec == Spec /\ WF_vars(WorkerStep)

-----------------------------------------------------------------------------
TypeOK ==
  /\ proc \in [Proc -> {"up", "stopping", "stopped", "down"}]
  /\ cache \in [Proc -> SUBSET Vaa] /\ \A p \in Proc : Cardinality(cache[p]) <= CacheSize
  /\ intake \subseteq Call /\ exec \subseteq Run
  /\ job \in [Vaa -> JobState]
  /\ made \in [Vaa -> 0..MaxStarts] /\ stalls \in [Vaa -> 0..MaxStalls]
  /\ token \in [Vaa -> 1..MaxStarts \cup {None}]
  /\ ended \in Seq(Vaa) /\ starts \in [Vaa -> 0..MaxStarts]
  /\ faults \in 0..MaxFaults
  /\ added \subseteq Vaa /\ ran \subseteq Vaa /\ relayed \subseteq Vaa /\ twice \subseteq Vaa
  /\ again \subseteq Vaa /\ excuse \subseteq Vaa /\ lostLock \subseteq Vaa
  /\ finishedVaas \in [Vaa -> SUBSET Label]

\* Once Added was emitted for a VAA the queue owns it: until it completed or
\* failed for good there is a job for it, through every crash and every job
\* pushed out by the limits on finished ones.
AddedIsKept == \A v \in added : job[v] \in {"waiting", "active", "delayed"}

\* A job is tried at most Attempts times, and once more for every stall.
TriesBounded == \A v \in Vaa : made[v] <= Attempts + stalls[v]

\* A VAA goes through the pipeline to the end twice only for one of these
\* causes: a run of it was cut off by a crash, lost its lock or was late; a
\* listener of Completed threw after the first time, or a call of job.log or
\* updateProgress failed; or it was added again after the limits on finished
\* jobs had removed its job.  Trimming an unfinished job, handing out one that
\* is active, or a second job for the same id would each be another.
RelayedTwiceHasCause == twice \subseteq excuse \cup again

\* Two runs of one VAA overlap, in one process or in two, only after a run of
\* it lost its lock and went on: a crash, a call of the job that failed and a
\* listener that threw each leave no run behind for the next one to meet.
NoOverlapWithoutLostLock ==
  \A e, f \in exec : e.vaa = f.vaa /\ e # f => e.vaa \in lostLock

\* The metrics and the queue agree on what became of a VAA none of whose runs
\* failed outside of the pipeline (a crash, a lost lock, a failed job.log or
\* updateProgress, a listener of Completed that threw): a job that completed
\* was counted as a success; one that failed was counted with terminal "true"
\* exactly if its attempts were used up (an UnrecoverableError before that is
\* counted as "false"); and what was counted as terminal is not tried again.
MetricsAgree ==
  \A v \in Vaa \ excuse :
    /\ job[v] = "completed" => Succeeded \in finishedVaas[v]
    /\ job[v] = "failed" => (FailedForGood \in finishedVaas[v] <=> made[v] >= Attempts)
    /\ FailedForGood \in finishedVaas[v] => job[v] \in {"failed", "none"}

\* A VAA of the queue is eventually relayed or given up, as long as a process
\* is left that was neither stopped nor crashed.
QueuedIsFinished ==
  \A v \in Vaa : v \in added ~> v \notin added \/ \A p \in Proc : proc[p] # "up"

-----------------------------------------------------------------------------
(* The promise of RelayContract, kept by job states and attempts.          *)

StatusOf == [none |-> "unknown", waiting |-> "queued", delayed |-> "queued",
             active |-> "running", completed |-> "relayed", failed |-> "dead"]

Contract == INSTANCE RelayContract WITH
  status <- [v \in Vaa |-> StatusOf[job[v]]],
  tries <- made,
  MaxTries <- Attempts + MaxStalls

\* Every step of the queue is a step of the contract, or none: an accepted VAA
\* is tried a bounded number of times and ends relayed, after its pipeline
\* completed, or given up.
KeepsContract == Contract!CSpec
=============================================================================
