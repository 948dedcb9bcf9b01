---------------------------- MODULE StagingArea -----------------------------
(***************************************************************************)
(* The staging area (src/relayer/middleware/staging-area.middleware.ts):   *)
(* a key-value store in Redis for the middleware of different jobs.        *)
(*                                                                         *)
(* A job borrows one connection of a pool for its whole pipeline.  Each    *)
(* withKey on it watches the keys, reads them, awaits the caller's f, and  *)
(* writes f's values in a MULTI/EXEC.  Redis keeps the watch per           *)
(* connection: EXEC aborts when a watched key was written since, and ends  *)
(* every watch of its connection either way.                               *)
(*                                                                         *)
(* The value of a key is the number of the update it holds: f returns the  *)
(* value it was given plus one, as a counter would.                        *)
(***************************************************************************)
EXTENDS Naturals, FiniteSets

CONSTANTS
  Job,         \* pipelines that use the staging area
  Conn,        \* connections of the pool (at most 10)
  Key,
  Op,          \* the calls of withKey
  JobOf,       \* the job a call belongs to
  KeysOf,      \* the keys it names
  Overlapping, \* a job's calls may overlap (Promise.all, or one inside f of another)
  None

ASSUME ConstantsAssumption ==
  /\ IsFiniteSet(Op) /\ IsFiniteSet(Key)
  /\ JobOf \in [Op -> Job] /\ KeysOf \in [Op -> SUBSET Key \ {{}}]
  /\ Overlapping \in BOOLEAN
  /\ None \notin Conn

VARIABLES
  store,    \* Redis: the value of each key
  watched,  \* Redis, per connection: the keys it watches
  dirty,    \* Redis, per connection: a watched key was written
  conn,     \* per job: the connection it holds
  job,      \* per job: new, running or ended
  via,      \* per call: the connection its context was built with
  op,       \* per call: new, watching, computing, returned or thrown
  unread,   \* per call: keys it has not read yet
  kvs,      \* per call: what it read
  wrote,    \* history: calls whose EXEC stored their values
  hit,      \* history: calls one of whose keys another call wrote meanwhile
  tainted   \* history: calls begun on a connection that still watched or was dirty

vars == <<store, watched, dirty, conn, job, via, op, unread, kvs, wrote, hit, tainted>>

InFlight(c) == op[c] \in {"watching", "computing"}
OpsOf(j) == {c \in Op : JobOf[c] = j}
Free == Conn \ {conn[j] : j \in Job}

-----------------------------------------------------------------------------
(* The middleware function stagingArea.                                    *)

\* redisPool.acquire(): waits while every connection is taken.
Acquire(j) ==
  /\ job[j] = "new"
  /\ \E r \in Free : conn' = [conn EXCEPT ![j] = r]
  /\ job' = [job EXCEPT ![j] = "running"]
  /\ UNCHANGED <<store, watched, dirty, via, op, unread, kvs, wrote, hit, tainted>>

\* finally: next() settled.  Calls that overlap may still be under way then:
\* Promise.all rejects with the first of them that throws.
Release(j) ==
  /\ job[j] = "running"
  /\ Overlapping \/ \A c \in OpsOf(j) : ~InFlight(c)
  /\ job' = [job EXCEPT ![j] = "ended"]
  /\ conn' = [conn EXCEPT ![j] = None]
  /\ UNCHANGED <<store, watched, dirty, via, op, unread, kvs, wrote, hit, tainted>>

-----------------------------------------------------------------------------
(* withKey                                                                 *)

Watch(c) ==
  LET j == JobOf[c]  r == conn[j]
  IN  /\ op[c] = "new" /\ job[j] = "running"
      /\ Overlapping \/ \A d \in OpsOf(j) : ~InFlight(d)
      /\ op' = [op EXCEPT ![c] = "watching"]
      /\ via' = [via EXCEPT ![c] = r]
      /\ watched' = [watched EXCEPT ![r] = @ \cup KeysOf[c]]
      /\ tainted' = IF watched[r] # {} \/ dirty[r] THEN tainted \cup {c} ELSE tainted
      /\ UNCHANGED <<store, dirty, conn, job, unread, kvs, wrote, hit>>

\* getKeysInternal: a GET for each key, between which others may write; f is
\* called when all are there.
ReadKey(c) ==
  /\ op[c] = "watching"
  /\ \E k \in unread[c] :
       /\ kvs' = [kvs EXCEPT ![c][k] = store[k]]
       /\ unread' = [unread EXCEPT ![c] = @ \ {k}]
  /\ op' = [op EXCEPT ![c] = IF unread'[c] = {} THEN "computing" ELSE @]
  /\ UNCHANGED <<store, watched, dirty, conn, job, via, wrote, hit, tainted>>

\* f rejects: nothing ends the watch.
Throw(c) ==
  /\ op[c] = "computing"
  /\ op' = [op EXCEPT ![c] = "thrown"]
  /\ UNCHANGED <<store, watched, dirty, conn, job, via, unread, kvs, wrote, hit, tainted>>

\* Mutant: MULTI/EXEC without the check of the watched keys.
ExecUnwatched(c) ==
  /\ op[c] = "computing"
  /\ store' = [k \in Key |-> IF k \in KeysOf[c] THEN kvs[c][k] + 1 ELSE store[k]]
  /\ wrote' = wrote \cup {c}
  /\ op' = [op EXCEPT ![c] = "returned"]
  /\ UNCHANGED <<watched, dirty, conn, job, via, unread, kvs, hit, tainted>>

\* Mutant: the watch outlives EXEC.
ExecKeepsWatch(c) ==
  LET r == via[c]
  IN  /\ op[c] = "computing"
      /\ IF dirty[r] THEN UNCHANGED <<store, wrote>>
         ELSE /\ store' = [k \in Key |-> IF k \in KeysOf[c] THEN kvs[c][k] + 1 ELSE store[k]]
              /\ wrote' = wrote \cup {c}
      /\ dirty' = [q \in Conn |-> dirty[q] \/ watched[q] \cap KeysOf[c] # {}]
      /\ op' = [op EXCEPT ![c] = "returned"]
      /\ UNCHANGED <<watched, conn, job, via, unread, kvs, hit, tainted>>

\* f returned its values, and multi.exec() resolves: with null when it was
\* aborted, which withKey does not look at.
Exec(c) ==
  LET r == via[c]
  IN  /\ op[c] = "computing"
      /\ IF dirty[r] THEN
           /\ dirty' = [dirty EXCEPT ![r] = FALSE]
           /\ UNCHANGED <<store, wrote, hit>>
         ELSE
           /\ store' = [k \in Key |-> IF k \in KeysOf[c] THEN kvs[c][k] + 1 ELSE store[k]]
           /\ dirty' = [q \in Conn |-> q # r /\ (dirty[q] \/ watched[q] \cap KeysOf[c] # {})]
           /\ wrote' = wrote \cup {c}
           /\ hit' = hit \cup {d \in Op \ {c} : InFlight(d) /\ KeysOf[d] \cap KeysOf[c] # {}}
      /\ watched' = [watched EXCEPT ![r] = {}]
      /\ op' = [op EXCEPT ![c] = "returned"]
      /\ UNCHANGED <<conn, job, via, unread, kvs, tainted>>

-----------------------------------------------------------------------------
Init ==
  /\ store = [k \in Key |-> 0]
  /\ watched = [r \in Conn |-> {}] /\ dirty = [r \in Conn |-> FALSE]
  /\ conn = [j \in Job |-> None] /\ job = [j \in Job |-> "new"]
  /\ via = [c \in Op |-> None] /\ op = [c \in Op |-> "new"]
  /\ unread = KeysOf /\ kvs = [c \in Op |-> [k \in KeysOf[c] |-> 0]]
  /\ wrote = {} /\ hit = {} /\ tainted = {}

Next ==
  \/ \E j \in Job : Acquire(j) \/ Release(j)
  \/ \E c \in Op : Watch(c) \/ ReadKey(c) \/ Throw(c) \/ Exec(c)

Spec == Init /\ [][Next]_vars

-----------------------------------------------------------------------------
\* No write that was stored is overwritten by one computed without it: a key
\* counts exactly the calls that stored it ("watch keys so that no other
\* listners can alter", staging-area.middleware.ts withKey).  It holds as long
\* as the calls of one job do not overlap on its connection.
StoredUpdatesCount ==
  \A k \in Key : store[k] = Cardinality({c \in wrote : k \in KeysOf[c]})

\* withKey is a transaction on the store: whatever other jobs do between its
\* watch and its EXEC, what it stores it has read, computed and written in one
\* step, over all of its keys; it is dropped if, and but for a connection that came
\* back watching only if, another call wrote one of its keys meanwhile.
Transaction(c) ==
  IF InFlight(c) THEN "open"
  ELSE IF op[c] = "thrown" THEN "failed"
  ELSE IF op[c] = "returned" THEN IF c \in wrote THEN "committed" ELSE "aborted"
  ELSE "new"

Transactions == INSTANCE OptimisticStore
                  WITH Txn <- Op, txn <- [c \in Op |-> Transaction(c)],
                       disturbed <- hit, early <- tainted

CallsAreTransactions == Transactions!OSpec
=============================================================================
