-------------------------- MODULE StagingAreaProofs --------------------------
(***************************************************************************)
(* Proofs about StagingArea, for any jobs, calls, keys and connections,    *)
(* when the calls of one job do not overlap: what is stored was computed   *)
(* from what was there.                                                    *)
(*                                                                         *)
(* The invariant: a connection serves one call at a time, watches at least *)
(* its keys, and is dirty unless what the call has read still stands.      *)
(***************************************************************************)
EXTENDS StagingArea, FiniteSetTheorems, TLAPS

CallState == {"new", "watching", "computing", "returned", "thrown"}

Types ==
  /\ store \in [Key -> Nat]
  /\ watched \in [Conn -> SUBSET Key] /\ dirty \in [Conn -> BOOLEAN]
  /\ conn \in [Job -> Conn \cup {None}] /\ job \in [Job -> {"new", "running", "ended"}]
  /\ via \in [Op -> Conn \cup {None}] /\ op \in [Op -> CallState]
  /\ DOMAIN kvs = Op /\ \A c \in Op : kvs[c] \in [KeysOf[c] -> Nat]
  /\ kvs = [c \in Op |-> kvs[c]]
  /\ wrote \subseteq Op /\ \A c \in wrote : op[c] = "returned"
  /\ unread \in [Op -> SUBSET Key]
  /\ \A c \in Op : /\ op[c] = "new" => unread[c] = KeysOf[c]
                   /\ op[c] = "computing" => unread[c] = {}
                   /\ unread[c] \subseteq KeysOf[c]
  /\ hit \subseteq Op /\ \A c \in hit : op[c] # "new"

\* A job that runs has a connection, and no two have the same.
Borrowed ==
  /\ \A j \in Job : job[j] = "running" <=> conn[j] # None
  /\ \A i, j \in Job : conn[i] = conn[j] /\ conn[i] # None => i = j

\* The call under way on a connection.
Serves(c) ==
  /\ job[JobOf[c]] = "running" /\ via[c] = conn[JobOf[c]]
  /\ KeysOf[c] \subseteq watched[via[c]]
  /\ c \notin tainted => watched[via[c]] = KeysOf[c]
  /\ dirty[via[c]] => c \in hit \cup tainted
  /\ c \in hit => dirty[via[c]]
  /\ ~dirty[via[c]] => \A k \in KeysOf[c] \ unread[c] : kvs[c][k] = store[k]

OneAtATime ==
  /\ \A c \in Op : InFlight(c) => Serves(c)
  /\ \A c, d \in Op : InFlight(c) /\ InFlight(d) /\ JobOf[c] = JobOf[d] => c = d

\* A call's values are dropped only because another call wrote one of its keys
\* meanwhile, or because an f that threw left the connection watching.
DroppedForAReason ==
  \A c \in Op : op[c] = "returned" /\ c \notin wrote => c \in hit \cup tainted

Inv == Types /\ Borrowed /\ OneAtATime /\ StoredUpdatesCount /\ DroppedForAReason

-----------------------------------------------------------------------------
\* Two calls under way are on different connections.
LEMMA OwnConnection ==
  ASSUME Inv, NEW c \in Op, NEW d \in Op, InFlight(c), InFlight(d), c # d
  PROVE  via[c] \in Conn /\ via[d] \in Conn /\ via[c] # via[d]
<1>1. JobOf[c] \in Job /\ JobOf[d] \in Job /\ JobOf[c] # JobOf[d]
  BY ConstantsAssumption DEF Inv, OneAtATime
<1> QED
  BY <1>1 DEF Inv, OneAtATime, Serves, Borrowed, Types

LEMMA InitInv == Init => Inv
<1> SUFFICES ASSUME Init PROVE Inv
  OBVIOUS
<1>1. Types
  <2>1. KeysOf \in [Op -> SUBSET Key]
    BY ConstantsAssumption
  <2>2. /\ DOMAIN kvs = Op /\ (\A c \in Op : kvs[c] \in [KeysOf[c] -> Nat])
        /\ kvs = [c \in Op |-> kvs[c]]
    BY DEF Init
  <2> QED
    BY <2>1, <2>2 DEF Init, Types, CallState
<1>2. Borrowed /\ OneAtATime /\ DroppedForAReason
  BY DEF Init, Borrowed, OneAtATime, InFlight, DroppedForAReason
<1>3. StoredUpdatesCount
  <2>1. \A k \in Key : {c \in wrote : k \in KeysOf[c]} = {}
    BY DEF Init
  <2> QED
    BY <2>1, FS_EmptySet DEF Init, StoredUpdatesCount
<1> QED
  BY <1>1, <1>2, <1>3 DEF Inv

LEMMA AcquireKeepsInv ==
  ASSUME Inv, NEW j \in Job, Acquire(j)
  PROVE  Inv'
<1>1. PICK r \in Free : conn' = [conn EXCEPT ![j] = r]
  BY DEF Acquire
<1>2. /\ job[j] = "new" /\ job' = [job EXCEPT ![j] = "running"]
      /\ UNCHANGED <<store, watched, dirty, via, op, unread, kvs, wrote, hit, tainted>>
  BY DEF Acquire
<1>3. r \in Conn /\ r # None /\ \A i \in Job : conn[i] # r
  BY ConstantsAssumption DEF Free
<1>4. /\ job' \in [Job -> {"new", "running", "ended"}] /\ conn' \in [Job -> Conn \cup {None}]
      /\ job'[j] = "running" /\ conn'[j] = r
      /\ \A i \in Job \ {j} : job'[i] = job[i] /\ conn'[i] = conn[i]
  BY <1>1, <1>2, <1>3 DEF Inv, Types
<1>5. Types'
  BY <1>2, <1>4 DEF Inv, Types
<1>6. Borrowed'
  BY <1>3, <1>4 DEF Inv, Borrowed
<1>7. ASSUME NEW c \in Op, InFlight(c) PROVE Serves(c)'
  <2>1. Serves(c) /\ JobOf[c] \in Job
    BY <1>7, ConstantsAssumption DEF Inv, OneAtATime
  <2>2. JobOf[c] # j
    BY <1>2, <2>1 DEF Serves
  <2> QED
    BY <1>2, <1>4, <2>1, <2>2 DEF Serves
<1>8. OneAtATime'
  BY <1>2, <1>7 DEF Inv, OneAtATime, InFlight
<1>9. StoredUpdatesCount' /\ DroppedForAReason'
  BY <1>2 DEF Inv, StoredUpdatesCount, DroppedForAReason
<1> QED
  BY <1>5, <1>6, <1>8, <1>9 DEF Inv

LEMMA ReleaseKeepsInv ==
  ASSUME ~Overlapping, Inv, NEW j \in Job, Release(j)
  PROVE  Inv'
<1>1. /\ \A c \in OpsOf(j) : ~InFlight(c)
      /\ job' = [job EXCEPT ![j] = "ended"] /\ conn' = [conn EXCEPT ![j] = None]
      /\ UNCHANGED <<store, watched, dirty, via, op, unread, kvs, wrote, hit, tainted>>
  BY DEF Release
<1>2. /\ job' \in [Job -> {"new", "running", "ended"}] /\ conn' \in [Job -> Conn \cup {None}]
      /\ job'[j] = "ended" /\ conn'[j] = None
      /\ \A i \in Job \ {j} : job'[i] = job[i] /\ conn'[i] = conn[i]
  BY <1>1 DEF Inv, Types
<1>3. Types'
  BY <1>1, <1>2 DEF Inv, Types
<1>4. Borrowed'
  BY <1>2 DEF Inv, Borrowed
<1>5. ASSUME NEW c \in Op, InFlight(c) PROVE Serves(c)'
  <2>1. Serves(c) /\ JobOf[c] \in Job /\ JobOf[c] # j
    BY <1>1, <1>5, ConstantsAssumption DEF Inv, OneAtATime, OpsOf
  <2> QED
    BY <1>1, <1>2, <2>1 DEF Serves
<1>6. OneAtATime'
  BY <1>1, <1>5 DEF Inv, OneAtATime, InFlight
<1>7. StoredUpdatesCount' /\ DroppedForAReason'
  BY <1>1 DEF Inv, StoredUpdatesCount, DroppedForAReason
<1> QED
  BY <1>3, <1>4, <1>6, <1>7 DEF Inv

LEMMA WatchKeepsInv ==
  ASSUME ~Overlapping, Inv, NEW c \in Op, Watch(c)
  PROVE  Inv'
<1> DEFINE r == conn[JobOf[c]]
<1>0. JobOf[c] \in Job /\ KeysOf[c] \subseteq Key
  BY ConstantsAssumption
<1>1. /\ op[c] = "new" /\ job[JobOf[c]] = "running" /\ \A d \in OpsOf(JobOf[c]) : ~InFlight(d)
      /\ op' = [op EXCEPT ![c] = "watching"] /\ via' = [via EXCEPT ![c] = r]
      /\ watched' = [watched EXCEPT ![r] = watched[r] \cup KeysOf[c]]
      /\ tainted' = (IF watched[r] # {} \/ dirty[r] THEN tainted \cup {c} ELSE tainted)
      /\ UNCHANGED <<store, dirty, conn, job, unread, kvs, wrote, hit>>
  BY DEF Watch
<1>2. r \in Conn
  BY <1>0, <1>1 DEF Inv, Types, Borrowed
<1>3. \A d \in Op : InFlight(d) => d # c /\ JobOf[d] # JobOf[c] /\ via[d] \in Conn /\ via[d] # r
  <2> SUFFICES ASSUME NEW d \in Op, InFlight(d)
               PROVE  d # c /\ JobOf[d] # JobOf[c] /\ via[d] \in Conn /\ via[d] # r
    OBVIOUS
  <2>1. d # c /\ JobOf[d] # JobOf[c] /\ JobOf[d] \in Job
    BY <1>1, ConstantsAssumption DEF InFlight, OpsOf
  <2>2. Serves(d)
    BY DEF Inv, OneAtATime
  <2> QED
    BY <1>0, <1>1, <2>1, <2>2 DEF Inv, Serves, Borrowed, Types
<1> HIDE DEF r
<1>4. /\ op'[c] = "watching" /\ via'[c] = r /\ watched'[r] = watched[r] \cup KeysOf[c]
      /\ \A d \in Op \ {c} : op'[d] = op[d] /\ via'[d] = via[d]
      /\ \A q \in Conn \ {r} : watched'[q] = watched[q]
      /\ \A d \in Op : InFlight(d)' <=> (InFlight(d) \/ d = c)
  BY <1>1, <1>2 DEF Inv, Types, InFlight
<1>5. Types'
  <2>1. /\ op' \in [Op -> CallState] /\ via' \in [Op -> Conn \cup {None}]
        /\ watched' \in [Conn -> SUBSET Key]
    BY <1>0, <1>1, <1>2 DEF Inv, Types, CallState
  <2>2. \A d \in wrote' : op'[d] = "returned"
    BY <1>1, <1>4 DEF Inv, Types
  <2> QED
    BY <1>1, <2>1, <2>2 DEF Inv, Types
<1>6. Borrowed'
  BY <1>1 DEF Inv, Borrowed
<1>7. ASSUME NEW d \in Op, InFlight(d) PROVE Serves(d)'
  <2>1. Serves(d) /\ d # c /\ via[d] \in Conn /\ via[d] # r
    BY <1>3, <1>7 DEF Inv, OneAtATime
  <2>2. via'[d] = via[d] /\ op'[d] = op[d] /\ watched'[via[d]] = watched[via[d]]
    BY <1>4, <2>1
  <2>3. d \in tainted' <=> d \in tainted
    BY <1>1, <2>1
  <2> QED
    BY <1>1, <2>1, <2>2, <2>3 DEF Serves
<1>8. Serves(c)'
  <2>1. c \notin tainted' => watched[r] = {} /\ ~dirty[r]
    BY <1>1
  <2>2. watched'[r] = KeysOf[c] \/ c \in tainted'
    BY <1>4, <2>1
  <2>3. r = conn'[JobOf[c]] /\ job'[JobOf[c]] = "running" /\ dirty' = dirty
    BY <1>1 DEF r
  <2>4. c \notin hit' /\ KeysOf[c] \ unread'[c] = {}
    BY <1>1 DEF Inv, Types
  <2> QED
    BY <1>4, <2>1, <2>2, <2>3, <2>4 DEF Serves
<1>9. OneAtATime'
  BY <1>3, <1>4, <1>7, <1>8 DEF Inv, OneAtATime
<1>10. StoredUpdatesCount'
  BY <1>1 DEF Inv, StoredUpdatesCount
<1>11. DroppedForAReason'
  BY <1>1, <1>4 DEF Inv, DroppedForAReason
<1> QED
  BY <1>5, <1>6, <1>9, <1>10, <1>11 DEF Inv

LEMMA ReadKeepsInv ==
  ASSUME Inv, NEW c \in Op, ReadKey(c)
  PROVE  Inv'
<1>0. JobOf[c] \in Job /\ KeysOf[c] \subseteq Key
  BY ConstantsAssumption
<1>1. PICK k \in unread[c] :
        /\ kvs' = [kvs EXCEPT ![c] = [kvs[c] EXCEPT ![k] = store[k]]]
        /\ unread' = [unread EXCEPT ![c] = unread[c] \ {k}]
  BY DEF ReadKey, Inv, Types
<1>2. /\ op[c] = "watching"
      /\ op' = [op EXCEPT ![c] = IF unread'[c] = {} THEN "computing" ELSE "watching"]
      /\ UNCHANGED <<store, watched, dirty, conn, job, via, wrote, hit, tainted>>
  BY DEF ReadKey
<1>3. k \in KeysOf[c] /\ store[k] \in Nat
  BY <1>0, <1>1 DEF Inv, Types
<1>4. /\ op'[c] = (IF unread'[c] = {} THEN "computing" ELSE "watching")
      /\ unread'[c] = unread[c] \ {k} /\ kvs'[c] = [kvs[c] EXCEPT ![k] = store[k]]
      /\ \A d \in Op \ {c} : op'[d] = op[d] /\ unread'[d] = unread[d] /\ kvs'[d] = kvs[d]
      /\ \A d \in Op : InFlight(d)' <=> InFlight(d)
  BY <1>1, <1>2 DEF Inv, Types, InFlight
<1>5. kvs'[c] \in [KeysOf[c] -> Nat] /\ kvs'[c][k] = store[k]
      /\ \A m \in KeysOf[c] \ {k} : kvs'[c][m] = kvs[c][m]
  <2>1. kvs[c] \in [KeysOf[c] -> Nat]
    BY DEF Inv, Types
  <2> QED
    BY <1>3, <1>4, <2>1
<1>6. Types'
  <2>1. /\ DOMAIN kvs' = Op /\ (\A d \in Op : kvs'[d] \in [KeysOf[d] -> Nat])
        /\ kvs' = [d \in Op |-> kvs'[d]]
    <3>1. \A d \in Op \ {c} : kvs'[d] \in [KeysOf[d] -> Nat]
      BY <1>4 DEF Inv, Types
    <3>2. DOMAIN kvs' = Op /\ kvs' = [d \in Op |-> kvs'[d]]
      BY <1>1 DEF Inv, Types
    <3> QED
      BY <1>5, <3>1, <3>2
  <2>2. /\ op' \in [Op -> CallState] /\ unread' \in [Op -> SUBSET Key]
        /\ \A d \in wrote' : op'[d] = "returned"
        /\ \A d \in hit' : op'[d] # "new"
    BY <1>1, <1>2, <1>4 DEF Inv, Types, CallState
  <2>3. \A d \in Op : /\ op'[d] = "new" => unread'[d] = KeysOf[d]
                      /\ op'[d] = "computing" => unread'[d] = {}
                      /\ unread'[d] \subseteq KeysOf[d]
    BY <1>4 DEF Inv, Types
  <2> QED
    BY <1>2, <2>1, <2>2, <2>3 DEF Inv, Types
<1>7. Borrowed'
  BY <1>2 DEF Inv, Borrowed
<1>8. ASSUME NEW d \in Op, InFlight(d) PROVE Serves(d)'
  <2>1. Serves(d)
    BY <1>8 DEF Inv, OneAtATime
  <2>2. CASE d = c
    BY <1>2, <1>4, <1>5, <2>1, <2>2 DEF Serves
  <2>3. CASE d # c
    BY <1>2, <1>4, <2>1, <2>3 DEF Serves
  <2> QED
    BY <2>2, <2>3
<1>9. OneAtATime'
  BY <1>4, <1>8 DEF Inv, OneAtATime
<1>10. StoredUpdatesCount' /\ DroppedForAReason'
  BY <1>2, <1>4 DEF Inv, StoredUpdatesCount, DroppedForAReason
<1> QED
  BY <1>6, <1>7, <1>9, <1>10 DEF Inv

LEMMA ThrowKeepsInv ==
  ASSUME Inv, NEW c \in Op, Throw(c)
  PROVE  Inv'
<1>1. /\ op[c] = "computing" /\ op' = [op EXCEPT ![c] = "thrown"]
      /\ UNCHANGED <<store, watched, dirty, conn, job, via, unread, kvs, wrote, hit, tainted>>
  BY DEF Throw
<1>2. /\ op'[c] = "thrown" /\ \A d \in Op \ {c} : op'[d] = op[d]
      /\ \A d \in Op : InFlight(d)' => InFlight(d) /\ d # c
  BY <1>1 DEF Inv, Types, InFlight
<1>3. Types'
  BY <1>1, <1>2 DEF Inv, Types, CallState
<1>4. Borrowed'
  BY <1>1 DEF Inv, Borrowed
<1>5. OneAtATime'
  BY <1>1, <1>2 DEF Inv, OneAtATime, Serves
<1>6. StoredUpdatesCount' /\ DroppedForAReason'
  BY <1>1, <1>2 DEF Inv, StoredUpdatesCount, DroppedForAReason
<1> QED
  BY <1>3, <1>4, <1>5, <1>6 DEF Inv

\* The watch makes the read, the computation and the write one step: EXEC
\* stores only when what was read still stands, and dirties the connections
\* of the calls that read what it replaces.
LEMMA ExecKeepsInv ==
  ASSUME Inv, NEW c \in Op, Exec(c)
  PROVE  Inv'
<1> DEFINE r == via[c]
<1>0. JobOf[c] \in Job /\ KeysOf[c] \subseteq Key /\ InFlight(c) /\ Serves(c)
  BY ConstantsAssumption DEF Exec, InFlight, Inv, OneAtATime
<1>1. /\ op[c] = "computing" /\ op' = [op EXCEPT ![c] = "returned"]
      /\ watched' = [watched EXCEPT ![r] = {}]
      /\ UNCHANGED <<conn, job, via, unread, kvs, tainted>>
  BY DEF Exec
<1>2. r \in Conn /\ c \notin wrote
  BY <1>0, <1>1 DEF Inv, Types, Serves, Borrowed
<1>3. CASE dirty[r]
  <2>1. /\ dirty' = [dirty EXCEPT ![r] = FALSE] /\ UNCHANGED <<store, wrote, hit>>
    BY <1>3 DEF Exec
  <2>2. \A d \in Op : InFlight(d) /\ d # c => via[d] \in Conn /\ via[d] # r
    BY <1>0, OwnConnection
  <2>3. c \in hit \cup tainted
    BY <1>0, <1>3 DEF Serves
  <2> HIDE DEF r
  <2>4. /\ op'[c] = "returned" /\ \A d \in Op \ {c} : op'[d] = op[d]
        /\ \A d \in Op : InFlight(d)' => InFlight(d) /\ d # c
        /\ \A q \in Conn \ {r} : watched'[q] = watched[q] /\ dirty'[q] = dirty[q]
    BY <1>1, <1>2, <2>1 DEF Inv, Types, InFlight
  <2>5. Types'
    BY <1>1, <1>2, <2>1, <2>4 DEF Inv, Types, CallState
  <2>6. Borrowed'
    BY <1>1 DEF Inv, Borrowed
  <2>7. ASSUME NEW d \in Op, InFlight(d)' PROVE Serves(d)'
    <3>1. Serves(d) /\ d # c /\ via[d] \in Conn /\ via[d] # r
      BY <2>2, <2>4, <2>7 DEF Inv, OneAtATime
    <3> QED
      BY <1>1, <2>1, <2>4, <3>1 DEF Serves
  <2>8. OneAtATime'
    BY <2>4, <2>7 DEF Inv, OneAtATime
  <2>9. StoredUpdatesCount' /\ DroppedForAReason'
    BY <1>1, <2>1, <2>3, <2>4 DEF Inv, StoredUpdatesCount, DroppedForAReason
  <2> QED
    BY <2>5, <2>6, <2>8, <2>9 DEF Inv
<1>4. CASE ~dirty[r]
  <2>1. /\ store' = [k \in Key |-> IF k \in KeysOf[c] THEN kvs[c][k] + 1 ELSE store[k]]
        /\ dirty' = [q \in Conn |-> q # r /\ (dirty[q] \/ watched[q] \cap KeysOf[c] # {})]
        /\ wrote' = wrote \cup {c}
        /\ hit' = hit \cup {d \in Op \ {c} : InFlight(d) /\ KeysOf[d] \cap KeysOf[c] # {}}
    BY <1>4 DEF Exec
  <2>2. \A d \in Op : InFlight(d) /\ d # c => via[d] \in Conn /\ via[d] # r
    BY <1>0, OwnConnection
  <2>3. \A k \in Key : store'[k] = IF k \in KeysOf[c] THEN store[k] + 1 ELSE store[k]
    <3>1. unread[c] = {}
      BY <1>1 DEF Inv, Types
    <3> QED
      BY <1>0, <1>1, <1>4, <2>1, <3>1 DEF Serves
  <2> HIDE DEF r
  <2>4. /\ op'[c] = "returned" /\ \A d \in Op \ {c} : op'[d] = op[d]
        /\ \A d \in Op : InFlight(d)' => InFlight(d) /\ d # c
        /\ \A q \in Conn \ {r} : watched'[q] = watched[q]
        /\ \A q \in Conn \ {r} : dirty'[q] <=> (dirty[q] \/ watched[q] \cap KeysOf[c] # {})
    BY <1>1, <1>2, <2>1 DEF Inv, Types, InFlight
  <2>5. Types'
    <3>1. store' \in [Key -> Nat]
      BY <2>1, <2>3 DEF Inv, Types
    <3>2. op' \in [Op -> CallState] /\ watched' \in [Conn -> SUBSET Key]
      BY <1>1, <1>2 DEF Inv, Types, CallState
    <3>3. wrote' \subseteq Op /\ \A d \in wrote' : op'[d] = "returned"
      BY <2>1, <2>4 DEF Inv, Types
    <3>4. dirty' \in [Conn -> BOOLEAN]
      BY <2>1
    <3>5. hit' \subseteq Op /\ \A d \in hit' : op'[d] # "new"
      BY <2>1, <2>4 DEF Inv, Types, InFlight
    <3> QED
      BY <1>1, <3>1, <3>2, <3>3, <3>4, <3>5 DEF Inv, Types
  <2>6. Borrowed'
    BY <1>1 DEF Inv, Borrowed
  <2>7. ASSUME NEW d \in Op, InFlight(d)' PROVE Serves(d)'
    <3>1. Serves(d) /\ d # c /\ via[d] \in Conn /\ via[d] # r /\ InFlight(d)
      BY <2>2, <2>4, <2>7 DEF Inv, OneAtATime
    <3>2. dirty'[via[d]] => d \in hit' \cup tainted'
      BY <1>1, <2>1, <2>4, <3>1 DEF Serves
    <3>3. ASSUME ~dirty'[via[d]], NEW k \in KeysOf[d] \ unread[d]
          PROVE  kvs[d][k] = store'[k]
      <4>1. ~dirty[via[d]] /\ k \notin KeysOf[c] /\ k \in Key
        BY <2>4, <3>1, <3>3, ConstantsAssumption DEF Serves
      <4>2. kvs[d][k] = store[k]
        BY <3>1, <3>3, <4>1 DEF Serves
      <4> QED
        BY <2>3, <4>1, <4>2
    <3>4. d \in hit' => dirty'[via[d]]
      <4>1. ASSUME KeysOf[d] \cap KeysOf[c] # {} PROVE dirty'[via[d]]
        BY <2>4, <3>1, <4>1 DEF Serves
      <4> QED
        BY <2>1, <2>4, <3>1, <4>1 DEF Serves
    <3> QED
      BY <1>1, <2>4, <3>1, <3>2, <3>3, <3>4 DEF Serves
  <2>8. OneAtATime'
    BY <2>4, <2>7 DEF Inv, OneAtATime
  <2>9. ASSUME NEW k \in Key PROVE store'[k] = Cardinality({d \in wrote' : k \in KeysOf[d]})
    <3> DEFINE old == {d \in wrote : k \in KeysOf[d]}
               new == {d \in wrote' : k \in KeysOf[d]}
    <3>1. store[k] = Cardinality(old) /\ IsFiniteSet(old) /\ c \notin old
      <4>1. IsFiniteSet(wrote)
        BY ConstantsAssumption, FS_Subset DEF Inv, Types
      <4> QED
        BY <1>2, <4>1, FS_Subset DEF Inv, StoredUpdatesCount
    <3>2. CASE k \in KeysOf[c]
      <4>1. new = old \cup {c}
        BY <2>1, <3>2
      <4>2. Cardinality(new) = Cardinality(old) + 1
        BY <3>1, <4>1, FS_AddElement
      <4> QED
        BY <2>3, <3>1, <3>2, <4>2
    <3>3. CASE k \notin KeysOf[c]
      <4>1. new = old
        BY <2>1, <3>3
      <4> QED
        BY <2>3, <3>1, <3>3, <4>1
    <3> QED
      BY <3>2, <3>3
  <2>10. DroppedForAReason'
    BY <1>1, <2>1, <2>4 DEF Inv, DroppedForAReason
  <2> QED
    BY <2>5, <2>6, <2>8, <2>9, <2>10 DEF Inv, StoredUpdatesCount
<1> QED
  BY <1>3, <1>4

LEMMA StepKeepsInv == ASSUME ~Overlapping PROVE Inv /\ [Next]_vars => Inv'
<1> SUFFICES ASSUME Inv, [Next]_vars PROVE Inv'
  OBVIOUS
<1>1. CASE UNCHANGED vars
  BY <1>1 DEF vars, Inv, Types, Borrowed, OneAtATime, Serves, InFlight, StoredUpdatesCount,
              DroppedForAReason
<1>2. CASE Next
  BY <1>2, AcquireKeepsInv, ReleaseKeepsInv, WatchKeepsInv, ReadKeepsInv, ThrowKeepsInv,
     ExecKeepsInv
     DEF Next
<1> QED
  BY <1>1, <1>2

LEMMA Invariance == ASSUME ~Overlapping PROVE Spec => []Inv
  BY InitInv, StepKeepsInv, PTL DEF Spec

-----------------------------------------------------------------------------
\* While the calls of a job do not overlap, no stored update is overwritten by
\* one computed without it, whatever the jobs share.
THEOREM NoUpdateIsLost == ASSUME ~Overlapping PROVE Spec => []StoredUpdatesCount
<1>1. Inv => StoredUpdatesCount
  BY DEF Inv
<1> QED
  BY <1>1, Invariance, PTL

\* And none is dropped without a conflicting write or a watch left behind by an
\* f that threw.
THEOREM DropsAreExplained == ASSUME ~Overlapping PROVE Spec => []DroppedForAReason
<1>1. Inv => DroppedForAReason
  BY DEF Inv
<1> QED
  BY <1>1, Invariance, PTL

-----------------------------------------------------------------------------
(* The refinement of OptimisticStore.                                      *)

txn == [c \in Op |-> Transaction(c)]

\* A step that moves one call on is one of its transaction.
LEMMA OneTransaction ==
  ASSUME Inv, NEW c \in Op, NEW s, NEW t, Transaction(c) = s, Transaction(c)' = t,
         \A d \in Op \ {c} : op'[d] = op[d] /\ (d \in wrote' <=> d \in wrote)
  PROVE  txn[c] = s /\ txn' = [txn EXCEPT ![c] = t]
<1>1. \A d \in Op \ {c} : Transaction(d)' = Transaction(d)
  BY DEF Transaction, InFlight
<1> QED
  BY <1>1 DEF txn

LEMMA NoTransaction ==
  ASSUME \A d \in Op : (InFlight(d)' <=> InFlight(d)) /\ (~InFlight(d) => op'[d] = op[d]),
         wrote' = wrote
  PROVE  txn' = txn
<1>1. \A d \in Op : Transaction(d)' = Transaction(d)
  BY DEF Transaction, InFlight
<1> QED
  BY <1>1 DEF txn

\* EXEC reads, computes and writes at once: what the call has read still stands.
LEMMA ExecIsCommitOrAbort ==
  ASSUME ~Overlapping, Inv, NEW c \in Op, Exec(c)
  PROVE  Transactions!Commit(c) \/ Transactions!Abort(c)
<1>1. Serves(c) /\ InFlight(c) /\ c \notin wrote /\ op[c] = "computing"
  BY DEF Exec, InFlight, Inv, OneAtATime, Types
<1>2. /\ op'[c] = "returned" /\ \A d \in Op \ {c} : op'[d] = op[d]
      /\ tainted' = tainted
  BY DEF Exec, Inv, Types
<1>3. CASE dirty[via[c]]
  <2>1. UNCHANGED <<store, wrote, hit>> /\ c \in hit \cup tainted
    BY <1>1, <1>3 DEF Exec, Serves
  <2>2. Transaction(c) = "open" /\ Transaction(c)' = "aborted"
    BY <1>1, <1>2, <2>1 DEF Transaction, InFlight
  <2>3. txn[c] = "open" /\ txn' = [txn EXCEPT ![c] = "aborted"]
    BY <1>2, <2>1, <2>2, OneTransaction
  <2> QED
    BY <1>2, <2>1, <2>3 DEF Transactions!Abort, Transactions!Becomes, txn
<1>4. CASE ~dirty[via[c]]
  <2>1. /\ store' = [k \in Key |-> IF k \in KeysOf[c] THEN kvs[c][k] + 1 ELSE store[k]]
        /\ wrote' = wrote \cup {c}
        /\ hit' = hit \cup {d \in Op \ {c} : InFlight(d) /\ KeysOf[d] \cap KeysOf[c] # {}}
    BY <1>4 DEF Exec
  <2>2. store' = [k \in Key |-> IF k \in KeysOf[c] THEN store[k] + 1 ELSE store[k]]
    <3>1. unread[c] = {}
      BY <1>1 DEF Inv, Types
    <3> QED
      BY <1>1, <1>4, <2>1, <3>1 DEF Serves
  <2>3. c \notin hit
    BY <1>1, <1>4 DEF Serves
  <2>4. Transaction(c) = "open" /\ Transaction(c)' = "committed"
    BY <1>1, <1>2, <2>1 DEF Transaction, InFlight
  <2>5. txn[c] = "open" /\ txn' = [txn EXCEPT ![c] = "committed"]
    BY <1>2, <2>1, <2>4, OneTransaction
  <2>6. \A d \in Op : txn[d] = "open" <=> InFlight(d)
    BY DEF txn, Transaction
  <2>7. hit' = hit \cup {d \in Op \ {c} : txn[d] = "open" /\ KeysOf[d] \cap KeysOf[c] # {}}
    BY <2>1, <2>6
  <2> QED
    BY <1>2, <2>2, <2>3, <2>5, <2>7 DEF Transactions!Commit, Transactions!Becomes, txn
<1> QED
  BY <1>3, <1>4

LEMMA OthersAreOpenOrGiveUp ==
  ASSUME Inv, NEW c \in Op
  PROVE  /\ Watch(c) => Transactions!OpenTxn(c)
         /\ Throw(c) => Transactions!GiveUp(c)
         /\ ReadKey(c) => UNCHANGED Transactions!ovars
<1>1. ASSUME Watch(c) PROVE Transactions!OpenTxn(c)
  <2>1. /\ op[c] = "new" /\ op'[c] = "watching" /\ \A d \in Op \ {c} : op'[d] = op[d]
        /\ UNCHANGED <<store, hit, wrote>> /\ tainted' \in {tainted, tainted \cup {c}}
    BY <1>1 DEF Watch, Inv, Types
  <2>2. Transaction(c) = "new" /\ Transaction(c)' = "open"
    BY <2>1 DEF Transaction, InFlight
  <2>3. txn[c] = "new" /\ txn' = [txn EXCEPT ![c] = "open"]
    BY <2>1, <2>2, OneTransaction
  <2> QED
    BY <2>1, <2>3 DEF Transactions!OpenTxn, Transactions!Becomes, txn
<1>2. ASSUME Throw(c) PROVE Transactions!GiveUp(c)
  <2>1. /\ op[c] = "computing" /\ op'[c] = "thrown" /\ \A d \in Op \ {c} : op'[d] = op[d]
        /\ UNCHANGED <<store, hit, wrote, tainted>>
    BY <1>2 DEF Throw, Inv, Types
  <2>2. Transaction(c) = "open" /\ Transaction(c)' = "failed"
    BY <2>1 DEF Transaction, InFlight
  <2>3. txn[c] = "open" /\ txn' = [txn EXCEPT ![c] = "failed"]
    BY <2>1, <2>2, OneTransaction
  <2> QED
    BY <2>1, <2>3 DEF Transactions!GiveUp, Transactions!Becomes, txn
<1>3. ASSUME ReadKey(c) PROVE UNCHANGED Transactions!ovars
  <2>1. /\ op[c] = "watching" /\ op'[c] \in {"watching", "computing"} /\ \A d \in Op \ {c} : op'[d] = op[d]
        /\ UNCHANGED <<store, hit, wrote, tainted>>
    BY <1>3 DEF ReadKey, Inv, Types
  <2>2. txn' = txn
    BY <2>1, NoTransaction DEF InFlight
  <2> QED
    BY <2>1, <2>2 DEF Transactions!ovars, txn
<1> QED
  BY <1>1, <1>2, <1>3

\* Each withKey reads, computes and writes in one step whatever other jobs do:
\* the staging area implements the store of transactions.
THEOREM WithKeyIsTransaction == ASSUME ~Overlapping PROVE Spec => CallsAreTransactions
<1>1. Init => Transactions!OInit
  <2> SUFFICES ASSUME Init PROVE Transactions!OInit
    OBVIOUS
  <2>1. \A c \in Op : Transaction(c) = "new"
    BY DEF Init, Transaction, InFlight
  <2> QED
    BY <2>1 DEF Init, Transactions!OInit
<1>2. Inv /\ [Next]_vars => [Transactions!ONext]_Transactions!ovars
  <2> SUFFICES ASSUME Inv, [Next]_vars
               PROVE  Transactions!ONext \/ UNCHANGED Transactions!ovars
    OBVIOUS
  <2>1. ASSUME NEW c \in Op, Exec(c) PROVE Transactions!ONext
    BY <2>1, ExecIsCommitOrAbort DEF Transactions!ONext
  <2>2. ASSUME NEW c \in Op, Watch(c) \/ ReadKey(c) \/ Throw(c)
        PROVE  Transactions!ONext \/ UNCHANGED Transactions!ovars
    BY <2>2, OthersAreOpenOrGiveUp DEF Transactions!ONext
  <2>3. ASSUME UNCHANGED <<store, op, wrote, hit, tainted>>
        PROVE  UNCHANGED Transactions!ovars
    <3>1. txn' = txn
      BY <2>3, NoTransaction DEF InFlight
    <3> QED
      BY <2>3, <3>1 DEF Transactions!ovars, txn
  <2>4. ASSUME NEW j \in Job, Acquire(j) \/ Release(j) PROVE UNCHANGED Transactions!ovars
    BY <2>3, <2>4 DEF Acquire, Release
  <2> QED
    BY <2>1, <2>2, <2>3, <2>4 DEF Next, vars
<1> QED
  BY <1>1, <1>2, Invariance, PTL DEF Spec, CallsAreTransactions, Transactions!OSpec
=============================================================================
