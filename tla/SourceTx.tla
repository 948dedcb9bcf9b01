------------------------------ MODULE SourceTx -------------------------------
(***************************************************************************)
(* The source transaction middleware                                       *)
(* (src/relayer/middleware/source-tx.middleware.ts) over the client of the *)
(* wormholescan explorer (src/relayer/rpc/wormholescan-client.ts): jobs    *)
(* that look up the hash of the transaction that emitted their VAA.        *)
(*                                                                         *)
(* Each sourceTx() has a cache of hashes; all of them in the process share *)
(* one client, made by the first job that needs it with the options of its *)
(* own middleware.  While a job awaits the explorer, others run and the    *)
(* chain may reorganise: another transaction then emits the VAA.  The      *)
(* format of a hash (the prefix 0x) is left out.                           *)
(***************************************************************************)
EXTENDS HttpClient, Sequences, SequencesExt, FiniteSets

CONSTANTS
  Middleware,    \* calls of sourceTx(), each with a cache
  OptsOf,        \* their options: retries, initialDelay, maxDelay
  Vaa,
  emitterChain, consistencyLevel, \* of each VAA
  Reorgable,     \* VAAs signed before their transaction was final
  CacheSize,     \* max of alreadyFetchedHashes
  MaxReorgs      \* bound: the hashes of a VAA are 1..MaxReorgs + 1

Job == Request   \* a job makes one request
Hash == 1..(MaxReorgs + 1)
NoHash == 0      \* the empty string: the explorer knows no hash

ASSUME ConstantsAssumption ==
  /\ OptsOf \in [Middleware -> [retries : Nat \cup {None}, initialDelay : Nat \cup {None},
                              maxDelay : Nat \cup {None}]]
  /\ emitterChain \in [Vaa -> STRING] /\ consistencyLevel \in [Vaa -> Nat]
  /\ Reorgable \subseteq Vaa
  /\ CacheSize \in Nat \ {0}
  /\ MaxReorgs \in Nat
  /\ Body = Hash \cup {NoHash} /\ None \notin Body

VARIABLES
  wormholescan, \* settings of the client the process shares, or None
  cache,        \* per middleware: the hash kept for each VAA, or None
  recent,       \* per middleware: the VAAs in its cache, least recently used first
  job,          \* per job: new, fetching, next (the pipeline goes on) or thrown
  vaa,          \* per job: ctx.vaa
  via,          \* per job: the middleware it is in
  sourceTxHash, \* per job: ctx.sourceTxHash
  explorer,     \* the hash the explorer has for each VAA
  during        \* history, per job: what the explorer had since the job began

vars == <<http, wormholescan, cache, recent, job, vaa, via, sourceTxHash, explorer, during>>

\* Mutant: level 201 (safe) is forgotten.
IfVAAFinalizedNot200(v) ==
  CASE emitterChain[v] = "solana" -> consistencyLevel[v] = 32
    [] emitterChain[v] = "bsc"    -> consistencyLevel[v] > 15
    [] OTHER                     -> consistencyLevel[v] # 200

\* ifVAAFinalized
IfVAAFinalized(v) ==
  CASE emitterChain[v] = "solana" -> consistencyLevel[v] = 32
    [] emitterChain[v] = "bsc"    -> consistencyLevel[v] > 15
    [] OTHER                     -> consistencyLevel[v] \notin {200, 201}

-----------------------------------------------------------------------------
(* alreadyFetchedHashes, an LRU cache.                                     *)
CacheUnchanged == UNCHANGED <<cache, recent>>

Newest(m, v) ==
  LET all == Append(SelectSeq(recent[m], LAMBDA u : u # v), v)
  IN  IF Len(all) > CacheSize THEN Tail(all) ELSE all

\* set, and get of what is there.
Keep(m, v, h) ==
  /\ recent' = [recent EXCEPT ![m] = Newest(m, v)]
  /\ cache' = [cache EXCEPT ![m] = [u \in Vaa |->
                 IF u = v THEN h ELSE IF u \in ToSet(recent'[m]) THEN cache[m][u] ELSE None]]

-----------------------------------------------------------------------------
(* A job.                                                                  *)

NoVaa(j) ==
  /\ job[j] = "new"
  /\ job' = [job EXCEPT ![j] = "next"]
  /\ UNCHANGED <<http, wormholescan, cache, recent, vaa, via, sourceTxHash, explorer, during>>

Begin(j, m, v) ==
  /\ job[j] = "new"
  /\ vaa' = [vaa EXCEPT ![j] = v]
  /\ via' = [via EXCEPT ![j] = m]
  /\ during' = [during EXCEPT ![j] = {explorer[v]}]
  /\ UNCHANGED explorer

FromCache(j, m, v) ==
  /\ Begin(j, m, v)
  /\ cache[m][v] # None
  /\ sourceTxHash' = [sourceTxHash EXCEPT ![j] = cache[m][v]]
  /\ Keep(m, v, cache[m][v])
  /\ job' = [job EXCEPT ![j] = "next"]
  /\ UNCHANGED <<http, wormholescan>>

\* The client of the explorer and its getVaa: an HTTP client and one of its gets.
WormholescanClient(opts) == Settings(opts)
GetVaa(j, client) == Get(j, client)

\* fetchVaaHash up to its await; the first call makes the client.
FetchVaaHash(j, m, v) ==
  /\ Begin(j, m, v)
  /\ cache[m][v] = None
  /\ wormholescan' = IF wormholescan = None THEN WormholescanClient(OptsOf[m])
                                            ELSE wormholescan
  /\ GetVaa(j, wormholescan')
  /\ job' = [job EXCEPT ![j] = "fetching"]
  /\ UNCHANGED <<cache, recent, sourceTxHash>>

\* getVaa returned: the hash is cached when there is one and the VAA is final.
Found(j) ==
  LET m == via[j]  v == vaa[j]  h == http[j].answer.body
  IN  /\ Succeeds(j)
      /\ IF h # NoHash /\ IfVAAFinalized(v) THEN Keep(m, v, h) ELSE CacheUnchanged
      /\ sourceTxHash' = [sourceTxHash EXCEPT ![j] = h]
      /\ job' = [job EXCEPT ![j] = "next"]
      /\ UNCHANGED <<wormholescan, vaa, via, explorer, during>>

Waits(j) ==
  /\ Retries(j)
  /\ UNCHANGED <<wormholescan, cache, recent, job, vaa, via, sourceTxHash, explorer, during>>

Resends(j) ==
  /\ TriesAgain(j)
  /\ UNCHANGED <<wormholescan, cache, recent, job, vaa, via, sourceTxHash, explorer, during>>

\* getVaa maps the error into its result and fetchVaaHash throws it.
Throws(j) ==
  /\ Fails(j)
  /\ job' = [job EXCEPT ![j] = "thrown"]
  /\ UNCHANGED <<wormholescan, cache, recent, vaa, via, sourceTxHash, explorer, during>>

-----------------------------------------------------------------------------
(* The explorer and the chain.                                             *)

Answer(j) ==
  /\ job[j] = "fetching"
  /\ \E a \in Answers :
       /\ a.kind = "ok" => a.body \in {explorer[vaa[j]], NoHash}
       /\ Serve(j, a)
  /\ UNCHANGED <<wormholescan, cache, recent, job, vaa, via, sourceTxHash, explorer, during>>

Reorganise(v) ==
  /\ v \in Reorgable /\ explorer[v] <= MaxReorgs
  /\ explorer' = [explorer EXCEPT ![v] = @ + 1]
  /\ during' = [j \in Job |-> IF vaa[j] = v /\ job[j] = "fetching"
                              THEN during[j] \cup {explorer[v] + 1} ELSE during[j]]
  /\ UNCHANGED <<http, wormholescan, cache, recent, job, vaa, via, sourceTxHash>>

-----------------------------------------------------------------------------
Init ==
  /\ http = [j \in Job |-> NotCalled]
  /\ wormholescan = None
  /\ cache = [m \in Middleware |-> [v \in Vaa |-> None]]
  /\ recent = [m \in Middleware |-> <<>>]
  /\ job = [j \in Job |-> "new"]
  /\ vaa = [j \in Job |-> None]
  /\ via = [j \in Job |-> None]
  /\ sourceTxHash = [j \in Job |-> None]
  /\ explorer = [v \in Vaa |-> 1]
  /\ during = [j \in Job |-> {}]

Next ==
  \/ \E j \in Job :
       \/ NoVaa(j) \/ Found(j) \/ Waits(j) \/ Resends(j) \/ Throws(j) \/ Answer(j)
       \/ \E m \in Middleware, v \in Vaa : FromCache(j, m, v) \/ FetchVaaHash(j, m, v)
  \/ \E v \in Vaa : Reorganise(v)
  \/ (\A j \in Job : job[j] \in {"next", "thrown"}) /\ UNCHANGED vars  \* all jobs ended

Spec == Init /\ [][Next]_vars

-----------------------------------------------------------------------------
(* Properties.                                                             *)

\* source-tx.middleware.ts 82-117: the hash a pipeline goes on with is one the
\* explorer had at some moment of the job.  A hash from the cache, or from a try that
\* was overtaken by a reorganisation and by other jobs, is never older than the job.
HashIsOfThisJob ==
  \A j \in Job : sourceTxHash[j] \in Hash => sourceTxHash[j] \in during[j]

\* http-client.ts 53-82: a request is tried at most once more than the retries
\* of the client, and no wait is longer than its greatest delay, whatever the
\* server asks for.
RetriesBounded ==
  \A j \in Job : LET s == http[j].settings
                 IN  s # None =>
                       /\ http[j].retries <= s.retries
                       /\ http[j].wait <= s.maxDelay

=============================================================================
