--------------------------- MODULE SourceTxProofs ----------------------------
(***************************************************************************)
(* Theorems about SourceTx and the HTTP client under it, for any jobs,     *)
(* middlewares, options, VAAs, answers of the server and sizes of a cache. *)
(***************************************************************************)
EXTENDS SourceTx, TLAPS

SettingsSet == [retries : Nat, initialDelay : Nat, maxDelay : Nat]
HttpState == {"idle", "sent", "answered", "waiting", "done", "failed"}
Entry == [state : HttpState, settings : SettingsSet \cup {None}, retries : Nat, wait : Int,
          answer : Answers \cup {None}]
OnTheWay == {"sent", "answered", "waiting"}

\* What the proofs need of the types, and how the request of a job follows the job: one
\* that is neither idle nor over belongs to a job that fetches.
TypeInv ==
  /\ http \in [Job -> Entry]
  /\ wormholescan \in SettingsSet \cup {None}
  /\ cache \in [Middleware -> [Vaa -> Hash \cup {None}]]
  /\ job \in [Job -> {"new", "fetching", "next", "thrown"}]
  /\ vaa \in [Job -> Vaa \cup {None}] /\ via \in [Job -> Middleware \cup {None}]
  /\ sourceTxHash \in [Job -> Body \cup {None}]
  /\ explorer \in [Vaa -> Hash] /\ during \in [Job -> SUBSET Hash]
  /\ \A j \in Job :
       /\ http[j].state \in OnTheWay => job[j] = "fetching" /\ http[j].settings \in SettingsSet
       /\ http[j].state = "answered" => http[j].answer \in Answers
       /\ http[j].state = "idle" => http[j].retries = 0 /\ http[j].wait = 0
       /\ job[j] = "fetching" => vaa[j] \in Vaa /\ via[j] \in Middleware

-----------------------------------------------------------------------------
(* The operators of the client.                                            *)

\* The constructor's settings are numbers whatever options are given.
LEMMA SettingsType == \A m \in Middleware : Settings(OptsOf[m]) \in SettingsSet
BY ConstantsAssumption DEF Settings, SettingsSet

\* A wait that is made is never longer than the greatest delay: the backoff is
\* capped, and a longer Retry-After is not waited for.
LEMMA WaitBounded ==
  ASSUME NEW s \in SettingsSet, NEW h \in RetryAfter \cup {None}, ~WaitsTooLong(h, s)
  PROVE  WaitFor(h, s) \in Int /\ WaitFor(h, s) <= s.maxDelay
<1>1. 2 ^ s.retries \in Int BY DEF SettingsSet
<1>2. Backoff(s) \in Int /\ Backoff(s) <= s.maxDelay BY <1>1 DEF Backoff, SettingsSet
<1>3. CASE h \in {None, 0} BY <1>2, <1>3 DEF WaitFor
<1>4. CASE h \notin {None, 0}
  <2>1. h \in Nat BY <1>4, HeadersAssumption DEF WaitsTooLong
  <2>2. h * 1000 \in Int /\ h * 1000 <= s.maxDelay BY <1>4, <2>1 DEF WaitsTooLong, SettingsSet
  <2> QED BY <1>4, <2>2 DEF WaitFor
<1> QED BY <1>3, <1>4

\* The header of an answer is one of the server's, or none.
LEMMA HeaderType == \A a \in Answers : Header(a) \in RetryAfter \cup {None}
BY DEF Header, Answers

\* What Keep puts into the caches: the new hash, and otherwise only what was there.
LEMMA KeepKeeps ==
  ASSUME TypeInv, NEW m \in Middleware, NEW v \in Vaa, NEW h \in Hash, Keep(m, v, h)
  PROVE  /\ cache' \in [Middleware -> [Vaa -> Hash \cup {None}]]
         /\ \A n \in Middleware, u \in Vaa :
              cache'[n][u] # None => \/ cache'[n][u] = cache[n][u]
                                     \/ n = m /\ u = v /\ cache'[n][u] = h
BY DEF TypeInv, Keep

\* The request of a job that is to wait.
LEMMA RetriesShape ==
  ASSUME http \in [Job -> Entry], NEW j \in Job, Retries(j),
         WaitFor(Header(http[j].answer), http[j].settings) \in Int
  PROVE  /\ http[j].state = "answered" /\ http'[j].state = "waiting"
         /\ http'[j].settings = http[j].settings
         /\ \A i \in Job \ {j} : http'[i] = http[i]
         /\ http' \in [Job -> Entry]
<1>1. [http[j] EXCEPT !.state = "waiting", !.answer = None,
        !.wait = WaitFor(Header(http[j].answer), http[j].settings)] \in Entry
  BY DEF Entry, HttpState
<1> QED BY <1>1 DEF Retries, Entry, HttpState

\* And of one that is answered.
LEMMA ServeShape ==
  ASSUME http \in [Job -> Entry], NEW j \in Job, NEW a \in Answers, Serve(j, a)
  PROVE  /\ http[j].state = "sent" /\ http'[j].state = "answered"
         /\ http'[j].settings = http[j].settings /\ http'[j].answer = a
         /\ \A i \in Job \ {j} : http'[i] = http[i]
         /\ http' \in [Job -> Entry]
<1>1. [http[j] EXCEPT !.state = "answered", !.answer = a] \in Entry
  BY DEF Entry, HttpState
<1> QED BY <1>1 DEF Serve, Entry, HttpState

-----------------------------------------------------------------------------
(* Types.                                                                  *)

\* The initial states.
LEMMA TypeInit == ASSUME Init PROVE TypeInv
BY ConstantsAssumption DEF Init, TypeInv, Entry, NotCalled, HttpState, OnTheWay, Hash

\* Every step, one by one.
LEMMA TypeNext == ASSUME TypeInv, [Next]_vars PROVE TypeInv'
<1> USE DEF TypeInv, Entry, HttpState, OnTheWay
<1>1. ASSUME NEW j \in Job, NoVaa(j) PROVE TypeInv'
  BY <1>1 DEF NoVaa
<1>2. ASSUME NEW j \in Job, NEW m \in Middleware, NEW v \in Vaa, FromCache(j, m, v)
      PROVE TypeInv'
  BY <1>2, KeepKeeps, ConstantsAssumption DEF FromCache, Begin
<1>3. ASSUME NEW j \in Job, NEW m \in Middleware, NEW v \in Vaa, FetchVaaHash(j, m, v)
      PROVE TypeInv'
  <2>1. wormholescan' \in SettingsSet BY <1>3, SettingsType DEF FetchVaaHash, WormholescanClient
  <2> QED BY <1>3, <2>1 DEF FetchVaaHash, Begin, GetVaa, Get
<1>4. ASSUME NEW j \in Job, Found(j) PROVE TypeInv'
  <2>1. /\ http[j].answer.body \in Body /\ job[j] = "fetching"
        /\ vaa[j] \in Vaa /\ via[j] \in Middleware
    BY <1>4 DEF Found, Succeeds, Answers
  <2>2. cache' \in [Middleware -> [Vaa -> Hash \cup {None}]]
    BY <1>4, <2>1, KeepKeeps, ConstantsAssumption DEF Found, CacheUnchanged
  <2>3. http' \in [Job -> Entry] /\ http'[j].state = "done"
    BY <1>4 DEF Found, Succeeds, Ended, NotCalled
  <2> QED BY <1>4, <2>1, <2>2, <2>3 DEF Found, Succeeds
<1>5. ASSUME NEW j \in Job, Waits(j) PROVE TypeInv'
  <2>1. WaitFor(Header(http[j].answer), http[j].settings) \in Int
    BY <1>5, WaitBounded, HeaderType DEF Waits, Retries, Retried
  <2>2. Retries(j) BY <1>5 DEF Waits
  <2>3. http' \in [Job -> Entry] /\ http'[j].state = "waiting"
        /\ http'[j].settings = http[j].settings /\ http[j].state = "answered"
        /\ \A i \in Job \ {j} : http'[i] = http[i]
    <3> HIDE DEF Entry
    <3> QED BY <2>1, <2>2, RetriesShape
  <2>4. UNCHANGED <<wormholescan, cache, job, vaa, via, sourceTxHash, explorer, during>>
    BY <1>5 DEF Waits
  <2> HIDE DEF Entry
  <2> QED BY <2>3, <2>4
<1>6. ASSUME NEW j \in Job, Resends(j) PROVE TypeInv'
  BY <1>6 DEF Resends, TriesAgain
<1>7. ASSUME NEW j \in Job, Throws(j) PROVE TypeInv'
  <2>1. http' \in [Job -> Entry] /\ http'[j].state = "failed"
    BY <1>7 DEF Throws, Fails, Ended, NotCalled
  <2> QED BY <1>7, <2>1 DEF Throws, Fails
<1>8. ASSUME NEW j \in Job, Answer(j) PROVE TypeInv'
  <2>1. PICK a \in Answers : Serve(j, a) BY <1>8 DEF Answer
  <2>2. http' \in [Job -> Entry] /\ http'[j].state = "answered" /\ http'[j].answer = a
        /\ http'[j].settings = http[j].settings /\ http[j].state = "sent"
        /\ \A i \in Job \ {j} : http'[i] = http[i]
    <3> HIDE DEF Entry
    <3> QED BY <2>1, ServeShape
  <2>3. UNCHANGED <<wormholescan, cache, job, vaa, via, sourceTxHash, explorer, during>>
    BY <1>8 DEF Answer
  <2> HIDE DEF Entry
  <2> QED BY <2>2, <2>3
<1>9. ASSUME NEW v \in Vaa, Reorganise(v) PROVE TypeInv'
  BY <1>9, ConstantsAssumption DEF Reorganise, Hash
<1>10. CASE UNCHANGED vars BY <1>10 DEF vars
<1> QED BY <1>1, <1>2, <1>3, <1>4, <1>5, <1>6, <1>7, <1>8, <1>9, <1>10 DEF Next

-----------------------------------------------------------------------------
(* The retries of the client.                                              *)

\* A request that waits has a retry left: the next one stays within the bound.
BoundInv ==
  /\ TypeInv
  /\ RetriesBounded
  /\ \A j \in Job : http[j].state = "waiting" => http[j].retries < http[j].settings.retries

\* Steps that change a request: Get, Retries and TriesAgain; the others end it or
\* leave its counters alone.
LEMMA BoundNext == ASSUME BoundInv, [Next]_vars PROVE BoundInv'
<1> TypeInv' BY TypeNext DEF BoundInv
<1> USE DEF BoundInv, TypeInv, RetriesBounded, Entry, SettingsSet, OnTheWay
<1>1. ASSUME NEW j \in Job, NoVaa(j) PROVE BoundInv'
  BY <1>1 DEF NoVaa
<1>2. ASSUME NEW j \in Job, NEW m \in Middleware, NEW v \in Vaa, FromCache(j, m, v)
      PROVE BoundInv'
  BY <1>2 DEF FromCache
<1>3. ASSUME NEW j \in Job, NEW m \in Middleware, NEW v \in Vaa, FetchVaaHash(j, m, v)
      PROVE BoundInv'
  BY <1>3 DEF FetchVaaHash, GetVaa, Get
<1>4. ASSUME NEW j \in Job, Found(j) PROVE BoundInv'
  BY <1>4 DEF Found, Succeeds, Ended, NotCalled
<1>5. ASSUME NEW j \in Job, Waits(j) PROVE BoundInv'
  <2>1. WaitFor(Header(http[j].answer), http[j].settings) <= http[j].settings.maxDelay
    BY <1>5, WaitBounded, HeaderType DEF Waits, Retries, Retried
  <2> QED BY <1>5, <2>1 DEF Waits, Retries, Retried
<1>6. ASSUME NEW j \in Job, Resends(j) PROVE BoundInv'
  BY <1>6 DEF Resends, TriesAgain
<1>7. ASSUME NEW j \in Job, Throws(j) PROVE BoundInv'
  BY <1>7 DEF Throws, Fails, Ended, NotCalled
<1>8. ASSUME NEW j \in Job, Answer(j) PROVE BoundInv'
  BY <1>8 DEF Answer, Serve
<1>9. ASSUME NEW v \in Vaa, Reorganise(v) PROVE BoundInv'
  BY <1>9 DEF Reorganise
<1>10. CASE UNCHANGED vars BY <1>10 DEF vars
<1> QED BY <1>1, <1>2, <1>3, <1>4, <1>5, <1>6, <1>7, <1>8, <1>9, <1>10 DEF Next

(* A request is tried at most once more than its client's retries, and no  *)
(* wait exceeds the greatest delay (http-client.ts 53-82), whatever the    *)
(* server answers and whichever middleware made the client.                *)
THEOREM RetriesAreBounded == Spec => []RetriesBounded
<1>1. Init => BoundInv
  BY TypeInit DEF Init, BoundInv, RetriesBounded, NotCalled
<1>2. BoundInv /\ [Next]_vars => BoundInv' BY BoundNext
<1>3. BoundInv => RetriesBounded BY DEF BoundInv
<1> QED BY <1>1, <1>2, <1>3, PTL DEF Spec

-----------------------------------------------------------------------------
(* The hashes.                                                             *)

\* The chain never moves a VAA that ifVAAFinalized takes for final.
FinalStays == \A v \in Vaa : IfVAAFinalized(v) => v \notin Reorgable

\* A cached hash is what the explorer has; a job that fetches knows what the explorer
\* has, and any answer on its way is from its own time, and current if its VAA is final.
HashInv ==
  /\ TypeInv
  /\ HashIsOfThisJob
  /\ \A m \in Middleware, v \in Vaa :
       cache[m][v] # None => IfVAAFinalized(v) /\ cache[m][v] = explorer[v]
  /\ \A j \in Job :
       /\ job[j] = "fetching" => explorer[vaa[j]] \in during[j]
       /\ http[j].state = "answered" /\ http[j].answer.kind = "ok"
            => LET h == http[j].answer.body
               IN  h # NoHash => /\ h \in during[j]
                                 /\ IfVAAFinalized(vaa[j]) => h = explorer[vaa[j]]

\* Steps that matter: a job begins, is answered, finds its hash; the chain reorganises.
LEMMA HashNext == ASSUME FinalStays, HashInv, [Next]_vars PROVE HashInv'
<1> TypeInv' BY TypeNext DEF HashInv
<1> USE DEF HashInv, TypeInv, HashIsOfThisJob, Entry, OnTheWay, HttpState
<1>1. ASSUME NEW j \in Job, NoVaa(j) PROVE HashInv'
  BY <1>1 DEF NoVaa
<1>2. ASSUME NEW j \in Job, NEW m \in Middleware, NEW v \in Vaa, FromCache(j, m, v)
      PROVE HashInv'
  BY <1>2, KeepKeeps DEF FromCache, Begin
<1>3. ASSUME NEW j \in Job, NEW m \in Middleware, NEW v \in Vaa, FetchVaaHash(j, m, v)
      PROVE HashInv'
  BY <1>3 DEF FetchVaaHash, Begin, GetVaa, Get
<1>4. ASSUME NEW j \in Job, Found(j) PROVE HashInv'
  <2> DEFINE v == vaa[j]  h == http[j].answer.body
  <2>1. /\ job[j] = "fetching" /\ v \in Vaa /\ via[j] \in Middleware /\ h \in Body
        /\ h # NoHash => h \in during[j] /\ (IfVAAFinalized(v) => h = explorer[v])
    BY <1>4 DEF Found, Succeeds, Answers
  <2>2. HashIsOfThisJob'
    BY <1>4, <2>1, ConstantsAssumption DEF Found, Hash, NoHash
  <2>3. ASSUME NEW m \in Middleware, NEW u \in Vaa, cache'[m][u] # None
        PROVE  IfVAAFinalized(u) /\ cache'[m][u] = explorer'[u]
    <3>1. \/ cache[m][u] # None /\ cache'[m][u] = cache[m][u]
          \/ IfVAAFinalized(v) /\ h # NoHash /\ u = v /\ cache'[m][u] = h
      <4>1. CASE h # NoHash /\ IfVAAFinalized(v)
        <5>1. h \in Hash BY <2>1, <4>1, ConstantsAssumption
        <5>2. Keep(via[j], v, h) BY <1>4, <4>1 DEF Found
        <5> HIDE DEF h, v, HashInv, TypeInv
        <5>3. TypeInv BY DEF HashInv
        <5> QED BY <2>1, <2>3, <4>1, <5>1, <5>2, <5>3, KeepKeeps
      <4>2. CASE ~(h # NoHash /\ IfVAAFinalized(v))
        BY <1>4, <2>3, <4>2 DEF Found, CacheUnchanged
      <4> QED BY <4>1, <4>2
    <3> QED BY <1>4, <2>1, <3>1 DEF Found
  <2>4. /\ job' = [job EXCEPT ![j] = "next"] /\ UNCHANGED <<vaa, explorer, during>>
        /\ \A i \in Job \ {j} : http'[i] = http[i]
        /\ http'[j].state = "done"
    BY <1>4 DEF Found, Succeeds, Ended, NotCalled
  <2> QED BY <2>2, <2>3, <2>4
<1>5. ASSUME NEW j \in Job, Waits(j) PROVE HashInv'
  BY <1>5 DEF Waits, Retries
<1>6. ASSUME NEW j \in Job, Resends(j) PROVE HashInv'
  BY <1>6 DEF Resends, TriesAgain
<1>7. ASSUME NEW j \in Job, Throws(j) PROVE HashInv'
  BY <1>7 DEF Throws, Fails, Ended, NotCalled
<1>8. ASSUME NEW j \in Job, Answer(j) PROVE HashInv'
  BY <1>8 DEF Answer, Serve
<1>9. ASSUME NEW v \in Vaa, Reorganise(v) PROVE HashInv'
  BY <1>9 DEF Reorganise, FinalStays, IfVAAFinalized
<1>10. CASE UNCHANGED vars BY <1>10 DEF vars, IfVAAFinalized
<1> QED BY <1>1, <1>2, <1>3, <1>4, <1>5, <1>6, <1>7, <1>8, <1>9, <1>10 DEF Next

(* If the chain never moves a VAA that the code takes for final, the hash  *)
(* a pipeline goes on with (source-tx.middleware.ts 82-117) is one the     *)
(* explorer had while that job ran: the cache never serves an older one.   *)
THEOREM HashesAreFresh == ASSUME FinalStays PROVE Spec => []HashIsOfThisJob
<1>1. Init => HashInv
  BY TypeInit, ConstantsAssumption DEF Init, HashInv, HashIsOfThisJob, NotCalled
<1>2. HashInv /\ [Next]_vars => HashInv' BY HashNext
<1>3. HashInv => HashIsOfThisJob BY DEF HashInv
<1> QED BY <1>1, <1>2, <1>3, PTL DEF Spec
=============================================================================
