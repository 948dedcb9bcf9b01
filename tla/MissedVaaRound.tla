--------------------------- MODULE MissedVaaRound ---------------------------
(***************************************************************************)
(* The rounds of the missed-VAA worker over all of its filters: the loop   *)
(* of spawnMissedVaaWorker (src/relayer/middleware/missedVaasV3/worker.ts) *)
(* with its mapConcurrent over the filters, in each the mapConcurrent of   *)
(* checkForMissedVaas (check.ts) over the missing sequences, and in each   *)
(* of those the calls of tryFetchVaa (helpers.ts) over the fail-fast       *)
(* transport.  What a check does with Redis is the module MissedVaas; here *)
(* it is a step that may fail.                                             *)
(***************************************************************************)
EXTENDS MapConcurrent, FailFastTransport, FiniteSets, SequencesExt

CONSTANTS
  Filters,           \* app.filters: a sequence of emitters
  MissingOf,         \* per filter: the leaps in its sequences, at the start
  Concurrency,       \* what mapConcurrent is given for the filters
  FetchConcurrency,  \* opts.vaasFetchConcurrency
  RetryAttempts,     \* retries * wormholeRpcs.length
  MaxCuts            \* bound: responses cut off

Filter == ToSet(Filters)
Leap == UNION {MissingOf[f] : f \in Filter}
Fetch == Filter \X Leap

ASSUME RoundAssumption ==
  /\ Filters \in Seq(Filter) /\ IsInjective(Filters)
  /\ MissingOf \in [Filter -> SUBSET Nat] /\ \A f \in Filter : IsFiniteSet(MissingOf[f])
  /\ Concurrency \in Nat \ {0} /\ FetchConcurrency \in Nat \ {0}
  /\ RetryAttempts \in Nat /\ MaxCuts \in Nat
  /\ Ended \notin Filter \cup Leap

VARIABLES
  round,     \* mapConcurrent over the filters
  phase,     \* per filter: idle, reading, fetching
  missing,   \* per filter: sequences that are missing
  fetches,   \* per filter: mapConcurrent over its missing sequences
  call,      \* per fetch: none, waiting, a state of the transport, or fetched
  tries,     \* per fetch: calls that failed
  outcome,   \* per fetch of the current check: none, processed,
             \* failedToRecover or failedToReprocess
  cuts       \* responses cut off

fetchVars == <<fetches, call, tries, outcome>>
roundVars == <<round, phase, missing, fetchVars, cuts>>

Asleep == Resolved(round)

\* The filters that lanes have just taken start to read Redis.
Begun == [f \in Filter |-> IF f \in InLanes(round') \ InLanes(round) THEN "reading"
                           ELSE phase[f]]

RoundInit ==
  /\ round = Started(Filters, Concurrency)
  /\ phase = [f \in Filter |-> IF f \in InLanes(Started(Filters, Concurrency))
                               THEN "reading" ELSE "idle"]
  /\ missing = MissingOf
  /\ fetches = [f \in Filter |-> Started(<<>>, FetchConcurrency)]
  /\ call = [x \in Fetch |-> "none"] /\ tries = [x \in Fetch |-> 0]
  /\ outcome = [x \in Fetch |-> "none"]
  /\ cuts = 0

\* The sleep between two rounds is over.
StartRound ==
  /\ Asleep
  /\ round' = Started(Filters, Concurrency)
  /\ phase' = Begun
  /\ UNCHANGED <<missing, fetchVars, cuts>>

\* The callback of redisPool.use returns, with or without an error: both are
\* caught.  The lane takes the next filter.
CheckEnds(f) ==
  /\ round' = FnReturned(round, LaneOf(round, f))
  /\ phase' = [Begun EXCEPT ![f] = "idle"]

\* A read or write of Redis rejects before or after the fetches.
CheckFails(f) ==
  /\ \/ phase[f] = "reading"
     \/ phase[f] = "fetching" /\ Resolved(fetches[f])
  /\ CheckEnds(f)
  /\ outcome' = [x \in Fetch |-> IF x[1] = f THEN "none" ELSE outcome[x]]
  /\ UNCHANGED <<missing, fetches, call, tries, cuts>>

\* A fetch that a lane has just taken is on its way to the first call.
FirstCalls(f) ==
  [x \in Fetch |-> IF x[1] = f /\ x[2] \in InLanes(fetches'[f]) /\ outcome'[x] = "none"
                      /\ call[x] = "none"
                   THEN "waiting" ELSE call[x]]

\* scanForSequenceLeaps returns the leaps in ascending order.
Ascending(S) ==
  [i \in 1..Cardinality(S) |-> CHOOSE s \in S : Cardinality({t \in S : t < s}) = i - 1]

\* The sequences are known and scanned for leaps.
Scan(f) ==
  /\ phase[f] = "reading"
  /\ phase' = [phase EXCEPT ![f] = "fetching"]
  /\ fetches' = [fetches EXCEPT ![f] = Started(Ascending(missing[f]), FetchConcurrency)]
  /\ UNCHANGED <<round, missing, tries, outcome, cuts>>
  /\ call' = FirstCalls(f)

-----------------------------------------------------------------------------
(* One fetch: tryFetchVaa, and processVaa with what it returned.           *)

Moves(x, to) ==
  /\ call' = [call EXCEPT ![x] = to]
  /\ UNCHANGED <<round, phase, missing, fetches, tries, outcome>>

\* The delay before a call is over: start, sendMessage.
Send(x) == call[x] = "waiting" /\ Moves(x, "sent") /\ UNCHANGED cuts

Responds(x) == \E at \in ResponseEvents(call[x]) : Moves(x, at) /\ UNCHANGED cuts

TimesOut(x) == \E at \in OnTimeout(call[x]) : Moves(x, at) /\ UNCHANGED cuts

IsCutOff(x) ==
  /\ cuts < MaxCuts /\ cuts' = cuts + 1
  /\ \E at \in CutOff(call[x]) : Moves(x, at)

\* fn of the lane resolves with x counted as o.
FetchEnds(x, o) ==
  /\ outcome' = [outcome EXCEPT ![x] = o]
  /\ fetches' = [fetches EXCEPT ![x[1]] = FnReturned(@, LaneOf(@, x[2]))]
  /\ tries' = [tries EXCEPT ![x] = 0]
  /\ call' = [FirstCalls(x[1]) EXCEPT ![x] = "none"]
  /\ UNCHANGED <<round, phase, missing, cuts>>

\* Mutant: the first failed call is not tried again.
CallFailsAtOnce(x) ==
  /\ ErrorEnds(call[x]) \/ ResponseEnds(call[x])
  /\ FetchEnds(x, "failedToRecover")

\* onEnd with an error, or with a response that is not the VAA: the next call
\* after a delay, or no more of them.
CallFails(x) ==
  /\ ErrorEnds(call[x]) \/ ResponseEnds(call[x])
  /\ IF tries[x] < RetryAttempts
     THEN /\ tries' = [tries EXCEPT ![x] = @ + 1]
          /\ call' = [call EXCEPT ![x] = "waiting"]
          /\ UNCHANGED <<round, phase, missing, fetches, outcome, cuts>>
     ELSE FetchEnds(x, "failedToRecover")

\* onEnd() after a message: the VAA.
CallSucceeds(x) ==
  /\ call[x] = "body" /\ ResponseEnds(call[x])
  /\ Moves(x, "fetched") /\ UNCHANGED cuts

\* processVaa resolves or rejects.
ProcessVaa(x) ==
  /\ call[x] = "fetched"
  /\ \E o \in {"processed", "failedToReprocess"} : FetchEnds(x, o)

\* batchMarkAsSeen gets the sequences that were processed.  Those that could not be
\* fetched are added to the failed set only: the next scan finds them missing again.
MarkedSeen(f) == {s \in Leap : outcome[<<f, s>>] = "processed"}

\* The rest of the check: the look-ahead, what it marks in Redis, the safe
\* sequence.
CheckSucceeds(f) ==
  /\ phase[f] = "fetching" /\ Resolved(fetches[f])
  /\ CheckEnds(f)
  /\ missing' = [missing EXCEPT ![f] = @ \ MarkedSeen(f)]
  /\ outcome' = [x \in Fetch |-> IF x[1] = f THEN "none" ELSE outcome[x]]
  /\ UNCHANGED <<fetches, call, tries, cuts>>

-----------------------------------------------------------------------------
FetchStep(x) ==
  Send(x) \/ Responds(x) \/ TimesOut(x) \/ IsCutOff(x) \/ CallFails(x)
  \/ CallSucceeds(x) \/ ProcessVaa(x)

CheckStep(f) == Scan(f) \/ CheckFails(f) \/ CheckSucceeds(f)

RoundNext ==
  \/ StartRound
  \/ \E f \in Filter : CheckStep(f)
  \/ \E x \in Fetch : FetchStep(x)

RoundSpec == RoundInit /\ [][RoundNext]_roundVars

\* Timers fire, what was destroyed reports its error, Redis and processVaa
\* settle.  That an RPC answers or refuses is not assumed.
Due(x) ==
  Send(x) \/ TimesOut(x) \/ (call[x] = "destroyed" /\ CallFails(x)) \/ ProcessVaa(x)

FairRoundSpec ==
  /\ RoundSpec
  /\ WF_roundVars(StartRound)
  /\ \A f \in Filter : WF_roundVars(CheckStep(f))
  /\ \A x \in Fetch : WF_roundVars(Due(x))

-----------------------------------------------------------------------------
\* What the rest of a check relies on: once mapConcurrent has resolved, every
\* missing sequence of the filter has an outcome, and no call for it goes on.
AllHaveOutcomes ==
  \A f \in Filter : phase[f] = "fetching" /\ Resolved(fetches[f]) =>
    \A s \in missing[f] : outcome[<<f, s>>] # "none" /\ call[<<f, s>>] = "none"

\* A check gives a sequence up for this round, and counts it as failed to recover, only
\* when the last of RetryAttempts + 1 calls has failed: not after an earlier one, not
\* while a call is still on its way or was cut off, and not because processVaa rejected.
GivenUpAfterAllTries ==
  [][\A x \in Fetch :
       outcome'[x] = "failedToRecover" /\ outcome[x] = "none" =>
         tries[x] = RetryAttempts /\ call[x] \in CallAt \ {"cut"}]_roundVars

\* A round ends unless the response to one of its calls was cut off.
RoundsEnd == []<>(Asleep \/ \E x \in Fetch : call[x] = "cut")

\* Each check's mapConcurrent works on every missing sequence once, on no more
\* than the bound at a time, and leaves no lane idle while a sequence waits.
ForEach == INSTANCE BoundedForEach WITH
  Group <- Filter, Task <- Leap, Bound <- FetchConcurrency,
  todo <- [f \in Filter |-> Waiting(fetches[f])],
  busy <- [f \in Filter |-> InLanes(fetches[f])]

FetchesEachOnce == ForEach!FSpec
=============================================================================
