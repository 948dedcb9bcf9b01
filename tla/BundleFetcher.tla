---------------------------- MODULE BundleFetcher ----------------------------
(***************************************************************************)
(* The VAA bundle fetcher (src/relayer/bundle-fetcher.helper.ts): builds   *)
(* the set of VAAs that a list of ids names, by fetching those it lacks    *)
(* until it has all of them.                                               *)
(*                                                                         *)
(* One fetcher: its application may await build() several times, add VAAs  *)
(* it got elsewhere, and store the fetcher and build another one from what *)
(* was stored.  RelayerApp.fetchVaas (src/relayer/application.ts) makes a  *)
(* fetcher for one build().  An id stands for its key in the records.      *)
(***************************************************************************)
EXTENDS Naturals, FiniteSets

CONSTANTS
  Vaa,           \* keys of VAAs
  vaaIds,        \* opts.vaaIds: those the bundle is made of
  Build,         \* calls of build()
  givenAttempts, \* maxAttempts the caller gives: a number or Undefined
  Undefined,
  MaxFailures,   \* bound: fetches that fail although the VAA exists
  MaxRestores    \* bound: fetchers restored from storage

ASSUME ConstantsAssumption ==
  /\ IsFiniteSet(Vaa) /\ vaaIds \subseteq Vaa
  /\ givenAttempts \in Nat \cup {Undefined}
  /\ MaxFailures \in Nat /\ MaxRestores \in Nat

VARIABLES
  fetchedVaas, pendingVaas, fetchErrors, \* keys of the three records
  maxAttempts, \* opts.maxAttempts
  build,       \* per call of build(): state, fetches under way, VAAs got, outcome
  stored,      \* the VAAs of the last serialize(), or Undefined
  signed,      \* VAAs the guardians have
  failures, restores

fetcher == <<fetchedVaas, pendingVaas, fetchErrors, maxAttempts>>
vars == <<fetcher, build, stored, signed, failures, restores>>

defaultAttempts == 10
Entry(state, waits, result) ==
  [state |-> state, waits |-> waits, got |-> {}, result |-> result]
NotCalled == Entry("new", {}, {})
isComplete == pendingVaas = {}
Settled(b) == build[b].state \in {"resolved", "rejected"}

-----------------------------------------------------------------------------
(* build() and fetchPending()                                              *)

\* fetchPending up to its await: one fetchVaa per VAA pending now.
StartFetch(b) ==
  build' = [build EXCEPT ![b] = Entry("fetching", pendingVaas, {})]

Resolve(b, vaas) ==
  build' = [build EXCEPT ![b] = Entry("resolved", {}, vaas)]

\* Mutant: a build that wakes up when another one has completed the bundle.
FetchPendingIncomplete(b) ==
  /\ build[b].state \in {"new", "sleeping"} /\ ~isComplete
  /\ StartFetch(b)
  /\ UNCHANGED <<fetcher, stored, signed, failures, restores>>

\* build is called, or its sleep ends: both go on with isComplete.
FetchPending(b) ==
  /\ build[b].state \in {"new", "sleeping"}
  /\ IF isComplete THEN Resolve(b, fetchedVaas) ELSE StartFetch(b)
  /\ UNCHANGED <<fetcher, stored, signed, failures, restores>>

FetchSucceeds(b, v) ==
  /\ v \in build[b].waits /\ v \in signed
  /\ build' = [build EXCEPT ![b].waits = @ \ {v}, ![b].got = @ \cup {v}]
  /\ UNCHANGED <<fetcher, stored, signed, failures, restores>>

\* Mutant: an error replaces the one of another VAA.
FetchFailsLast(b, v) ==
  /\ v \in build[b].waits
  /\ \/ v \notin signed /\ UNCHANGED failures
     \/ failures < MaxFailures /\ failures' = failures + 1
  /\ fetchErrors' = {v}
  /\ build' = [build EXCEPT ![b].waits = @ \ {v}]
  /\ UNCHANGED <<fetchedVaas, pendingVaas, maxAttempts, stored, signed, restores>>

\* The error is kept; the others are awaited all the same.
FetchFails(b, v) ==
  /\ v \in build[b].waits
  /\ \/ v \notin signed /\ UNCHANGED failures
     \/ failures < MaxFailures /\ failures' = failures + 1
  /\ fetchErrors' = fetchErrors \cup {v}
  /\ build' = [build EXCEPT ![b].waits = @ \ {v}]
  /\ UNCHANGED <<fetchedVaas, pendingVaas, maxAttempts, stored, signed, restores>>

\* Whether the loop of build goes round again: `attempts` stays 0, and a comparison
\* with undefined is false.
GoesOn == maxAttempts # Undefined /\ maxAttempts > 0

\* Mutant: a fetch that got something is taken for a complete one.
EndFetchOfAny(b) ==
  LET got == build[b].got
  IN  /\ build[b].state = "fetching" /\ build[b].waits = {} /\ got # {}
      /\ pendingVaas' = pendingVaas \ got
      /\ fetchedVaas' = fetchedVaas \cup got
      /\ Resolve(b, fetchedVaas')
      /\ UNCHANGED <<fetchErrors, maxAttempts, stored, signed, failures, restores>>

\* Promise.all resolved: the VAAs got are added, and build goes on with isComplete.
EndFetch(b) ==
  LET got == build[b].got
  IN  /\ build[b].state = "fetching" /\ build[b].waits = {}
      /\ pendingVaas' = pendingVaas \ got
      /\ fetchedVaas' = fetchedVaas \cup got
      /\ \/ pendingVaas' = {} /\ Resolve(b, fetchedVaas')
         \/ /\ pendingVaas' # {}
            /\ build' = [build EXCEPT ![b] =
                 IF GoesOn THEN Entry("sleeping", {}, {})
                           ELSE Entry("rejected", {}, fetchErrors)]
      /\ UNCHANGED <<fetchErrors, maxAttempts, stored, signed, failures, restores>>

-----------------------------------------------------------------------------
(* What else the application does.                                         *)

\* Mutant: the VAA stays pending.
AddVaaPayloadOnly(v) ==
  /\ v \in signed
  /\ fetchedVaas' = fetchedVaas \cup {v}
  /\ UNCHANGED <<pendingVaas, fetchErrors, maxAttempts, build, stored, signed,
                 failures, restores>>

AddVaaPayload(v) ==
  /\ v \in signed
  /\ pendingVaas' = pendingVaas \ {v}
  /\ fetchedVaas' = fetchedVaas \cup {v}
  /\ UNCHANGED <<fetchErrors, maxAttempts, build, stored, signed, failures, restores>>

Serialize ==
  /\ stored' = fetchedVaas
  /\ UNCHANGED <<fetcher, build, signed, failures, restores>>

\* Mutant: the ids are taken for the VAAs.
DeserializeIds ==
  /\ stored # Undefined /\ restores < MaxRestores
  /\ restores' = restores + 1
  /\ pendingVaas' = vaaIds \cap stored
  /\ fetchedVaas' = vaaIds
  /\ fetchErrors' = {} /\ maxAttempts' = defaultAttempts
  /\ build' = [b \in Build |-> NotCalled]
  /\ UNCHANGED <<stored, signed, failures>>

\* deserialize: the number of attempts is not stored, the default is taken.  Calls
\* of the fetcher that was stored are gone with its process.
Deserialize ==
  /\ stored # Undefined /\ restores < MaxRestores
  /\ restores' = restores + 1
  /\ pendingVaas' = vaaIds \ stored
  /\ fetchedVaas' = stored
  /\ fetchErrors' = {}
  /\ maxAttempts' = defaultAttempts
  /\ build' = [b \in Build |-> NotCalled]
  /\ UNCHANGED <<stored, signed, failures>>

\* The guardians sign a VAA.
Sign(v) ==
  /\ v \in Vaa \ signed
  /\ signed' = signed \cup {v}
  /\ UNCHANGED <<fetcher, build, stored, failures, restores>>

-----------------------------------------------------------------------------
Init ==
  /\ fetchedVaas = {} /\ pendingVaas = vaaIds /\ fetchErrors = {}
  /\ maxAttempts = givenAttempts
  /\ build = [b \in Build |-> NotCalled]
  /\ stored = Undefined
  /\ signed \in SUBSET Vaa
  /\ failures = 0 /\ restores = 0

Step(b) == \/ FetchPending(b) \/ EndFetch(b)
           \/ \E v \in Vaa : FetchSucceeds(b, v) \/ FetchFails(b, v)

Next == \/ \E b \in Build : Step(b)
        \/ \E v \in Vaa : AddVaaPayload(v) \/ Sign(v)
        \/ Serialize \/ Deserialize

Spec == Init /\ [][Next]_vars
\* Fetches settle, timers go off.  Nothing is assumed of the guardians.
FairSpec == Spec /\ \A b \in Build : WF_vars(Step(b))

-----------------------------------------------------------------------------
(* Properties.                                                             *)

TypeOK ==
  /\ fetchedVaas \subseteq signed /\ pendingVaas \subseteq vaaIds
  /\ fetchErrors \subseteq vaaIds
  /\ maxAttempts \in {givenAttempts, defaultAttempts}
  /\ build \in [Build -> [state : {"new", "fetching", "sleeping", "resolved", "rejected"},
                          waits : SUBSET vaaIds, got : SUBSET vaaIds,
                          result : SUBSET Vaa]]
  /\ stored = Undefined \/ stored \subseteq signed

\* bundle-fetcher.helper.ts 98-112: a build that resolves has every VAA of the
\* bundle, whoever added the last of them: this build, another, the application.
ResolvedHasAll == \A b \in Build : build[b].state = "resolved" => vaaIds \subseteq build[b].result

\* bundle-fetcher.helper.ts 104-108: a build rejects with an error for every VAA
\* that is missing then.
RejectedTellsWhy ==
  [][\A b \in Build : ~Settled(b) /\ build'[b].state = "rejected"
                        => pendingVaas' \subseteq build'[b].result]_vars

\* bundle-fetcher.helper.ts 66-87: a VAA is either had or still asked for, and one
\* that was stored is never asked for again.
NothingLost ==
  /\ fetchedVaas \cap pendingVaas = {} /\ vaaIds \subseteq fetchedVaas \cup pendingVaas
  /\ stored # Undefined => stored \cap pendingVaas = {}

\* A build with attempts resolves once the guardians have all its VAAs, or is lost
\* with its process.
BuildResolves ==
  \A b \in Build :
    (build[b].state = "sleeping" /\ vaaIds \subseteq signed)
      ~> build[b].state \in {"resolved", "new"}
=============================================================================
