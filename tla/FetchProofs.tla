----------------------------- MODULE FetchProofs -----------------------------
(***************************************************************************)
(* Theorems about the two components that fetch VAAs again and again until *)
(* they have them or give up.  BundleFetcher: for any sets of VAAs and     *)
(* builds, any number of attempts, failures and restored fetchers.         *)
(* MissedVaaRound: for any filters and leaps, any number of lanes, tries   *)
(* and responses cut off.                                                  *)
(***************************************************************************)
EXTENDS BundleFetcher, MissedVaaRound, FiniteSetTheorems, TLAPS

-----------------------------------------------------------------------------
(* The bundle fetcher.                                                     *)

\* What a build has got in its current round exists.
TypeInv ==
  /\ TypeOK
  /\ signed \subseteq Vaa
  /\ \A b \in Build : build[b].got \subseteq signed

\* While a build fetches, every VAA that is still pending is awaited by it, got by
\* it, or has its error kept.
PendingAccounted ==
  \A b \in Build : build[b].state = "fetching"
                     => pendingVaas \subseteq build[b].waits \cup build[b].got \cup fetchErrors

BundleInv == TypeInv /\ NothingLost /\ ResolvedHasAll /\ PendingAccounted

-----------------------------------------------------------------------------
(* TypeOK is not inductive by itself: what a round got must exist.         *)

\* What entering fetchPending leaves behind: a build that resolved, or one that fetches.
LEMMA FetchPendingShape ==
  ASSUME TypeInv, NEW b \in Build, FetchPending(b)
  PROVE  /\ UNCHANGED <<fetcher, stored, signed, failures, restores>>
         /\ \/ /\ pendingVaas = {}
               /\ build' = [build EXCEPT ![b] =
                    [state |-> "resolved", waits |-> {}, got |-> {}, result |-> fetchedVaas]]
            \/ build' = [build EXCEPT ![b] =
                 [state |-> "fetching", waits |-> pendingVaas, got |-> {}, result |-> {}]]
BY DEF Entry, FetchPending, StartFetch, Resolve, isComplete

\* What the end of a round leaves behind: a build that resolved, sleeps or rejected.
LEMMA EndFetchShape ==
  ASSUME TypeInv, NEW b \in Build, EndFetch(b)
  PROVE  /\ build[b].state = "fetching" /\ build[b].waits = {}
         /\ pendingVaas' = pendingVaas \ build[b].got
         /\ fetchedVaas' = fetchedVaas \cup build[b].got
         /\ UNCHANGED <<fetchErrors, maxAttempts, stored, signed, failures, restores>>
         /\ \/ /\ pendingVaas' = {}
               /\ build' = [build EXCEPT ![b] =
                    [state |-> "resolved", waits |-> {}, got |-> {}, result |-> fetchedVaas']]
            \/ build' = [build EXCEPT ![b] =
                 [state |-> "sleeping", waits |-> {}, got |-> {}, result |-> {}]]
            \/ build' = [build EXCEPT ![b] =
                 [state |-> "rejected", waits |-> {}, got |-> {}, result |-> fetchErrors]]
BY DEF Entry, EndFetch, Resolve

\* The initial states.
LEMMA TypeInit == ASSUME Init PROVE TypeInv
BY ConstantsAssumption DEF Init, TypeInv, TypeOK, NotCalled, Entry

\* Every step keeps the types.
LEMMA TypeNext == ASSUME TypeInv, [Next]_vars PROVE TypeInv'
<1> USE ConstantsAssumption DEF TypeInv, TypeOK, NotCalled, Entry, fetcher
<1>1. ASSUME NEW b \in Build, FetchPending(b) PROVE TypeInv'
  BY <1>1, FetchPendingShape
<1>2. ASSUME NEW b \in Build, NEW v \in Vaa, FetchSucceeds(b, v) PROVE TypeInv'
  BY <1>2 DEF FetchSucceeds
<1>3. ASSUME NEW b \in Build, NEW v \in Vaa, FetchFails(b, v) PROVE TypeInv'
  BY <1>3 DEF FetchFails
<1>4. ASSUME NEW b \in Build, EndFetch(b) PROVE TypeInv'
  BY <1>4, EndFetchShape
<1>5. ASSUME NEW v \in Vaa, AddVaaPayload(v) PROVE TypeInv'
  BY <1>5 DEF AddVaaPayload
<1>6. CASE Serialize BY <1>6 DEF Serialize
<1>7. CASE Deserialize BY <1>7 DEF Deserialize
<1>8. ASSUME NEW v \in Vaa, Sign(v) PROVE TypeInv'
  BY <1>8 DEF Sign
<1>9. CASE UNCHANGED vars BY <1>9 DEF vars
<1> QED BY <1>1, <1>2, <1>3, <1>4, <1>5, <1>6, <1>7, <1>8, <1>9 DEF Next, Step

(* The records of the fetcher keep the shapes TypeOK gives them            *)
(* (bundle-fetcher.helper.ts 36-58): what it holds exists, what it asks for *)
(* and what failed belongs to the bundle.                                  *)
THEOREM TypeCorrect == Spec => []TypeOK
<1>1. Init => TypeInv BY TypeInit
<1>2. TypeInv /\ [Next]_vars => TypeInv' BY TypeNext
<1>3. TypeInv => TypeOK BY DEF TypeInv
<1> QED BY <1>1, <1>2, <1>3, PTL DEF Spec

-----------------------------------------------------------------------------
(* The bundle.                                                             *)

\* The initial states.
LEMMA BundleInit == ASSUME Init PROVE BundleInv
BY TypeInit, ConstantsAssumption
   DEF Init, BundleInv, NothingLost, ResolvedHasAll, PendingAccounted, NotCalled, Entry

\* Every step keeps NothingLost: a VAA leaves the pending ones as it joins those had.
LEMMA LostNext == ASSUME BundleInv, [Next]_vars PROVE NothingLost'
<1> USE DEF BundleInv, NothingLost, fetcher
<1>1. ASSUME NEW b \in Build, FetchPending(b) PROVE NothingLost'
  BY <1>1 DEF FetchPending
<1>2. ASSUME NEW b \in Build, NEW v \in Vaa, FetchSucceeds(b, v) \/ FetchFails(b, v)
      PROVE NothingLost'
  BY <1>2 DEF FetchSucceeds, FetchFails
<1>3. ASSUME NEW b \in Build, EndFetch(b) PROVE NothingLost'
  BY <1>3 DEF EndFetch
<1>4. ASSUME NEW v \in Vaa, AddVaaPayload(v) PROVE NothingLost'
  BY <1>4 DEF AddVaaPayload
<1>5. CASE Serialize BY <1>5 DEF Serialize
<1>6. CASE Deserialize BY <1>6 DEF Deserialize
<1>7. ASSUME NEW v \in Vaa, Sign(v) PROVE NothingLost'
  BY <1>7 DEF Sign
<1>8. CASE UNCHANGED vars BY <1>8 DEF vars
<1> QED BY <1>1, <1>2, <1>3, <1>4, <1>5, <1>6, <1>7, <1>8 DEF Next, Step

\* A build resolves when nothing is pending, and then NothingLost says that all is had.
LEMMA ResolvedNext == ASSUME BundleInv, [Next]_vars PROVE ResolvedHasAll'
<1> USE DEF BundleInv, TypeInv, TypeOK, ResolvedHasAll, NotCalled, Entry
<1>1. ASSUME NEW b \in Build, FetchPending(b) PROVE ResolvedHasAll'
  BY <1>1, FetchPendingShape DEF NothingLost
<1>2. ASSUME NEW b \in Build, NEW v \in Vaa, FetchSucceeds(b, v) \/ FetchFails(b, v)
      PROVE ResolvedHasAll'
  BY <1>2 DEF FetchSucceeds, FetchFails
<1>3. ASSUME NEW b \in Build, EndFetch(b) PROVE ResolvedHasAll'
  <2>1. NothingLost' BY <1>3, LostNext DEF Next, Step
  <2> QED BY <1>3, <2>1, EndFetchShape DEF NothingLost
<1>4. ASSUME NEW v \in Vaa, AddVaaPayload(v) \/ Sign(v) PROVE ResolvedHasAll'
  BY <1>4 DEF AddVaaPayload, Sign
<1>5. CASE Serialize BY <1>5 DEF Serialize
<1>6. CASE Deserialize BY <1>6 DEF Deserialize
<1>7. CASE UNCHANGED vars BY <1>7 DEF vars
<1> QED BY <1>1, <1>2, <1>3, <1>4, <1>5, <1>6, <1>7 DEF Next, Step

\* What is pending only shrinks while a build runs, whoever completes it.
LEMMA AccountedNext == ASSUME BundleInv, [Next]_vars PROVE PendingAccounted'
<1> USE DEF BundleInv, TypeInv, TypeOK, PendingAccounted, NotCalled, Entry, fetcher
<1>1. ASSUME NEW b \in Build, FetchPending(b) PROVE PendingAccounted'
  BY <1>1, FetchPendingShape
<1>2. ASSUME NEW b \in Build, NEW v \in Vaa, FetchSucceeds(b, v) PROVE PendingAccounted'
  BY <1>2 DEF FetchSucceeds
<1>3. ASSUME NEW b \in Build, NEW v \in Vaa, FetchFails(b, v) PROVE PendingAccounted'
  BY <1>3 DEF FetchFails
<1>4. ASSUME NEW b \in Build, EndFetch(b) PROVE PendingAccounted'
  BY <1>4, EndFetchShape
<1>5. ASSUME NEW v \in Vaa, AddVaaPayload(v) \/ Sign(v) PROVE PendingAccounted'
  BY <1>5 DEF AddVaaPayload, Sign
<1>6. CASE Serialize BY <1>6 DEF Serialize
<1>7. CASE Deserialize BY <1>7 DEF Deserialize
<1>8. CASE UNCHANGED vars BY <1>8 DEF vars
<1> QED BY <1>1, <1>2, <1>3, <1>4, <1>5, <1>6, <1>7, <1>8 DEF Next, Step

\* The parts together are inductive.
LEMMA BundleNext == BundleInv /\ [Next]_vars => BundleInv'
BY TypeNext, LostNext, ResolvedNext, AccountedNext DEF BundleInv

\* The inductive invariant holds throughout.
LEMMA BundleAlways == Spec => []BundleInv
BY BundleInit, BundleNext, PTL DEF Spec

(* However builds overlap with each other and with VAAs the application    *)
(* adds, no VAA of the bundle is dropped or asked for again once stored    *)
(* (bundle-fetcher.helper.ts 66-87).                                       *)
THEOREM BundleIsKept == Spec => []NothingLost
<1>1. BundleInv => NothingLost BY DEF BundleInv
<1> QED BY <1>1, BundleAlways, PTL

(* A build that resolves has every VAA of the bundle                       *)
(* (bundle-fetcher.helper.ts 93-110).                                      *)
THEOREM ResolvedIsComplete == Spec => []ResolvedHasAll
<1>1. BundleInv => ResolvedHasAll BY DEF BundleInv
<1> QED BY <1>1, BundleAlways, PTL

(* A build that rejects has an error for every VAA missing then            *)
(* (bundle-fetcher.helper.ts 104-108), also when another build failed to   *)
(* fetch it.                                                               *)
THEOREM RejectionIsExplained == Spec => RejectedTellsWhy
<1> DEFINE Explained ==
      \A b \in Build : ~Settled(b) /\ build'[b].state = "rejected"
                         => pendingVaas' \subseteq build'[b].result
<1>1. BundleInv /\ [Next]_vars => [Explained]_vars
  <2> SUFFICES ASSUME BundleInv, Next PROVE Explained OBVIOUS
  <2> USE DEF BundleInv, TypeInv, TypeOK, NotCalled, Entry, Settled
  <2>1. ASSUME NEW b \in Build, EndFetch(b) PROVE Explained
    BY <2>1, EndFetchShape DEF PendingAccounted
  <2>2. ASSUME NEW b \in Build, FetchPending(b) PROVE Explained
    BY <2>2, FetchPendingShape
  <2>3. ASSUME NEW b \in Build, NEW v \in Vaa, FetchSucceeds(b, v) \/ FetchFails(b, v)
        PROVE Explained
    BY <2>3 DEF FetchSucceeds, FetchFails
  <2>4. ASSUME NEW v \in Vaa, AddVaaPayload(v) \/ Sign(v) PROVE Explained
    BY <2>4 DEF AddVaaPayload, Sign
  <2>5. CASE Serialize BY <2>5 DEF Serialize
  <2>6. CASE Deserialize BY <2>6 DEF Deserialize
  <2> QED BY <2>1, <2>2, <2>3, <2>4, <2>5, <2>6 DEF Next, Step
<1> QED BY <1>1, BundleAlways, PTL DEF Spec, RejectedTellsWhy

-----------------------------------------------------------------------------
(* mapConcurrent, for any arguments and any number of lanes.               *)

\* The state of a mapConcurrent over arguments from T with c lanes: no argument
\* is in two places, and while one waits no lane has ended.
MapOK(m, T, c) ==
  /\ m \in [pendingArgs : Seq(T), lane : [1..c -> T \cup {Ended}]]
  /\ \A k, l \in 1..c : m.lane[k] # Ended /\ m.lane[k] = m.lane[l] => k = l
  /\ \A i, j \in 1..Len(m.pendingArgs) : m.pendingArgs[i] = m.pendingArgs[j] => i = j
  /\ \A l \in 1..c : \A i \in 1..Len(m.pendingArgs) : m.lane[l] # m.pendingArgs[i]
  /\ m.pendingArgs # <<>> => \A l \in 1..c : m.lane[l] # Ended

\* Its two sets of arguments, by index.
LEMMA MapSets ==
  ASSUME NEW T, NEW c \in Nat \ {0}, NEW m, MapOK(m, T, c), Ended \notin T
  PROVE  /\ \A x : x \in InLanes(m) <=> x # Ended /\ \E l \in 1..c : m.lane[l] = x
         /\ \A x : x \in Waiting(m) <=> \E i \in 1..Len(m.pendingArgs) : m.pendingArgs[i] = x
         /\ InLanes(m) \subseteq T /\ Waiting(m) \subseteq T
         /\ InLanes(m) \cap Waiting(m) = {}
<1>1. DOMAIN m.lane = 1..c /\ DOMAIN m.pendingArgs = 1..Len(m.pendingArgs)
  BY DEF MapOK
<1>2. \A i \in 1..Len(m.pendingArgs) : m.pendingArgs[i] \in T
  BY DEF MapOK
<1>3. \A l \in 1..c : m.lane[l] \in T \cup {Ended}
  BY DEF MapOK
<1> QED BY <1>1, <1>2, <1>3 DEF MapOK, InLanes, Waiting

\* It has resolved exactly if nothing is left anywhere.
LEMMA ResolvedIsEmpty ==
  ASSUME NEW T, NEW c \in Nat \ {0}, NEW m, MapOK(m, T, c), Ended \notin T
  PROVE  /\ Resolved(m) <=> InLanes(m) = {}
         /\ Resolved(m) => m.pendingArgs = <<>> /\ Waiting(m) = {}
<1>1. DOMAIN m.lane = 1..c
  BY DEF MapOK
<1>2. Resolved(m) => m.pendingArgs = <<>>
  BY <1>1, 1 \in 1..c DEF MapOK, Resolved
<1>3. Resolved(m) <=> InLanes(m) = {}
  BY <1>1 DEF Resolved, InLanes
<1> QED BY <1>2, <1>3 DEF Waiting

\* A call begins with every argument in one place.
LEMMA StartedOK ==
  ASSUME NEW T, Ended \notin T, NEW c \in Nat \ {0}, NEW s \in Seq(T),
         \A i, j \in 1..Len(s) : s[i] = s[j] => i = j
  PROVE  /\ MapOK(Started(s, c), T, c)
         /\ InLanes(Started(s, c)) \cup Waiting(Started(s, c)) = {s[i] : i \in 1..Len(s)}
<1> DEFINE m == Started(s, c)
<1>1. /\ m.pendingArgs = SubSeq(s, c + 1, Len(s))
      /\ m.lane = [l \in 1..c |-> IF l <= Len(s) THEN s[l] ELSE Ended]
      /\ m = [pendingArgs |-> m.pendingArgs, lane |-> m.lane]
  BY DEF Started
<1>2. /\ Len(s) \in Nat
      /\ \A i \in 1..Len(s) : s[i] \in T
  OBVIOUS
<1>3. CASE Len(s) <= c
  <2>1. m.pendingArgs = <<>>
    BY <1>1, <1>2, <1>3
  <2>2. \A l \in 1..c : m.lane[l] = IF l <= Len(s) THEN s[l] ELSE Ended
    BY <1>1
  <2>3. m.lane \in [1..c -> T \cup {Ended}]
    BY <1>1, <1>2
  <2>4. MapOK(m, T, c)
    BY <1>1, <1>2, <2>1, <2>2, <2>3 DEF MapOK
  <2>5. Waiting(m) = {}
    BY <2>1 DEF Waiting
  <2>6. \A x : x \in InLanes(m) <=> x # Ended /\ \E l \in 1..c : m.lane[l] = x
    BY <2>4, MapSets
  <2>7. \A x : x \in InLanes(m) <=> \E i \in 1..Len(s) : s[i] = x
    BY <2>6, <2>2, <1>2, <1>3
  <2> QED BY <2>4, <2>5, <2>7
<1>4. CASE Len(s) > c
  <2>1. /\ m.pendingArgs \in Seq(T)
        /\ Len(m.pendingArgs) = Len(s) - c
        /\ \A i \in 1..Len(m.pendingArgs) : m.pendingArgs[i] = s[i + c]
    BY <1>1, <1>2, <1>4
  <2>2. \A l \in 1..c : m.lane[l] = s[l]
    BY <1>1, <1>2, <1>4
  <2>3. m.lane \in [1..c -> T \cup {Ended}]
    BY <1>1, <1>2
  <2>4. \A i \in 1..Len(m.pendingArgs) : i + c \in 1..Len(s)
    BY <2>1, <1>2
  <2>5. \A l \in 1..c : l \in 1..Len(s) /\ s[l] # Ended
    BY <1>2, <1>4
  <2>6. m \in [pendingArgs : Seq(T), lane : [1..c -> T \cup {Ended}]]
    BY <1>1, <2>1, <2>3
  <2>7. \A k, l \in 1..c : m.lane[k] = m.lane[l] => k = l
    BY <2>2, <2>5
  <2>8. \A i, j \in 1..Len(m.pendingArgs) : m.pendingArgs[i] = m.pendingArgs[j] => i = j
    <3> SUFFICES ASSUME NEW i \in 1..Len(m.pendingArgs), NEW j \in 1..Len(m.pendingArgs),
                        m.pendingArgs[i] = m.pendingArgs[j]
                 PROVE  i = j
      OBVIOUS
    <3>1. i + c = j + c
      BY <2>1, <2>4
    <3>2. i \in Int /\ j \in Int
      BY <2>1, <1>2
    <3> QED BY <3>1, <3>2
  <2>9. \A l \in 1..c : \A i \in 1..Len(m.pendingArgs) : m.lane[l] # m.pendingArgs[i]
    <3> SUFFICES ASSUME NEW l \in 1..c, NEW i \in 1..Len(m.pendingArgs),
                        m.lane[l] = m.pendingArgs[i]
                 PROVE  FALSE
      OBVIOUS
    <3>1. l = i + c
      BY <2>1, <2>2, <2>4, <2>5
    <3>2. i \in Nat /\ i >= 1 /\ l <= c
      BY <2>1, <1>2
    <3> QED BY <3>1, <3>2
  <2>10. MapOK(m, T, c)
    BY <2>2, <2>5, <2>6, <2>7, <2>8, <2>9 DEF MapOK
  <2>11. /\ \A x : x \in InLanes(m) <=> x # Ended /\ \E l \in 1..c : m.lane[l] = x
         /\ \A x : x \in Waiting(m) <=> \E i \in 1..Len(m.pendingArgs) : m.pendingArgs[i] = x
    BY <2>10, MapSets
  <2>12. \A i \in 1..Len(s) : s[i] \in InLanes(m) \cup Waiting(m)
    <3> SUFFICES ASSUME NEW i \in 1..Len(s)  PROVE s[i] \in InLanes(m) \cup Waiting(m)
      OBVIOUS
    <3>1. CASE i <= c
      BY <3>1, <2>2, <2>5, <2>11, i \in 1..c
    <3>2. CASE i > c
      <4>1. i - c \in 1..Len(m.pendingArgs) /\ (i - c) + c = i
        BY <3>2, <2>1, <1>2
      <4> QED BY <4>1, <2>1, <2>11
    <3> QED BY <3>1, <3>2
  <2>13. InLanes(m) \cup Waiting(m) \subseteq {s[i] : i \in 1..Len(s)}
    <3>1. \A x \in InLanes(m) : x \in {s[i] : i \in 1..Len(s)}
      BY <2>2, <2>5, <2>11
    <3>2. \A x \in Waiting(m) : x \in {s[i] : i \in 1..Len(s)}
      <4> HIDE DEF m
      <4> SUFFICES ASSUME NEW x \in Waiting(m)  PROVE x \in {s[i] : i \in 1..Len(s)}
        OBVIOUS
      <4>1. PICK i \in 1..Len(m.pendingArgs) : m.pendingArgs[i] = x
        BY <2>11
      <4>2. x = s[i + c] /\ i + c \in 1..Len(s)
        BY <2>1, <2>4, <4>1
      <4> QED BY <4>2
    <3> HIDE DEF m
    <3> QED BY <3>1, <3>2
  <2>14. InLanes(m) \cup Waiting(m) = {s[i] : i \in 1..Len(s)}
    BY <2>12, <2>13
  <2> QED BY <2>10, <2>14
<1> QED BY <1>2, <1>3, <1>4

\* A lane whose fn has resolved takes the argument that waits first, if any;
\* nothing else moves.
LEMMA ReturnedOK ==
  ASSUME NEW T, Ended \notin T, NEW c \in Nat \ {0}, NEW m, MapOK(m, T, c),
         NEW x \in InLanes(m), NEW n, n = FnReturned(m, LaneOf(m, x))
  PROVE  /\ MapOK(n, T, c)
         /\ \/ /\ Waiting(m) = {} /\ Waiting(n) = {}
               /\ InLanes(n) = InLanes(m) \ {x}
            \/ \E y \in Waiting(m) :
                 /\ Waiting(n) = Waiting(m) \ {y}
                 /\ InLanes(n) = (InLanes(m) \ {x}) \cup {y}
<1> DEFINE l == LaneOf(m, x)
           P == m.pendingArgs
<1>1. l \in 1..c /\ m.lane[l] = x /\ x # Ended
  <2>1. \E k \in DOMAIN m.lane : m.lane[k] = x
    BY MapSets DEF MapOK
  <2>2. l \in DOMAIN m.lane /\ m.lane[l] = x
    BY <2>1 DEF LaneOf
  <2> QED BY <2>2, MapSets DEF MapOK
<1>2. P \in Seq(T) /\ m.lane \in [1..c -> T \cup {Ended}]
      /\ m = [pendingArgs |-> P, lane |-> m.lane]
  BY DEF MapOK
<1>3. \A k \in 1..c : m.lane[k] = x => k = l
  BY <1>1 DEF MapOK
<1> HIDE DEF l
<1>4. CASE P = <<>>
  <2>1. n = [pendingArgs |-> P, lane |-> [m.lane EXCEPT ![l] = Ended]]
    BY <1>2, <1>4 DEF FnReturned, l
  <2>2. MapOK(n, T, c)
    BY <1>1, <1>2, <1>4, <2>1 DEF MapOK
  <2>3. Waiting(m) = {} /\ Waiting(n) = {}
    BY <1>4, <2>1 DEF Waiting
  <2>4. \A z : z \in InLanes(n) <=> z # Ended /\ \E k \in 1..c : n.lane[k] = z
    BY <2>2, MapSets
  <2>5. \A z : z \in InLanes(m) <=> z # Ended /\ \E k \in 1..c : m.lane[k] = z
    BY MapSets
  <2>6. \A k \in 1..c : n.lane[k] = IF k = l THEN Ended ELSE m.lane[k]
    BY <1>2, <2>1
  <2>7. \A z : z \in InLanes(n) <=> z \in InLanes(m) /\ z # x
    <3> SUFFICES ASSUME NEW z  PROVE z \in InLanes(n) <=> z \in InLanes(m) /\ z # x
      OBVIOUS
    <3>1. z \in InLanes(n) => z \in InLanes(m) /\ z # x
      BY <1>3, <2>4, <2>5, <2>6
    <3>2. z \in InLanes(m) /\ z # x => z \in InLanes(n)
      BY <1>1, <2>4, <2>5, <2>6
    <3> QED BY <3>1, <3>2
  <2>8. InLanes(n) = InLanes(m) \ {x}
    BY <2>7
  <2> QED BY <2>2, <2>3, <2>8
<1>5. CASE P # <<>>
  <2> DEFINE y == Head(P)
  <2>1. n = [pendingArgs |-> Tail(P), lane |-> [m.lane EXCEPT ![l] = y]]
    BY <1>2, <1>5 DEF FnReturned, l
  <2>2. /\ Tail(P) \in Seq(T) /\ Len(Tail(P)) = Len(P) - 1 /\ Len(P) \in Nat /\ Len(P) >= 1
        /\ \A i \in 1..Len(Tail(P)) : Tail(P)[i] = P[i + 1]
        /\ y = P[1] /\ y \in T
    BY <1>2, <1>5
  <2>3. \A i \in 1..Len(Tail(P)) : i + 1 \in 1..Len(P) /\ i + 1 # 1
    BY <2>2
  <2>4. 1 \in 1..Len(P)
    BY <2>2
  <2>5. /\ \A i, j \in 1..Len(P) : P[i] = P[j] => i = j
        /\ \A k \in 1..c : \A i \in 1..Len(P) : m.lane[k] # P[i]
        /\ \A k \in 1..c : m.lane[k] # Ended
        /\ \A k, j \in 1..c : m.lane[k] = m.lane[j] => k = j
    BY <1>5 DEF MapOK
  <2>6. \A k \in 1..c : n.lane[k] = IF k = l THEN y ELSE m.lane[k]
    BY <1>2, <2>1
  <2>7. n.pendingArgs = Tail(P)
    BY <2>1
  <2> HIDE DEF y
  <2>8. MapOK(n, T, c)
    <3>1. n \in [pendingArgs : Seq(T), lane : [1..c -> T \cup {Ended}]]
      <4>1. [m.lane EXCEPT ![l] = y] \in [1..c -> T \cup {Ended}]
        BY <1>2, <2>2
      <4> QED BY <2>1, <2>2, <4>1
    <3>2. \A k, j \in 1..c : n.lane[k] = n.lane[j] => k = j
      BY <2>2, <2>4, <2>5, <2>6
    <3>3. \A i, j \in 1..Len(Tail(P)) : Tail(P)[i] = Tail(P)[j] => i = j
      <4> SUFFICES ASSUME NEW i \in 1..Len(Tail(P)), NEW j \in 1..Len(Tail(P)),
                          Tail(P)[i] = Tail(P)[j]
                   PROVE  i = j
        OBVIOUS
      <4>1. i + 1 = j + 1
        BY <2>2, <2>3, <2>5
      <4>2. i \in Int /\ j \in Int
        BY <2>2
      <4> QED BY <4>1, <4>2
    <3>4. \A k \in 1..c : \A i \in 1..Len(Tail(P)) : n.lane[k] # Tail(P)[i]
      BY <2>2, <2>3, <2>4, <2>5, <2>6
    <3>5. \A k \in 1..c : n.lane[k] # Ended
      BY <2>2, <2>5, <2>6
    <3> QED BY <2>7, <3>1, <3>2, <3>3, <3>4, <3>5 DEF MapOK
  <2>9. /\ \A z : z \in InLanes(m) <=> z # Ended /\ \E k \in 1..c : m.lane[k] = z
        /\ \A z : z \in Waiting(m) <=> \E i \in 1..Len(P) : P[i] = z
    BY MapSets
  <2>10. /\ \A z : z \in InLanes(n) <=> z # Ended /\ \E k \in 1..c : n.lane[k] = z
         /\ \A z : z \in Waiting(n) <=> \E i \in 1..Len(Tail(P)) : Tail(P)[i] = z
    <3>1. /\ \A z : z \in InLanes(n) <=> z # Ended /\ \E k \in 1..c : n.lane[k] = z
          /\ \A z : z \in Waiting(n) <=>
                    \E i \in 1..Len(n.pendingArgs) : n.pendingArgs[i] = z
      BY <2>8, MapSets
    <3> QED BY <2>7, <3>1
  <2>11. y \in Waiting(m)
    BY <2>2, <2>4, <2>9
  <2>12. \A z : z \in Waiting(n) <=> z \in Waiting(m) /\ z # y
    <3> SUFFICES ASSUME NEW z  PROVE z \in Waiting(n) <=> z \in Waiting(m) /\ z # y
      OBVIOUS
    <3>1. z \in Waiting(n) => z \in Waiting(m) /\ z # y
      BY <2>2, <2>3, <2>4, <2>5, <2>9, <2>10
    <3>2. ASSUME z \in Waiting(m), z # y  PROVE z \in Waiting(n)
      <4>1. PICK i \in 1..Len(P) : P[i] = z
        BY <3>2, <2>9
      <4>2. i - 1 \in 1..Len(Tail(P)) /\ (i - 1) + 1 = i
        BY <4>1, <3>2, <2>2
      <4> QED BY <4>1, <4>2, <2>2, <2>10
    <3> QED BY <3>1, <3>2
  <2>13. \A z : z \in InLanes(n) <=> (z \in InLanes(m) /\ z # x) \/ z = y
    <3> SUFFICES ASSUME NEW z  PROVE z \in InLanes(n) <=> (z \in InLanes(m) /\ z # x) \/ z = y
      OBVIOUS
    <3>1. z \in InLanes(n) => (z \in InLanes(m) /\ z # x) \/ z = y
      BY <1>3, <2>6, <2>9, <2>10
    <3>2. z = y => z \in InLanes(n)
      BY <1>1, <2>2, <2>6, <2>10
    <3>3. z \in InLanes(m) /\ z # x => z \in InLanes(n)
      BY <1>1, <2>6, <2>9, <2>10
    <3> QED BY <3>1, <3>2, <3>3
  <2>14. Waiting(n) = Waiting(m) \ {y} /\ InLanes(n) = (InLanes(m) \ {x}) \cup {y}
    BY <2>12, <2>13
  <2> QED BY <2>8, <2>11, <2>14
<1> QED BY <1>4, <1>5

\* No more arguments are worked on than there are lanes, and no lane is idle
\* while an argument waits.
LEMMA LanesBounded ==
  ASSUME NEW T, Ended \notin T, NEW c \in Nat \ {0}, NEW m, MapOK(m, T, c)
  PROVE  /\ IsFiniteSet(InLanes(m)) /\ Cardinality(InLanes(m)) <= c
         /\ Waiting(m) # {} => Cardinality(InLanes(m)) = c
<1> DEFINE Busy == {l \in 1..c : m.lane[l] # Ended}
           g == [l \in Busy |-> m.lane[l]]
<1>1. IsFiniteSet(1..c) /\ Cardinality(1..c) = c
  BY FS_Interval
<1>2. Busy \in SUBSET (1..c)
  OBVIOUS
<1>3. IsFiniteSet(Busy) /\ Cardinality(Busy) <= c /\ Cardinality(Busy) \in Nat
  BY <1>1, <1>2, FS_Subset, FS_CardinalityType
<1>4. \A x : x \in InLanes(m) <=> x # Ended /\ \E l \in 1..c : m.lane[l] = x
  BY MapSets
<1>5. g \in [Busy -> InLanes(m)]
  BY <1>4
<1>6. \A x \in InLanes(m) : \E l \in Busy : g[l] = x
  BY <1>4
<1>7. \A k, l \in Busy : g[k] = g[l] => k = l
  BY DEF MapOK
<1>8. g \in Surjection(Busy, InLanes(m)) /\ g \in Injection(Busy, InLanes(m))
  BY <1>5, <1>6, <1>7 DEF Surjection, Injection, IsInjective
<1>9. IsFiniteSet(InLanes(m)) /\ Cardinality(InLanes(m)) = Cardinality(Busy)
  BY <1>3, <1>8, FS_Surjection
<1>10. Waiting(m) # {} => Busy = 1..c
  BY DEF MapOK, Waiting
<1> QED BY <1>1, <1>3, <1>9, <1>10

\* What scanForSequenceLeaps returns: each leap once, and no other.
LEMMA AscendingOK ==
  ASSUME NEW S, S \subseteq Nat, IsFiniteSet(S)
  PROVE  /\ Ascending(S) \in Seq(S)
         /\ \A i, j \in 1..Len(Ascending(S)) : Ascending(S)[i] = Ascending(S)[j] => i = j
         /\ {Ascending(S)[i] : i \in 1..Len(Ascending(S))} = S
<1> DEFINE n == Cardinality(S)
           Below(s) == {t \in S : t < s}
           pos == [s \in S |-> Cardinality(Below(s)) + 1]
           a == Ascending(S)
<1>1. n \in Nat
  BY FS_CardinalityType
<1>2. \A s \in S : Below(s) \in SUBSET S /\ s \notin Below(s)
  <2> SUFFICES ASSUME NEW s \in S  PROVE Below(s) \subseteq S /\ s \notin Below(s)
    OBVIOUS
  <2>1. s \in Nat
    OBVIOUS
  <2> QED BY <2>1
<1>3. \A s \in S : IsFiniteSet(Below(s)) /\ Cardinality(Below(s)) \in Nat /\ Cardinality(Below(s)) < n
  <2> SUFFICES ASSUME NEW s \in S
               PROVE  IsFiniteSet(Below(s)) /\ Cardinality(Below(s)) \in Nat /\ Cardinality(Below(s)) < n
    OBVIOUS
  <2> HIDE DEF Below
  <2>1. IsFiniteSet(Below(s)) /\ Cardinality(Below(s)) <= n /\ (n = Cardinality(Below(s)) => S = Below(s))
    BY <1>2, FS_Subset
  <2>2. Cardinality(Below(s)) \in Nat
    BY <2>1, FS_CardinalityType
  <2> QED BY <1>1, <1>2, <2>1, <2>2
<1>4. \A s, t \in S : s < t => Cardinality(Below(s)) < Cardinality(Below(t))
  <2> SUFFICES ASSUME NEW s \in S, NEW t \in S, s < t
               PROVE  Cardinality(Below(s)) < Cardinality(Below(t))
    OBVIOUS
  <2>1. s \in Nat /\ t \in Nat
    OBVIOUS
  <2>2. \A u \in S : u < s => u < t
    BY <2>1
  <2>3. Below(s) \in SUBSET Below(t) /\ s \in Below(t) /\ s \notin Below(s)
    <3>1. ~(s < s)
      BY <2>1
    <3> QED BY <2>2, <3>1
  <2>4. Below(s) # Below(t)
    BY <2>3
  <2> HIDE DEF Below
  <2>5. Cardinality(Below(s)) <= Cardinality(Below(t))
        /\ (Cardinality(Below(t)) = Cardinality(Below(s)) => Below(t) = Below(s))
    BY <1>3, <2>3, FS_Subset
  <2> QED BY <1>3, <2>4, <2>5
<1>5. pos \in [S -> 1..n]
  BY <1>1, <1>3
<1>6. \A s, t \in S : pos[s] = pos[t] => s = t
  <2> SUFFICES ASSUME NEW s \in S, NEW t \in S, s # t  PROVE pos[s] # pos[t]
    OBVIOUS
  <2>1. s < t \/ t < s
    OBVIOUS
  <2>2. Cardinality(Below(s)) # Cardinality(Below(t))
    BY <1>3, <1>4, <2>1
  <2> HIDE DEF Below
  <2> QED BY <1>3, <2>2
<1>7. pos \in Injection(S, 1..n)
  BY <1>5, <1>6 DEF Injection, IsInjective
<1>8. IsFiniteSet(1..n) /\ Cardinality(1..n) = n
  BY <1>1, FS_Interval
<1>9. pos \in Surjection(S, 1..n)
  BY <1>7, <1>8, FS_Injection
<1>10. \A i \in 1..n : \E s \in S : Cardinality(Below(s)) = i - 1
  <2> SUFFICES ASSUME NEW i \in 1..n  PROVE \E s \in S : Cardinality(Below(s)) = i - 1
    OBVIOUS
  <2>1. PICK s \in S : pos[s] = i
    BY <1>9 DEF Surjection
  <2> HIDE DEF Below
  <2> QED BY <1>1, <1>3, <2>1
<1>11. a = [i \in 1..n |-> CHOOSE s \in S : Cardinality(Below(s)) = i - 1]
  BY DEF Ascending
<1>12. \A i \in 1..n : a[i] \in S /\ Cardinality(Below(a[i])) = i - 1
  BY <1>10, <1>11
<1>13. a \in Seq(S) /\ Len(a) = n
  <2>1. a \in [1..n -> S]
    BY <1>10, <1>11
  <2> HIDE DEF a, n
  <2> QED BY <1>1, <2>1
<1>14. \A i, j \in 1..n : a[i] = a[j] => i = j
  <2> HIDE DEF Below, a
  <2> QED BY <1>1, <1>12
<1>15. \A s \in S : \E i \in 1..n : a[i] = s
  <2> SUFFICES ASSUME NEW s \in S  PROVE \E i \in 1..n : a[i] = s
    OBVIOUS
  <2>1. pos[s] \in 1..n
    BY <1>5
  <2>2. Cardinality(Below(a[pos[s]])) = Cardinality(Below(s))
    <3> HIDE DEF Below, a
    <3> QED BY <1>3, <1>12, <2>1
  <2>3. pos[a[pos[s]]] = pos[s]
    BY <1>12, <2>1, <2>2
  <2>4. a[pos[s]] = s
    BY <1>6, <1>12, <2>1, <2>3
  <2> QED BY <2>1, <2>4
<1>16. {a[i] : i \in 1..n} = S
  <2> HIDE DEF a, n, Below
  <2> QED BY <1>12, <1>15
<1> HIDE DEF a, n, Below
<1> QED BY <1>16, <1>12, <1>13, <1>14, <1>15 DEF a

-----------------------------------------------------------------------------
(* The rounds.                                                             *)

\* The filters that lanes of the round hold are those being checked, and only
\* a check that fetches has arguments in the mapConcurrent of its filter.
LanesInv ==
  /\ MapOK(round, Filter, Concurrency)
  /\ phase \in [Filter -> {"idle", "reading", "fetching"}]
  /\ missing \in [Filter -> SUBSET Leap]
  /\ \A f \in Filter : IsFiniteSet(missing[f]) /\ missing[f] \subseteq Nat
  /\ fetches \in [Filter -> [pendingArgs : Seq(Leap), lane : [1..FetchConcurrency -> Leap \cup {Ended}]]]
  /\ \A f \in Filter :
       /\ MapOK(fetches[f], missing[f], FetchConcurrency)
       /\ phase[f] = "idle" <=> f \notin InLanes(round)
       /\ phase[f] # "fetching" => Resolved(fetches[f])

\* A fetch has a call exactly if it is in a lane, and an outcome exactly if its
\* sequence was missing and is in neither place of the mapConcurrent any more.
FetchesInv ==
  /\ call \in [Fetch -> CallAt \cup {"none", "waiting", "fetched"}]
  /\ tries \in [Fetch -> 0..RetryAttempts]
  /\ outcome \in [Fetch -> {"none", "processed", "failedToRecover", "failedToReprocess"}]
  /\ \A f \in Filter : \A s \in Leap :
       /\ call[<<f, s>>] # "none" <=> s \in InLanes(fetches[f])
       /\ outcome[<<f, s>>] # "none" <=>
            /\ phase[f] = "fetching" /\ s \in missing[f]
            /\ s \notin InLanes(fetches[f]) \cup Waiting(fetches[f])

RoundInv == LanesInv /\ FetchesInv

\* The facts on the constants.
LEMMA RoundConstants ==
  /\ Concurrency \in Nat \ {0} /\ FetchConcurrency \in Nat \ {0} /\ RetryAttempts \in Nat
  /\ Ended \notin Filter /\ Ended \notin Leap
  /\ \A f \in Filter : MissingOf[f] \subseteq Leap
  /\ Filters \in Seq(Filter)
  /\ \A i, j \in 1..Len(Filters) : Filters[i] = Filters[j] => i = j
  /\ {Filters[i] : i \in 1..Len(Filters)} = Filter
<1>1. DOMAIN Filters = 1..Len(Filters)
  BY RoundAssumption
<1>2. \A f \in Filter : MissingOf[f] \subseteq Leap
  BY DEF Leap
<1> QED BY <1>1, <1>2, RoundAssumption DEF IsInjective, Filter, ToSet

\* A round begins with each filter in one place.
LEMMA RoundBegins ==
  LET m == Started(Filters, Concurrency)
  IN  MapOK(m, Filter, Concurrency) /\ InLanes(m) \subseteq Filter
BY RoundConstants, StartedOK, MapSets

\* The state in which a filter's mapConcurrent has resolved suits any arguments.
LEMMA ResolvedOK ==
  ASSUME NEW T, NEW S, Ended \notin T, NEW c \in Nat \ {0}, NEW m, MapOK(m, T, c), Resolved(m)
  PROVE  MapOK(m, S, c)
<1>1. m.pendingArgs = <<>> /\ \A l \in 1..c : m.lane[l] = Ended
  BY ResolvedIsEmpty DEF MapOK, Resolved
<1>2. m = [pendingArgs |-> m.pendingArgs, lane |-> m.lane]
      /\ m.lane = [l \in 1..c |-> m.lane[l]]
  BY DEF MapOK
<1>3. m.lane \in [1..c -> S \cup {Ended}]
  <2>1. \A l \in 1..c : m.lane[l] \in S \cup {Ended}
    BY <1>1
  <2> QED BY <1>2, <2>1
<1>4. m \in [pendingArgs : Seq(S), lane : [1..c -> S \cup {Ended}]]
  <2>1. m.pendingArgs \in Seq(S)
    BY <1>1
  <2> QED BY <1>2, <1>3, <2>1
<1> QED BY <1>1, <1>4 DEF MapOK

\* Before anything is fetched.
LEMMA NothingStarted ==
  LET m == Started(<<>>, FetchConcurrency)
  IN  \A T : MapOK(m, T, FetchConcurrency) /\ Resolved(m) /\ InLanes(m) = {} /\ Waiting(m) = {}
<1> DEFINE m == Started(<<>>, FetchConcurrency)
<1>1. \A l \in 1..FetchConcurrency : ~(l <= 0)
  BY RoundConstants
<1>2. /\ m.pendingArgs = <<>> /\ m.lane = [l \in 1..FetchConcurrency |-> Ended]
      /\ m = [pendingArgs |-> m.pendingArgs, lane |-> m.lane]
  BY <1>1, RoundConstants DEF Started
<1> HIDE DEF m
<1>3. Resolved(m) /\ InLanes(m) = {} /\ Waiting(m) = {}
  BY <1>2 DEF Resolved, InLanes, Waiting
<1>4. ASSUME NEW T  PROVE MapOK(m, T, FetchConcurrency)
  <2>1. m.pendingArgs \in Seq(T) /\ Len(m.pendingArgs) = 0
    BY <1>2
  <2>2. m.lane \in [1..FetchConcurrency -> T \cup {Ended}]
    BY <1>2
  <2>3. \A l \in 1..FetchConcurrency : m.lane[l] = Ended
    BY <1>2
  <2>4. m \in [pendingArgs : Seq(T), lane : [1..FetchConcurrency -> T \cup {Ended}]]
    BY <1>2, <2>1, <2>2
  <2> QED BY <1>2, <2>1, <2>3, <2>4 DEF MapOK
<1> QED BY <1>3, <1>4 DEF m

\* The sets of a filter's mapConcurrent.
LEMMA FetchSets ==
  ASSUME LanesInv, NEW f \in Filter
  PROVE  /\ InLanes(fetches[f]) \subseteq missing[f] /\ Waiting(fetches[f]) \subseteq missing[f]
         /\ InLanes(fetches[f]) \cap Waiting(fetches[f]) = {}
         /\ Resolved(fetches[f]) <=> InLanes(fetches[f]) = {}
         /\ Resolved(fetches[f]) => Waiting(fetches[f]) = {}
<1>1. MapOK(fetches[f], missing[f], FetchConcurrency) /\ Ended \notin missing[f]
  BY RoundConstants DEF LanesInv
<1> QED BY <1>1, RoundConstants, MapSets, ResolvedIsEmpty

\* The initial states.
LEMMA RoundInvInit == ASSUME RoundInit PROVE RoundInv
<1>1. LanesInv
  <2>1. MapOK(round, Filter, Concurrency)
    BY RoundBegins DEF RoundInit
  <2>2. /\ phase \in [Filter -> {"idle", "reading", "fetching"}]
        /\ \A f \in Filter : phase[f] = (IF f \in InLanes(round) THEN "reading" ELSE "idle")
    BY DEF RoundInit
  <2>3. missing \in [Filter -> SUBSET Leap]
        /\ \A f \in Filter : IsFiniteSet(missing[f]) /\ missing[f] \subseteq Nat
    BY RoundConstants, RoundAssumption DEF RoundInit
  <2>4. \A f \in Filter : fetches[f] = Started(<<>>, FetchConcurrency)
    BY DEF RoundInit
  <2>5. MapOK(Started(<<>>, FetchConcurrency), Leap, FetchConcurrency)
    BY NothingStarted
  <2>6. fetches \in [Filter -> [pendingArgs : Seq(Leap), lane : [1..FetchConcurrency -> Leap \cup {Ended}]]]
    BY <2>5 DEF RoundInit, MapOK
  <2>7. \A f \in Filter : MapOK(fetches[f], missing[f], FetchConcurrency) /\ Resolved(fetches[f])
    BY <2>4, NothingStarted
  <2> QED BY <2>1, <2>2, <2>3, <2>6, <2>7 DEF LanesInv
<1>2. FetchesInv
  <2>1. \A f \in Filter : InLanes(fetches[f]) = {} /\ phase[f] # "fetching"
    BY NothingStarted DEF RoundInit
  <2>2. /\ call = [x \in Fetch |-> "none"] /\ tries = [x \in Fetch |-> 0]
        /\ outcome = [x \in Fetch |-> "none"] /\ 0 \in 0..RetryAttempts
    BY RoundConstants DEF RoundInit
  <2>3. \A f \in Filter : \A s \in Leap : call[<<f, s>>] = "none" /\ outcome[<<f, s>>] = "none"
    BY <2>2 DEF Fetch
  <2> QED BY <2>1, <2>2, <2>3 DEF FetchesInv
<1> QED BY <1>1, <1>2 DEF RoundInv

\* StartRound
LEMMA StartRoundKeeps == ASSUME RoundInv, StartRound PROVE RoundInv'
<1> USE DEF RoundInv
<1>1. InLanes(round) = {}
  BY RoundConstants, ResolvedIsEmpty DEF LanesInv, StartRound, Asleep
<1>2. \A f \in Filter : phase[f] = "idle"
  BY <1>1 DEF LanesInv
<1>3. phase' = [f \in Filter |-> IF f \in InLanes(round') THEN "reading" ELSE phase[f]]
  BY <1>1 DEF StartRound, Begun
<1>4. MapOK(round', Filter, Concurrency)
  BY RoundBegins DEF StartRound
<1>5. UNCHANGED <<missing, fetches, call, tries, outcome>>
  BY DEF StartRound, fetchVars
<1>6. LanesInv'
  BY <1>2, <1>3, <1>4, <1>5 DEF LanesInv
<1>7. \A f \in Filter : phase[f] # "fetching" /\ phase'[f] # "fetching"
  BY <1>2, <1>3
<1>8. FetchesInv'
  BY <1>5, <1>7 DEF FetchesInv
<1> QED BY <1>6, <1>8

\* The end of a check: its lane takes the next filter, which is idle.
LEMMA CheckEndsMoves ==
  ASSUME LanesInv, NEW f \in Filter, phase[f] # "idle", CheckEnds(f)
  PROVE  /\ MapOK(round', Filter, Concurrency)
         /\ phase' \in [Filter -> {"idle", "reading", "fetching"}]
         /\ \A g \in Filter :
              /\ phase'[g] = "idle" <=> g \notin InLanes(round')
              /\ phase'[g] = "fetching" <=> phase[g] = "fetching" /\ g # f
<1>1. f \in InLanes(round)
  BY DEF LanesInv
<1>2. round' = FnReturned(round, LaneOf(round, f))
  BY DEF CheckEnds
<1> DEFINE n == FnReturned(round, LaneOf(round, f))
<1>3. /\ MapOK(round', Filter, Concurrency)
      /\ \/ InLanes(round') = InLanes(round) \ {f}
         \/ \E y \in Waiting(round) : InLanes(round') = (InLanes(round) \ {f}) \cup {y}
  <2>1. MapOK(round, Filter, Concurrency) /\ Ended \notin Filter /\ Concurrency \in Nat \ {0}
    BY RoundConstants DEF LanesInv
  <2>2. /\ MapOK(n, Filter, Concurrency)
        /\ \/ InLanes(n) = InLanes(round) \ {f}
           \/ \E y \in Waiting(round) : InLanes(n) = (InLanes(round) \ {f}) \cup {y}
    BY <1>1, <2>1, ReturnedOK
  <2> HIDE DEF n
  <2> QED BY <1>2, <2>2 DEF n
<1>4. InLanes(round) \cap Waiting(round) = {}
  BY RoundConstants, MapSets DEF LanesInv
<1>5. f \notin InLanes(round')
  BY <1>1, <1>3, <1>4
<1>6. \A g \in Filter : phase'[g] =
        IF g = f THEN "idle"
        ELSE IF g \in InLanes(round') \ InLanes(round) THEN "reading" ELSE phase[g]
  BY DEF CheckEnds, Begun
<1>7. phase' \in [Filter -> {"idle", "reading", "fetching"}]
  BY DEF CheckEnds, Begun, LanesInv
<1>8. \A g \in Filter : g \in InLanes(round') \ InLanes(round) => phase[g] = "idle"
  BY DEF LanesInv
<1>9. \A g \in Filter : g # f => (g \in InLanes(round) => g \in InLanes(round'))
  BY <1>3
<1>10. \A g \in Filter : phase'[g] = "idle" <=> g \notin InLanes(round')
  BY <1>5, <1>6, <1>8, <1>9 DEF LanesInv
<1>11. \A g \in Filter : phase'[g] = "fetching" <=> phase[g] = "fetching" /\ g # f
  BY <1>6, <1>8
<1> QED BY <1>3, <1>7, <1>10, <1>11

\* Both ends of a check: nothing of the filter is being fetched.
LEMMA CheckEndsKeeps ==
  ASSUME RoundInv, NEW f \in Filter, phase[f] # "idle", Resolved(fetches[f]), CheckEnds(f),
         outcome' = [x \in Fetch |-> IF x[1] = f THEN "none" ELSE outcome[x]],
         UNCHANGED <<fetches, call, tries>>,
         NEW M \in SUBSET missing[f],
         missing' = [missing EXCEPT ![f] = M]
  PROVE  RoundInv'
<1> USE DEF RoundInv
<1>1. /\ MapOK(round', Filter, Concurrency)
      /\ phase' \in [Filter -> {"idle", "reading", "fetching"}]
      /\ \A g \in Filter :
           /\ phase'[g] = "idle" <=> g \notin InLanes(round')
           /\ phase'[g] = "fetching" <=> phase[g] = "fetching" /\ g # f
  BY CheckEndsMoves
<1>2. missing[f] \subseteq Leap /\ missing[f] \subseteq Nat /\ IsFiniteSet(missing[f])
  BY DEF LanesInv
<1>3. IsFiniteSet(M)
  BY <1>2, FS_Subset
<1>4. /\ missing' \in [Filter -> SUBSET Leap]
      /\ \A g \in Filter : IsFiniteSet(missing'[g]) /\ missing'[g] \subseteq Nat
      /\ \A g \in Filter : missing'[g] = IF g = f THEN M ELSE missing[g]
  BY <1>2, <1>3 DEF LanesInv
<1>5. Ended \notin missing[f]
  BY <1>2, RoundConstants
<1>6. MapOK(fetches[f], M, FetchConcurrency)
  BY <1>5, RoundConstants, ResolvedOK DEF LanesInv
<1>7. \A g \in Filter : MapOK(fetches'[g], missing'[g], FetchConcurrency)
  BY <1>4, <1>6 DEF LanesInv
<1>8. \A g \in Filter : phase'[g] # "fetching" => Resolved(fetches'[g])
  BY <1>1 DEF LanesInv
<1>9. LanesInv'
  BY <1>1, <1>4, <1>7, <1>8 DEF LanesInv
<1>10. /\ outcome' \in [Fetch -> {"none", "processed", "failedToRecover", "failedToReprocess"}]
       /\ \A g \in Filter : \A s \in Leap :
            outcome'[<<g, s>>] = IF g = f THEN "none" ELSE outcome[<<g, s>>]
  BY DEF FetchesInv, Fetch
<1>11. FetchesInv'
  BY <1>1, <1>4, <1>10 DEF FetchesInv
<1> QED BY <1>9, <1>11

\* CheckFails and CheckSucceeds
LEMMA CheckOverKeeps ==
  ASSUME RoundInv, NEW f \in Filter, CheckFails(f) \/ CheckSucceeds(f)
  PROVE  RoundInv'
<1>1. CASE CheckFails(f)
  <2>1. Resolved(fetches[f]) /\ phase[f] # "idle"
    BY <1>1 DEF CheckFails, RoundInv, LanesInv
  <2>2. missing' = [missing EXCEPT ![f] = missing[f]]
    BY <1>1 DEF CheckFails, RoundInv, LanesInv
  <2> QED BY <1>1, <2>1, <2>2, CheckEndsKeeps DEF CheckFails
<1>2. CASE CheckSucceeds(f)
  <2>1. missing' = [missing EXCEPT ![f] = missing[f] \ MarkedSeen(f)]
    BY <1>2 DEF CheckSucceeds
  <2> QED BY <1>2, <2>1, CheckEndsKeeps DEF CheckSucceeds
<1> QED BY <1>1, <1>2

\* Scan
LEMMA ScanKeeps == ASSUME RoundInv, NEW f \in Filter, Scan(f) PROVE RoundInv'
<1> USE DEF RoundInv
<1> DEFINE m == Started(Ascending(missing[f]), FetchConcurrency)
<1>1. /\ missing[f] \subseteq Leap /\ missing[f] \subseteq Nat /\ IsFiniteSet(missing[f])
      /\ Ended \notin missing[f]
  BY RoundConstants DEF LanesInv
<1>2. /\ MapOK(m, missing[f], FetchConcurrency)
      /\ InLanes(m) \cup Waiting(m) = missing[f]
  BY <1>1, RoundConstants, AscendingOK, StartedOK
<1> HIDE DEF m
<1>3. /\ phase[f] = "reading" /\ phase' = [phase EXCEPT ![f] = "fetching"]
      /\ fetches' = [fetches EXCEPT ![f] = m]
      /\ UNCHANGED <<round, missing, tries, outcome>>
      /\ call' = FirstCalls(f)
  BY DEF Scan, m
<1>4. /\ \A g \in Filter : phase'[g] = IF g = f THEN "fetching" ELSE phase[g]
      /\ \A g \in Filter : fetches'[g] = IF g = f THEN m ELSE fetches[g]
  BY <1>3 DEF LanesInv
<1>5. m \in [pendingArgs : Seq(Leap), lane : [1..FetchConcurrency -> Leap \cup {Ended}]]
  <2>1. m.pendingArgs \in Seq(missing[f])
    BY <1>2 DEF MapOK
  <2>2. m.pendingArgs \in Seq(Leap)
    BY <1>1, <2>1
  <2>3. m.lane \in [1..FetchConcurrency -> Leap \cup {Ended}]
    BY <1>1, <1>2 DEF MapOK
  <2> QED BY <1>2, <2>2, <2>3 DEF MapOK
<1>6. LanesInv'
  <2>1. phase' \in [Filter -> {"idle", "reading", "fetching"}]
    BY <1>3 DEF LanesInv
  <2>2. fetches' \in [Filter -> [pendingArgs : Seq(Leap), lane : [1..FetchConcurrency -> Leap \cup {Ended}]]]
    BY <1>3, <1>5 DEF LanesInv
  <2>3. \A g \in Filter :
          /\ MapOK(fetches'[g], missing'[g], FetchConcurrency)
          /\ phase'[g] = "idle" <=> g \notin InLanes(round')
          /\ phase'[g] # "fetching" => Resolved(fetches'[g])
    BY <1>2, <1>3, <1>4 DEF LanesInv
  <2> QED BY <1>3, <2>1, <2>2, <2>3 DEF LanesInv
<1>7. \A s \in Leap : call[<<f, s>>] = "none" /\ outcome[<<f, s>>] = "none"
  <2>1. InLanes(fetches[f]) = {}
    BY <1>3, FetchSets DEF LanesInv
  <2> QED BY <1>3, <2>1 DEF FetchesInv
<1>8. \A g \in Filter : \A s \in Leap :
        call'[<<g, s>>] = IF g = f /\ s \in InLanes(m) THEN "waiting" ELSE call[<<g, s>>]
  BY <1>3, <1>4, <1>7 DEF FirstCalls, Fetch
<1>9. call' \in [Fetch -> CallAt \cup {"none", "waiting", "fetched"}]
  BY <1>3 DEF FirstCalls, FetchesInv
<1>10. \A g \in Filter : \A s \in Leap :
         /\ call'[<<g, s>>] # "none" <=> s \in InLanes(fetches'[g])
         /\ outcome'[<<g, s>>] # "none" <=>
              /\ phase'[g] = "fetching" /\ s \in missing'[g]
              /\ s \notin InLanes(fetches'[g]) \cup Waiting(fetches'[g])
  <2> SUFFICES ASSUME NEW g \in Filter, NEW s \in Leap
               PROVE  /\ call'[<<g, s>>] # "none" <=> s \in InLanes(fetches'[g])
                      /\ outcome'[<<g, s>>] # "none" <=>
                           /\ phase'[g] = "fetching" /\ s \in missing'[g]
                           /\ s \notin InLanes(fetches'[g]) \cup Waiting(fetches'[g])
    OBVIOUS
  <2>1. CASE g = f
    BY <1>2, <1>3, <1>4, <1>7, <1>8, <2>1
  <2>2. CASE g # f
    BY <1>3, <1>4, <1>8, <2>2 DEF FetchesInv
  <2> QED BY <2>1, <2>2
<1>11. FetchesInv'
  BY <1>3, <1>9, <1>10 DEF FetchesInv
<1> QED BY <1>6, <1>11

\* A step of the call of a fetch.
LEMMA MovesKeeps ==
  ASSUME RoundInv, NEW x \in Fetch, call[x] # "none",
         NEW to \in CallAt \cup {"waiting", "fetched"}, call' = [call EXCEPT ![x] = to],
         tries' \in [Fetch -> 0..RetryAttempts], UNCHANGED <<round, phase, missing, fetches, outcome>>
  PROVE  RoundInv'
<1> USE DEF RoundInv
<1>1. to # "none"
  BY DEF CallAt
<1>2. call' \in [Fetch -> CallAt \cup {"none", "waiting", "fetched"}]
  BY DEF FetchesInv
<1>3. \A f \in Filter : \A s \in Leap : call'[<<f, s>>] # "none" <=> call[<<f, s>>] # "none"
  BY <1>1 DEF FetchesInv, Fetch
<1>4. FetchesInv'
  BY <1>2, <1>3 DEF FetchesInv
<1>5. LanesInv'
  BY DEF LanesInv
<1> QED BY <1>4, <1>5

\* What a call's end that ends the fetch changes in its filter's mapConcurrent.
LEMMA FetchEndsMoves ==
  ASSUME RoundInv, NEW f \in Filter, NEW s \in Leap, call[<<f, s>>] # "none"
  PROVE  LET n == FnReturned(fetches[f], LaneOf(fetches[f], s))
         IN  /\ phase[f] = "fetching" /\ s \in InLanes(fetches[f]) /\ s \in missing[f]
             /\ MapOK(n, missing[f], FetchConcurrency)
             /\ n \in [pendingArgs : Seq(Leap), lane : [1..FetchConcurrency -> Leap \cup {Ended}]]
             /\ InLanes(n) \cup Waiting(n) = (InLanes(fetches[f]) \cup Waiting(fetches[f])) \ {s}
             /\ InLanes(fetches[f]) \ {s} \subseteq InLanes(n)
             /\ \/ /\ Waiting(fetches[f]) = {} /\ Waiting(n) = {}
                   /\ InLanes(n) = InLanes(fetches[f]) \ {s}
                \/ \E y \in Waiting(fetches[f]) :
                     /\ Waiting(n) = Waiting(fetches[f]) \ {y}
                     /\ InLanes(n) = (InLanes(fetches[f]) \ {s}) \cup {y}
<1> DEFINE n == FnReturned(fetches[f], LaneOf(fetches[f], s))
<1>1. s \in InLanes(fetches[f])
  BY DEF RoundInv, FetchesInv
<1>2. phase[f] = "fetching" /\ s \in missing[f]
  BY <1>1, FetchSets DEF RoundInv, LanesInv
<1>3. missing[f] \subseteq Leap /\ Ended \notin missing[f]
  BY RoundConstants DEF RoundInv, LanesInv
<1>4. /\ MapOK(n, missing[f], FetchConcurrency)
      /\ \/ /\ Waiting(fetches[f]) = {} /\ Waiting(n) = {}
            /\ InLanes(n) = InLanes(fetches[f]) \ {s}
         \/ \E y \in Waiting(fetches[f]) :
              /\ Waiting(n) = Waiting(fetches[f]) \ {y}
              /\ InLanes(n) = (InLanes(fetches[f]) \ {s}) \cup {y}
  <2>1. /\ MapOK(fetches[f], missing[f], FetchConcurrency)
        /\ Ended \notin missing[f] /\ FetchConcurrency \in Nat \ {0}
    BY <1>3, RoundConstants DEF RoundInv, LanesInv
  <2> QED BY <1>1, <2>1, ReturnedOK
<1> HIDE DEF n
<1>5. InLanes(fetches[f]) \cap Waiting(fetches[f]) = {}
  BY FetchSets DEF RoundInv
<1>6. /\ InLanes(n) \cup Waiting(n) = (InLanes(fetches[f]) \cup Waiting(fetches[f])) \ {s}
      /\ InLanes(fetches[f]) \ {s} \subseteq InLanes(n)
  BY <1>1, <1>4, <1>5
<1>7. n \in [pendingArgs : Seq(Leap), lane : [1..FetchConcurrency -> Leap \cup {Ended}]]
  <2>1. n.pendingArgs \in Seq(missing[f])
    BY <1>4 DEF MapOK
  <2>2. n.pendingArgs \in Seq(Leap)
    BY <1>3, <2>1
  <2>3. n.lane \in [1..FetchConcurrency -> Leap \cup {Ended}]
    BY <1>3, <1>4 DEF MapOK
  <2> QED BY <1>4, <2>2, <2>3 DEF MapOK
<1> QED BY <1>1, <1>2, <1>4, <1>6, <1>7 DEF n

\* The end of a fetch: the next sequence begins with its first call.
LEMMA FetchEndsKeeps ==
  ASSUME RoundInv, NEW x \in Fetch, call[x] # "none",
         NEW o \in {"processed", "failedToRecover", "failedToReprocess"}, FetchEnds(x, o)
  PROVE  RoundInv'
<1>1. PICK f \in Filter, s \in Leap : x = <<f, s>>
  BY DEF Fetch
<1> DEFINE m == fetches[f]
           n == FnReturned(fetches[f], LaneOf(fetches[f], s))
<1>2. /\ phase[f] = "fetching" /\ s \in InLanes(m) /\ s \in missing[f]
      /\ MapOK(n, missing[f], FetchConcurrency)
      /\ n \in [pendingArgs : Seq(Leap), lane : [1..FetchConcurrency -> Leap \cup {Ended}]]
      /\ InLanes(n) \cup Waiting(n) = (InLanes(m) \cup Waiting(m)) \ {s}
      /\ InLanes(m) \ {s} \subseteq InLanes(n)
  BY <1>1, FetchEndsMoves
<1>3. /\ outcome' = [outcome EXCEPT ![x] = o]
      /\ fetches' = [fetches EXCEPT ![f] = n]
      /\ tries' = [tries EXCEPT ![x] = 0]
      /\ call' = [FirstCalls(f) EXCEPT ![x] = "none"]
      /\ UNCHANGED <<round, phase, missing>>
  BY <1>1 DEF FetchEnds
<1> HIDE DEF n, m
<1>4. \A g \in Filter : fetches'[g] = IF g = f THEN n ELSE fetches[g]
  BY <1>3 DEF RoundInv, LanesInv
<1>5. LanesInv'
  <2>1. fetches' \in [Filter -> [pendingArgs : Seq(Leap), lane : [1..FetchConcurrency -> Leap \cup {Ended}]]]
    BY <1>2, <1>3 DEF RoundInv, LanesInv
  <2>2. \A g \in Filter :
          /\ MapOK(fetches'[g], missing'[g], FetchConcurrency)
          /\ phase'[g] = "idle" <=> g \notin InLanes(round')
          /\ phase'[g] # "fetching" => Resolved(fetches'[g])
    BY <1>2, <1>3, <1>4 DEF RoundInv, LanesInv
  <2> QED BY <1>3, <2>1, <2>2 DEF RoundInv, LanesInv
<1>6. /\ outcome' \in [Fetch -> {"none", "processed", "failedToRecover", "failedToReprocess"}]
      /\ \A g \in Filter : \A t \in Leap :
           outcome'[<<g, t>>] = IF g = f /\ t = s THEN o ELSE outcome[<<g, t>>]
  BY <1>1, <1>3 DEF RoundInv, FetchesInv, Fetch
<1>7. tries' \in [Fetch -> 0..RetryAttempts]
  BY <1>3, RoundConstants DEF RoundInv, FetchesInv
<1>8. call' \in [Fetch -> CallAt \cup {"none", "waiting", "fetched"}]
  BY <1>3 DEF RoundInv, FetchesInv, FirstCalls
<1>9. \A g \in Filter : \A t \in Leap :
        call'[<<g, t>>] =
          IF g = f /\ t = s THEN "none"
          ELSE IF g = f /\ t \in InLanes(n) /\ outcome[<<g, t>>] = "none" /\ call[<<g, t>>] = "none"
               THEN "waiting" ELSE call[<<g, t>>]
  <2>1. FirstCalls(f) = [z \in Fetch |->
          IF z[1] = f /\ z[2] \in InLanes(n) /\ outcome'[z] = "none" /\ call[z] = "none"
          THEN "waiting" ELSE call[z]]
    BY <1>4 DEF FirstCalls
  <2>2. \A z \in Fetch : call'[z] = IF z = x THEN "none" ELSE FirstCalls(f)[z]
    BY <1>3, <2>1
  <2> SUFFICES ASSUME NEW g \in Filter, NEW t \in Leap
               PROVE  call'[<<g, t>>] =
                        IF g = f /\ t = s THEN "none"
                        ELSE IF g = f /\ t \in InLanes(n) /\ outcome[<<g, t>>] = "none"
                                /\ call[<<g, t>>] = "none"
                             THEN "waiting" ELSE call[<<g, t>>]
    OBVIOUS
  <2>3. <<g, t>> \in Fetch /\ (<<g, t>> = x <=> g = f /\ t = s)
        /\ <<g, t>>[1] = g /\ <<g, t>>[2] = t
    BY <1>1 DEF Fetch
  <2>4. <<g, t>> # x => outcome'[<<g, t>>] = outcome[<<g, t>>]
    BY <1>6, <2>3
  <2> QED BY <2>1, <2>2, <2>3, <2>4
<1>10. /\ \A t \in Leap : call[<<f, t>>] # "none" <=> t \in InLanes(m)
       /\ \A t \in Leap : outcome[<<f, t>>] # "none" <=>
            t \in missing[f] /\ t \notin InLanes(m) \cup Waiting(m)
  BY <1>2 DEF RoundInv, FetchesInv, m
<1>11. \A t \in Leap :
         /\ call'[<<f, t>>] # "none" <=> t \in InLanes(n)
         /\ outcome'[<<f, t>>] # "none" <=>
              t \in missing[f] /\ t \notin InLanes(n) \cup Waiting(n)
  <2> SUFFICES ASSUME NEW t \in Leap
               PROVE  /\ call'[<<f, t>>] # "none" <=> t \in InLanes(n)
                      /\ outcome'[<<f, t>>] # "none" <=>
                           t \in missing[f] /\ t \notin InLanes(n) \cup Waiting(n)
    OBVIOUS
  <2>1. CASE t = s
    BY <1>2, <1>6, <1>9, <2>1
  <2>2. CASE t # s
    <3>1. outcome'[<<f, t>>] = outcome[<<f, t>>]
      BY <1>6, <2>2
    <3>2. t \in InLanes(n) /\ t \notin InLanes(m) => call'[<<f, t>>] = "waiting"
      BY <1>2, <1>9, <1>10, <2>2
    <3>3. t \in InLanes(m) => call'[<<f, t>>] # "none" /\ t \in InLanes(n)
      BY <1>2, <1>9, <1>10, <2>2
    <3>4. t \notin InLanes(m) /\ t \notin InLanes(n) => call'[<<f, t>>] = "none"
      BY <1>9, <1>10, <2>2
    <3> QED BY <1>2, <1>10, <2>2, <3>1, <3>2, <3>3, <3>4
  <2> QED BY <2>1, <2>2
<1>12. \A g \in Filter : \A t \in Leap :
         /\ call'[<<g, t>>] # "none" <=> t \in InLanes(fetches'[g])
         /\ outcome'[<<g, t>>] # "none" <=>
              /\ phase'[g] = "fetching" /\ t \in missing'[g]
              /\ t \notin InLanes(fetches'[g]) \cup Waiting(fetches'[g])
  <2> SUFFICES ASSUME NEW g \in Filter, NEW t \in Leap
               PROVE  /\ call'[<<g, t>>] # "none" <=> t \in InLanes(fetches'[g])
                      /\ outcome'[<<g, t>>] # "none" <=>
                           /\ phase'[g] = "fetching" /\ t \in missing'[g]
                           /\ t \notin InLanes(fetches'[g]) \cup Waiting(fetches'[g])
    OBVIOUS
  <2>1. CASE g = f
    BY <1>2, <1>3, <1>4, <1>11, <2>1
  <2>2. CASE g # f
    BY <1>3, <1>4, <1>6, <1>9, <2>2 DEF RoundInv, FetchesInv
  <2> QED BY <2>1, <2>2
<1>13. FetchesInv'
  BY <1>6, <1>7, <1>8, <1>12 DEF FetchesInv
<1> QED BY <1>5, <1>13 DEF RoundInv

\* Every step of a fetch either moves its call or ends it.
LEMMA FetchStepShape ==
  ASSUME RoundInv, NEW x \in Fetch, FetchStep(x)
  PROVE  /\ call[x] # "none"
         /\ \/ /\ \E to \in CallAt \cup {"waiting", "fetched"} : call' = [call EXCEPT ![x] = to]
               /\ tries' \in [Fetch -> 0..RetryAttempts]
               /\ UNCHANGED <<round, phase, missing, fetches, outcome>>
            \/ \E o \in {"processed", "failedToReprocess"} : FetchEnds(x, o)
            \/ /\ FetchEnds(x, "failedToRecover")
               /\ tries[x] = RetryAttempts /\ call[x] \in CallAt \ {"cut"}
<1> USE DEF RoundInv
<1>1. tries \in [Fetch -> 0..RetryAttempts] /\ tries[x] \in 0..RetryAttempts
  BY DEF FetchesInv
<1>2. CASE Send(x)
  BY <1>1, <1>2 DEF Send, Moves, CallAt
<1>3. CASE Responds(x)
  <2>1. PICK at \in ResponseEvents(call[x]) : Moves(x, at)
    BY <1>3 DEF Responds
  <2>2. at \in CallAt /\ call[x] # "none"
    BY DEF ResponseEvents, CallAt
  <2> QED BY <1>1, <2>1, <2>2 DEF Moves
<1>4. CASE TimesOut(x)
  <2>1. PICK at \in OnTimeout(call[x]) : Moves(x, at)
    BY <1>4 DEF TimesOut
  <2>2. at \in CallAt /\ call[x] # "none"
    BY DEF OnTimeout, CallAt
  <2> QED BY <1>1, <2>1, <2>2 DEF Moves
<1>5. CASE IsCutOff(x)
  <2>1. PICK at \in CutOff(call[x]) : Moves(x, at)
    BY <1>5 DEF IsCutOff
  <2>2. at \in CallAt /\ call[x] # "none"
    BY DEF CutOff, CallAt
  <2> QED BY <1>1, <2>1, <2>2 DEF Moves
<1>6. CASE CallFails(x)
  <2>1. call[x] \in CallAt \ {"cut"} /\ call[x] # "none"
    BY <1>6 DEF CallFails, ErrorEnds, ResponseEnds, CallAt
  <2>2. CASE tries[x] < RetryAttempts
    <3>1. tries' = [tries EXCEPT ![x] = tries[x] + 1] /\ tries[x] + 1 \in 0..RetryAttempts
      BY <1>1, <1>6, <2>2, RoundConstants DEF CallFails
    <3>2. tries' \in [Fetch -> 0..RetryAttempts]
      BY <1>1, <3>1
    <3> QED BY <1>6, <2>1, <2>2, <3>2 DEF CallFails
  <2>3. CASE ~(tries[x] < RetryAttempts)
    <3>1. tries[x] = RetryAttempts
      BY <1>1, <2>3, RoundConstants
    <3> QED BY <1>6, <2>1, <2>3, <3>1 DEF CallFails
  <2> QED BY <2>2, <2>3
<1>7. CASE CallSucceeds(x)
  BY <1>1, <1>7 DEF CallSucceeds, Moves
<1>8. CASE ProcessVaa(x)
  BY <1>8 DEF ProcessVaa
<1> QED BY <1>2, <1>3, <1>4, <1>5, <1>6, <1>7, <1>8 DEF FetchStep

\* Every step keeps the invariant.
LEMMA RoundInvNext == ASSUME RoundInv, [RoundNext]_roundVars PROVE RoundInv'
<1>1. CASE StartRound
  BY <1>1, StartRoundKeeps
<1>2. ASSUME NEW f \in Filter, CheckStep(f)  PROVE RoundInv'
  BY <1>2, ScanKeeps, CheckOverKeeps DEF CheckStep
<1>3. ASSUME NEW x \in Fetch, FetchStep(x)  PROVE RoundInv'
  <2>1. call[x] # "none"
    BY <1>3, FetchStepShape
  <2>2. CASE /\ \E to \in CallAt \cup {"waiting", "fetched"} : call' = [call EXCEPT ![x] = to]
             /\ tries' \in [Fetch -> 0..RetryAttempts]
             /\ UNCHANGED <<round, phase, missing, fetches, outcome>>
    BY <2>1, <2>2, MovesKeeps
  <2>3. CASE \E o \in {"processed", "failedToReprocess", "failedToRecover"} : FetchEnds(x, o)
    BY <2>1, <2>3, FetchEndsKeeps
  <2> QED BY <1>3, <2>2, <2>3, FetchStepShape
<1>4. CASE UNCHANGED roundVars
  BY <1>4 DEF roundVars, fetchVars, RoundInv, LanesInv, FetchesInv
<1> QED BY <1>1, <1>2, <1>3, <1>4 DEF RoundNext

\* Between the fetches and the rest of a check everything is settled: from the
\* places of mapConcurrent, none of which holds anything any more.
LEMMA OutcomesFromInv == ASSUME RoundInv PROVE AllHaveOutcomes
<1> SUFFICES ASSUME NEW f \in Filter, phase[f] = "fetching", Resolved(fetches[f]),
                    NEW s \in missing[f]
             PROVE  outcome[<<f, s>>] # "none" /\ call[<<f, s>>] = "none"
  BY DEF AllHaveOutcomes
<1>1. InLanes(fetches[f]) = {} /\ Waiting(fetches[f]) = {}
  BY FetchSets DEF RoundInv
<1>2. s \in Leap
  BY DEF RoundInv, LanesInv
<1> QED BY <1>1, <1>2 DEF RoundInv, FetchesInv

\* AllHaveOutcomes: a check goes on to look ahead only when each missing
\* sequence was processed, or counted as failed, and no call for it is under way.
THEOREM ChecksAreComplete == RoundSpec => []AllHaveOutcomes
<1>1. RoundSpec => []RoundInv
  BY RoundInvInit, RoundInvNext, PTL DEF RoundSpec
<1>2. RoundInv => AllHaveOutcomes
  BY OutcomesFromInv
<1> QED BY <1>1, <1>2, PTL

\* A step gives a sequence up only with all of its tries used.
LEMMA GivenUpStep ==
  ASSUME RoundInv, [RoundNext]_roundVars, NEW x \in Fetch,
         outcome'[x] = "failedToRecover", outcome[x] = "none"
  PROVE  tries[x] = RetryAttempts /\ call[x] \in CallAt \ {"cut"}
<1>1. outcome \in [Fetch -> {"none", "processed", "failedToRecover", "failedToReprocess"}]
  BY DEF RoundInv, FetchesInv
<1>2. CASE StartRound \/ UNCHANGED roundVars
  BY <1>2 DEF StartRound, roundVars, fetchVars
<1>3. ASSUME NEW f \in Filter, CheckStep(f)  PROVE FALSE
  BY <1>3 DEF CheckStep, Scan, CheckFails, CheckSucceeds
<1>4. ASSUME NEW z \in Fetch, FetchStep(z)
      PROVE  tries[x] = RetryAttempts /\ call[x] \in CallAt \ {"cut"}
  <2>1. CASE UNCHANGED outcome
    BY <2>1
  <2>2. ASSUME NEW o \in {"processed", "failedToReprocess"}, FetchEnds(z, o)  PROVE FALSE
    BY <1>1, <2>2 DEF FetchEnds
  <2>3. CASE /\ FetchEnds(z, "failedToRecover")
             /\ tries[z] = RetryAttempts /\ call[z] \in CallAt \ {"cut"}
    <3>1. z = x
      BY <1>1, <2>3 DEF FetchEnds
    <3> QED BY <2>3, <3>1
  <2> QED BY <1>4, <2>1, <2>2, <2>3, FetchStepShape
<1> QED BY <1>2, <1>3, <1>4 DEF RoundNext

\* GivenUpAfterAllTries: tryFetchVaa rejects only after the last of its calls.
THEOREM TriedBeforeGivenUp == RoundSpec => GivenUpAfterAllTries
<1>1. RoundSpec => []RoundInv
  BY RoundInvInit, RoundInvNext, PTL DEF RoundSpec
<1>2. RoundInv /\ [RoundNext]_roundVars =>
        [\A x \in Fetch :
           outcome'[x] = "failedToRecover" /\ outcome[x] = "none" =>
             tries[x] = RetryAttempts /\ call[x] \in CallAt \ {"cut"}]_roundVars
  BY GivenUpStep
<1> QED BY <1>1, <1>2, PTL DEF RoundSpec, GivenUpAfterAllTries

-----------------------------------------------------------------------------
(* MissedVaaRound implements BoundedForEach.                               *)

\* BoundedForEach has its own instance of FiniteSets.
LEMMA SameCardinality == \A S : ForEach!Cardinality(S) = Cardinality(S)
BY DEF ForEach!Cardinality, Cardinality

\* The state of one filter's mapConcurrent as BoundedForEach sees it.
LEMMA FullFromOK ==
  ASSUME NEW T, T \subseteq Leap, NEW m, MapOK(m, T, FetchConcurrency)
  PROVE  ForEach!Full(Waiting(m), InLanes(m))
<1>1. Ended \notin T /\ FetchConcurrency \in Nat \ {0}
  BY RoundConstants
<1>2. Waiting(m) \cap InLanes(m) = {}
  BY <1>1, MapSets
<1>3. Cardinality(InLanes(m)) <= FetchConcurrency
      /\ (Waiting(m) # {} => Cardinality(InLanes(m)) = FetchConcurrency)
  BY <1>1, LanesBounded
<1> QED BY <1>2, <1>3, SameCardinality DEF ForEach!Full

\* A step that leaves the mapConcurrents alone is none of BoundedForEach's.
LEMMA ForEachStutters ==
  ASSUME UNCHANGED fetches
  PROVE  UNCHANGED ForEach!fvars
BY DEF ForEach!fvars

\* Scan opens the loop of its filter.
LEMMA ScanOpens ==
  ASSUME RoundInv, RoundInv', NEW f \in Filter, Scan(f)
  PROVE  ForEach!Open(f)
<1> DEFINE m == Started(Ascending(missing[f]), FetchConcurrency)
<1>1. /\ missing[f] \subseteq Leap /\ missing[f] \subseteq Nat /\ IsFiniteSet(missing[f])
      /\ Ended \notin missing[f]
  BY RoundConstants DEF RoundInv, LanesInv
<1>2. /\ MapOK(m, missing[f], FetchConcurrency)
      /\ InLanes(m) \cup Waiting(m) = missing[f]
  BY <1>1, RoundConstants, AscendingOK, StartedOK
<1>3. fetches' = [fetches EXCEPT ![f] = m]
  BY DEF Scan
<1> HIDE DEF m
<1>4. ForEach!Full(Waiting(m), InLanes(m))
  BY <1>1, <1>2, FullFromOK
<1>5. Waiting(m) = missing[f] \ InLanes(m) /\ InLanes(m) \subseteq missing[f]
  BY <1>1, <1>2, RoundConstants, MapSets
<1>6. InLanes(fetches[f]) = {} /\ Waiting(fetches[f]) = {}
  BY FetchSets DEF RoundInv, LanesInv, Scan
<1>7. ForEach!Now(f, missing[f] \ InLanes(m), InLanes(m))
  <2>1. \A g \in Filter : fetches'[g] = IF g = f THEN m ELSE fetches[g]
    BY <1>3 DEF RoundInv, LanesInv
  <2>2. [g \in Filter |-> Waiting(fetches[g])]' =
          [[g \in Filter |-> Waiting(fetches[g])] EXCEPT ![f] = Waiting(m)]
    BY <2>1
  <2>3. [g \in Filter |-> InLanes(fetches[g])]' =
          [[g \in Filter |-> InLanes(fetches[g])] EXCEPT ![f] = InLanes(m)]
    BY <2>1
  <2> QED BY <1>4, <1>5, <2>2, <2>3 DEF ForEach!Now
<1> QED BY <1>1, <1>5, <1>6, <1>7 DEF ForEach!Open

\* The end of a fetch ends its task, and may begin one that waits.
LEMMA FetchEndsEnds ==
  ASSUME RoundInv, NEW f \in Filter, NEW s \in Leap, NEW o, call[<<f, s>>] # "none",
         FetchEnds(<<f, s>>, o)
  PROVE  ForEach!End(f, s)
<1> DEFINE m == fetches[f]
           n == FnReturned(fetches[f], LaneOf(fetches[f], s))
<1>1. /\ s \in InLanes(m) /\ MapOK(n, missing[f], FetchConcurrency)
      /\ \/ /\ Waiting(m) = {} /\ Waiting(n) = {}
            /\ InLanes(n) = InLanes(m) \ {s}
         \/ \E y \in Waiting(m) :
              /\ Waiting(n) = Waiting(m) \ {y}
              /\ InLanes(n) = (InLanes(m) \ {s}) \cup {y}
  BY FetchEndsMoves
<1>2. fetches' = [fetches EXCEPT ![f] = n]
  BY DEF FetchEnds
<1> HIDE DEF n
<1>3. ForEach!Full(Waiting(n), InLanes(n))
  <2>1. missing[f] \subseteq Leap
    BY DEF RoundInv, LanesInv
  <2> QED BY <1>1, <2>1, FullFromOK
<1>4. \E begun \in SUBSET Waiting(m) :
        Waiting(n) = Waiting(m) \ begun /\ InLanes(n) = (InLanes(m) \ {s}) \cup begun
  <2>1. CASE Waiting(m) = {} /\ Waiting(n) = {} /\ InLanes(n) = InLanes(m) \ {s}
    BY <2>1
  <2>2. ASSUME NEW y \in Waiting(m), Waiting(n) = Waiting(m) \ {y},
               InLanes(n) = (InLanes(m) \ {s}) \cup {y}
        PROVE  \E begun \in SUBSET Waiting(m) :
                 Waiting(n) = Waiting(m) \ begun /\ InLanes(n) = (InLanes(m) \ {s}) \cup begun
    <3> WITNESS {y} \in SUBSET Waiting(m)
    <3> QED BY <2>2
  <2> QED BY <1>1, <2>1, <2>2
<1>5. PICK begun \in SUBSET Waiting(m) :
        Waiting(n) = Waiting(m) \ begun /\ InLanes(n) = (InLanes(m) \ {s}) \cup begun
  BY <1>4
<1>6. ForEach!Now(f, Waiting(m) \ begun, (InLanes(m) \ {s}) \cup begun)
  <2>1. \A g \in Filter : fetches'[g] = IF g = f THEN n ELSE fetches[g]
    BY <1>2 DEF RoundInv, LanesInv
  <2>2. [g \in Filter |-> Waiting(fetches[g])]' =
          [[g \in Filter |-> Waiting(fetches[g])] EXCEPT ![f] = Waiting(n)]
    BY <2>1
  <2>3. [g \in Filter |-> InLanes(fetches[g])]' =
          [[g \in Filter |-> InLanes(fetches[g])] EXCEPT ![f] = InLanes(n)]
    BY <2>1
  <2> QED BY <1>3, <1>5, <2>2, <2>3 DEF ForEach!Now
<1> QED BY <1>1, <1>5, <1>6 DEF ForEach!End

\* Every step is one of BoundedForEach or none.
LEMMA RoundNextIsForEach ==
  ASSUME RoundInv, RoundInv', [RoundNext]_roundVars
  PROVE  [ForEach!FNext]_(ForEach!fvars)
<1>1. CASE UNCHANGED fetches
  BY <1>1, ForEachStutters
<1>2. ASSUME NEW f \in Filter, CheckStep(f)  PROVE ForEach!FNext \/ UNCHANGED fetches
  BY <1>2, ScanOpens DEF CheckStep, CheckFails, CheckSucceeds, ForEach!FNext
<1>3. ASSUME NEW x \in Fetch, FetchStep(x)  PROVE ForEach!FNext \/ UNCHANGED fetches
  <2>1. PICK f \in Filter, s \in Leap : x = <<f, s>>
    BY DEF Fetch
  <2>2. ASSUME NEW o, FetchEnds(x, o)  PROVE ForEach!FNext
    <3>1. ForEach!End(f, s)
      BY <1>3, <2>1, <2>2, FetchStepShape, FetchEndsEnds
    <3> QED BY <3>1 DEF ForEach!FNext
  <2> QED BY <1>3, <2>2, FetchStepShape
<1>4. CASE StartRound \/ UNCHANGED roundVars
  BY <1>1, <1>4 DEF StartRound, roundVars, fetchVars
<1> QED BY <1>1, <1>2, <1>3, <1>4 DEF RoundNext

\* FetchesEachOnce: the mapConcurrent of every check works on each missing
\* sequence once, within the bound, and leaves no lane idle while one waits.
THEOREM FetchesAreForEach == RoundSpec => FetchesEachOnce
<1>1. RoundSpec => []RoundInv
  BY RoundInvInit, RoundInvNext, PTL DEF RoundSpec
<1>2. RoundInit => ForEach!FInit
  <2> SUFFICES ASSUME RoundInit  PROVE ForEach!FInit
    OBVIOUS
  <2>1. \A f \in Filter : Waiting(fetches[f]) = {} /\ InLanes(fetches[f]) = {}
    BY NothingStarted DEF RoundInit
  <2> QED BY <2>1 DEF ForEach!FInit
<1>3. RoundInv /\ RoundInv' /\ [RoundNext]_roundVars => [ForEach!FNext]_(ForEach!fvars)
  BY RoundNextIsForEach
<1> QED BY <1>1, <1>2, <1>3, PTL DEF RoundSpec, FetchesEachOnce, ForEach!FSpec
=============================================================================
