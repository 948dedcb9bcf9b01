-------------------------- MODULE RelayQueueProofs ---------------------------
(***************************************************************************)
(* Proofs about RelayQueue, for any processes, VAAs and limits, and any    *)
(* number of failures.                                                     *)
(*                                                                         *)
(* The invariant says what a lock is worth: only the run whose number a    *)
(* job's token holds can end the job, and a VAA that no failure has        *)
(* touched has at most one run, which holds its job.                       *)
(***************************************************************************)
EXTENDS RelayQueue, FiniteSetTheorems, SequenceTheorems, TLAPS

Finished == {"completed", "failed"}

\* The finished jobs in `ended' are finished, each there once.
EndedSound ==
  /\ \A i \in 1..Len(ended) : job[ended[i]] \in Finished
  /\ \A i, j \in 1..Len(ended) : ended[i] = ended[j] => i = j

\* A job that is to run has a try left.
TriesLeft(v) ==
  /\ made[v] <= Attempts + stalls[v] /\ made[v] <= starts[v]
  /\ job[v] \in {"waiting", "delayed"} => made[v] < Attempts + stalls[v]

\* No run has a number yet to be given, and one that holds its job and has
\* reached the end of the pipeline counts as such.
RunsKnown(v) ==
  \A e \in exec : e.vaa = v =>
    /\ e.n <= starts[v]
    /\ Holds(e) /\ e.at = "progress" => v \in ran

\* A VAA no failure has touched: its run, if there is one, holds its job, has
\* the end of the pipeline before it exactly if the VAA was not relayed yet,
\* and was counted by the metrics once behind it.
Clean(v) ==
  /\ \A e \in exec : e.vaa = v =>
       /\ Holds(e) /\ e.attempts = made[v]
       /\ e.at # "rejected" /\ (e.at = "progress" <=> v \in ran)
       /\ e.at = "progress" => Succeeded \in finishedVaas[v]
  /\ \A e, f \in exec : e.vaa = v /\ f.vaa = v => e = f
  /\ job[v] = "active" => token[v] # None
  /\ v \in ran => job[v] \notin {"waiting", "delayed"}
  /\ job[v] = "completed" => Succeeded \in finishedVaas[v]
  /\ job[v] = "failed" => (FailedForGood \in finishedVaas[v] <=> made[v] >= Attempts)
  /\ FailedForGood \in finishedVaas[v] => job[v] \in {"failed", "none"}

\* A VAA relayed twice has a cause for it; one that was relayed for an earlier
\* job only has been added again.
Causes == RelayedTwiceHasCause /\ relayed \subseteq ran \cup again

VaaInv(v) ==
  /\ TriesLeft(v) /\ RunsKnown(v) /\ (v \notin excuse => Clean(v))
  /\ v \in added => job[v] \in {"waiting", "active", "delayed"}

IInv ==
  /\ TypeOK /\ EndedSound /\ Causes
  /\ \A v \in Vaa : VaaInv(v)

-----------------------------------------------------------------------------
(* Operators.                                                              *)

LEMMA Labels ==
  /\ Succeeded \in Label /\ FailedForGood \in Label /\ Succeeded # FailedForGood
  /\ \A a, m \in Nat : /\ FailedWith(a, m) \in Label /\ FailedWith(a, m) # Succeeded
                       /\ FailedWith(a, m) = FailedForGood <=> a >= m
BY DEF Label, Succeeded, FailedForGood, FailedWith, hasReachedMaxAttempts

\* Removing one position of a sequence without repetitions removes its element.
LEMMA RemovedOnce ==
  ASSUME NEW S, NEW q \in Seq(S), NEW i \in 1..Len(q),
         \A j, k \in 1..Len(q) : q[j] = q[k] => j = k
  PROVE  /\ RemoveAt(q, i) \in Seq(S)
         /\ \A j \in 1..Len(RemoveAt(q, i)) :
              \E k \in 1..Len(q) : k # i /\ RemoveAt(q, i)[j] = q[k]
         /\ \A j, k \in 1..Len(RemoveAt(q, i)) : RemoveAt(q, i)[j] = RemoveAt(q, i)[k] => j = k
<1> DEFINE a == SubSeq(q, 1, i - 1)
           b == SubSeq(q, i + 1, Len(q))
           r == a \o b
<1>1. RemoveAt(q, i) = r
  BY DEF RemoveAt
<1>2. /\ a \in Seq(S) /\ Len(a) = i - 1 /\ \A j \in 1..Len(a) : a[j] = q[j]
      /\ b \in Seq(S) /\ Len(b) = Len(q) - i /\ \A j \in 1..Len(b) : b[j] = q[i + j]
  OBVIOUS
<1> HIDE DEF a, b
<1>3. /\ r \in Seq(S) /\ Len(r) = Len(q) - 1
      /\ \A j \in 1..Len(r) : r[j] = IF j < i THEN q[j] ELSE q[j + 1]
  <2>1. r \in Seq(S) /\ Len(r) = Len(a) + Len(b)
    BY <1>2, ConcatProperties
  <2>2. \A j \in 1..Len(r) : r[j] = IF j <= Len(a) THEN a[j] ELSE b[j - Len(a)]
    BY <1>2, <2>1, ConcatProperties
  <2> HIDE DEF r
  <2>3. ASSUME NEW j \in 1..Len(r) PROVE r[j] = IF j < i THEN q[j] ELSE q[j + 1]
    <3>1. CASE j < i
      BY <1>2, <2>1, <2>2, <3>1
    <3>2. CASE ~(j < i)
      <4>1. j - Len(a) \in 1..Len(b) /\ i + (j - Len(a)) = j + 1
        BY <1>2, <2>1, <3>2
      <4>2. r[j] = b[j - Len(a)]
        BY <1>2, <2>2, <3>2
      <4> QED
        BY <1>2, <3>2, <4>1, <4>2
    <3> QED
      BY <3>1, <3>2
  <2> QED
    BY <1>2, <2>1, <2>3
<1> HIDE DEF r
<1>4. \A j \in 1..Len(r) : \E k \in 1..Len(q) : k # i /\ r[j] = q[k]
  BY <1>3
<1>5. ASSUME NEW j \in 1..Len(r), NEW k \in 1..Len(r), r[j] = r[k] PROVE j = k
  BY <1>3, <1>5
<1> QED
  BY <1>1, <1>3, <1>4, <1>5

\* A job that ends may push another finished one out, or itself.
LEMMA EndJobEffect ==
  ASSUME TypeOK, EndedSound, NEW v \in Vaa, job[v] = "active",
         NEW end \in Finished, EndJob(v, end)
  PROVE  /\ job' \in [Vaa -> JobState] /\ ended' \in Seq(Vaa)
         /\ job'[v] \in {end, "none"}
         /\ \A w \in Vaa \ {v} : job'[w] = job[w] \/ (job[w] \in Finished /\ job'[w] = "none")
         /\ EndedSound'
         /\ token' = [token EXCEPT ![v] = None] /\ added' = added \ {v}
<1> DEFINE state == [job EXCEPT ![v] = end]
           q == Append(ended, v)
           alike == {i \in DOMAIN q : state[q[i]] = end}
<1> USE DEF TypeOK, Finished
<1>1. state \in [Vaa -> JobState]
  BY DEF JobState
<1>2. /\ q \in Seq(Vaa) /\ DOMAIN q = 1..Len(q) /\ Len(q) = Len(ended) + 1
      /\ \A i \in 1..Len(ended) : q[i] = ended[i] /\ ended[i] # v
      /\ q[Len(ended) + 1] = v
  <2>1. ended \in Seq(Vaa)
    OBVIOUS
  <2>2. \A i \in 1..Len(ended) : ended[i] # v
    BY DEF EndedSound
  <2> QED
    BY <2>1, <2>2
<1> HIDE DEF q
<1>3. \A i \in 1..Len(q) : state[q[i]] \in Finished
  <2> SUFFICES ASSUME NEW i \in 1..Len(q) PROVE state[q[i]] \in Finished
    OBVIOUS
  <2>1. CASE i \in 1..Len(ended)
    <3>1. job[ended[i]] \in Finished /\ ended[i] \in Vaa
      BY <2>1 DEF EndedSound
    <3> QED
      BY <1>2, <2>1, <3>1
  <2>2. CASE i = Len(ended) + 1
    BY <1>2, <2>2
  <2> QED
    BY <1>2, <2>1, <2>2
<1>4. \A i, j \in 1..Len(q) : q[i] = q[j] => i = j
  <2> SUFFICES ASSUME NEW i \in 1..Len(q), NEW j \in 1..Len(q), q[i] = q[j] PROVE i = j
    OBVIOUS
  <2>1. i \in 1..Len(ended) \/ i = Len(ended) + 1
    BY <1>2
  <2>2. j \in 1..Len(ended) \/ j = Len(ended) + 1
    BY <1>2
  <2>3. \A k, l \in 1..Len(ended) : ended[k] = ended[l] => k = l
    BY DEF EndedSound
  <2>4. CASE i \in 1..Len(ended) /\ j \in 1..Len(ended)
    BY <1>2, <2>3, <2>4
  <2>5. CASE i = Len(ended) + 1 \/ j = Len(ended) + 1
    BY <1>2, <2>1, <2>2, <2>5
  <2> QED
    BY <2>1, <2>2, <2>4, <2>5
<1>5. token' = [token EXCEPT ![v] = None] /\ added' = added \ {v}
  BY DEF EndJob
<1>6. \/ job' = state /\ ended' = q
      \/ \E i \in alike : job' = [state EXCEPT ![q[i]] = "none"] /\ ended' = RemoveAt(q, i)
  BY DEF EndJob, q
<1>7. CASE job' = state /\ ended' = q
  BY <1>1, <1>2, <1>3, <1>4, <1>5, <1>7 DEF EndedSound
<1>8. ASSUME NEW i \in alike, job' = [state EXCEPT ![q[i]] = "none"], ended' = RemoveAt(q, i)
      PROVE  /\ job' \in [Vaa -> JobState] /\ ended' \in Seq(Vaa)
             /\ job'[v] \in {end, "none"}
             /\ \A w \in Vaa \ {v} : job'[w] = job[w] \/ (job[w] \in Finished /\ job'[w] = "none")
             /\ EndedSound'
  <2>1. i \in 1..Len(q) /\ q[i] \in Vaa
    BY <1>2
  <2>0. /\ ended' \in Seq(Vaa)
        /\ \A j \in 1..Len(ended') : \E k \in 1..Len(q) : k # i /\ ended'[j] = q[k]
        /\ \A j, k \in 1..Len(ended') : ended'[j] = ended'[k] => j = k
    <3>1. q \in Seq(Vaa) /\ i \in 1..Len(q) /\ \A j, k \in 1..Len(q) : q[j] = q[k] => j = k
      BY <1>2, <1>4, <2>1
    <3> HIDE DEF alike, state, TypeOK
    <3>2. /\ RemoveAt(q, i) \in Seq(Vaa)
          /\ \A j \in 1..Len(RemoveAt(q, i)) :
               \E k \in 1..Len(q) : k # i /\ RemoveAt(q, i)[j] = q[k]
          /\ \A j, k \in 1..Len(RemoveAt(q, i)) :
               RemoveAt(q, i)[j] = RemoveAt(q, i)[k] => j = k
      BY ONLY <3>1, RemovedOnce, Zenon
    <3> QED
      BY ONLY <1>8, <3>2, Zenon
  <2>2. job' \in [Vaa -> JobState]
    BY <1>1, <1>8, <2>1 DEF JobState
  <2>3. job'[v] \in {end, "none"}
    BY <1>1, <1>8, <2>1
  <2>4. \A w \in Vaa \ {v} : job'[w] = job[w] \/ (job[w] \in Finished /\ job'[w] = "none")
    <3> SUFFICES ASSUME NEW w \in Vaa \ {v}, w = q[i] PROVE job[w] \in Finished /\ job'[w] = "none"
      BY <1>8
    <3> QED
      BY <1>1, <1>3, <1>8, <2>1
  <2>5. ended' \in Seq(Vaa)
    BY <2>0
  <2>6. ASSUME NEW j \in 1..Len(ended') PROVE job'[ended'[j]] \in Finished
    <3>1. PICK k \in 1..Len(q) : k # i /\ ended'[j] = q[k]
      BY <2>0
    <3>2. q[k] # q[i] /\ q[k] \in Vaa
      BY <1>2, <1>4, <2>1, <3>1
    <3> QED
      BY <1>1, <1>3, <1>8, <2>1, <3>1, <3>2
  <2>7. \A j, k \in 1..Len(ended') : ended'[j] = ended'[k] => j = k
    BY <2>0
  <2> QED
    BY <2>2, <2>3, <2>4, <2>5, <2>6, <2>7 DEF EndedSound
<1> QED
  BY <1>5, <1>6, <1>7, <1>8

-----------------------------------------------------------------------------
(* Steps.                                                                  *)

\* A step about v, which may push finished jobs out of the queue.
OnlyVaa(v) ==
  /\ \A w \in Vaa \ {v} :
       /\ job'[w] = job[w] \/ (job[w] \in Finished /\ job'[w] = "none")
       /\ made'[w] = made[w] /\ stalls'[w] = stalls[w] /\ token'[w] = token[w]
       /\ starts'[w] = starts[w] /\ finishedVaas'[w] = finishedVaas[w]
       /\ ((w \in ran') <=> (w \in ran)) /\ ((w \in relayed') <=> (w \in relayed))
       /\ w \in added' => w \in added
  /\ \A e \in exec \cup exec' : e.vaa # v => (e \in exec <=> e \in exec')
  /\ excuse \subseteq excuse' /\ again \subseteq again'

\* What such a step has to show.
LEMMA StepAboutVaa ==
  ASSUME IInv, NEW v \in Vaa, OnlyVaa(v),
         TypeOK', EndedSound', Causes', VaaInv(v)'
  PROVE  IInv'
<1> SUFFICES ASSUME NEW w \in Vaa, w # v PROVE VaaInv(w)'
  BY DEF IInv
<1>1. VaaInv(w)
  BY DEF IInv
<1>2. /\ job'[w] = job[w] \/ (job[w] \in Finished /\ job'[w] = "none")
      /\ made'[w] = made[w] /\ stalls'[w] = stalls[w] /\ token'[w] = token[w]
      /\ starts'[w] = starts[w] /\ finishedVaas'[w] = finishedVaas[w]
      /\ (w \in ran') <=> (w \in ran)
      /\ w \in added' => w \in added
      /\ \A e \in exec' : e.vaa = w => e \in exec
      /\ w \notin excuse' => w \notin excuse
  BY DEF OnlyVaa
<1>3. TriesLeft(w)'
  BY <1>1, <1>2 DEF VaaInv, TriesLeft, Finished
<1>4. \A e \in exec' : e.vaa = w => (Holds(e)' => Holds(e))
  BY <1>2 DEF Holds, Finished
<1>5. RunsKnown(w)'
  BY <1>1, <1>2, <1>4 DEF VaaInv, RunsKnown
<1>6. ASSUME w \notin excuse' PROVE Clean(w)'
  <2>1. Clean(w)
    BY <1>1, <1>2, <1>6 DEF VaaInv
  <2>2. job[w] \in Finished => \A e \in exec : e.vaa # w
    BY <2>1 DEF Clean, Holds, Finished
  <2>3. \A e \in exec' : e.vaa = w => Holds(e)'
    BY <1>2, <2>1, <2>2 DEF Clean, Holds
  <2> QED
    BY <1>2, <2>1, <2>3 DEF Clean, Finished
<1>7. w \in added' => job'[w] \in {"waiting", "active", "delayed"}
  BY <1>1, <1>2 DEF VaaInv, Finished
<1> QED
  BY <1>3, <1>5, <1>6, <1>7 DEF VaaInv

\* A step that leaves the jobs and the runs alone.
LEMMA QuietStep ==
  ASSUME IInv, UNCHANGED <<jobVars, exec, history>>, TypeOK'
  PROVE  IInv'
BY DEF IInv, jobVars, history, EndedSound, Causes, RelayedTwiceHasCause, VaaInv, TriesLeft,
       RunsKnown, Clean, Holds

\* The list of finished jobs stays as it is when a job in progress changes.
LEMMA EndedKept ==
  ASSUME EndedSound, TypeOK, NEW v \in Vaa, job[v] \notin Finished, ended' = ended,
         \A w \in Vaa \ {v} : job'[w] = job[w]
  PROVE  EndedSound'
<1>1. ASSUME NEW i \in 1..Len(ended) PROVE job'[ended[i]] \in Finished
  <2>1. ended[i] \in Vaa /\ ended[i] # v
    BY DEF EndedSound, TypeOK
  <2> QED
    BY <2>1 DEF EndedSound
<1> QED
  BY <1>1 DEF EndedSound

-----------------------------------------------------------------------------
LEMMA RememberType ==
  ASSUME TypeOK, NEW p \in Proc, NEW v \in Vaa, Remember(p, v)
  PROVE  cache' \in [Proc -> SUBSET Vaa] /\ \A o \in Proc : Cardinality(cache'[o]) <= CacheSize
<1> USE DEF TypeOK
<1>1. \A o \in Proc : IsFiniteSet(cache[o])
  BY ConstantsAssumption, FS_Subset
<1>2. CASE v \in cache[p] \/ Cardinality(cache[p]) < CacheSize
  <2>1. cache' = [cache EXCEPT ![p] = cache[p] \cup {v}]
    BY <1>2 DEF Remember
  <2>2. Cardinality(cache[p] \cup {v}) <= CacheSize
    <3>1. CASE v \in cache[p]
      <4>1. cache[p] \cup {v} = cache[p]
        BY <3>1
      <4> QED
        BY <4>1
    <3>2. CASE v \notin cache[p]
      <4>1. Cardinality(cache[p] \cup {v}) = Cardinality(cache[p]) + 1 /\ Cardinality(cache[p]) \in Nat
        BY <1>1, <3>2, FS_AddElement, FS_CardinalityType
      <4> QED
        BY <1>2, <3>2, <4>1, ConstantsAssumption
    <3> QED
      BY <3>1, <3>2
  <2> QED
    BY <2>1, <2>2
<1>3. CASE ~(v \in cache[p] \/ Cardinality(cache[p]) < CacheSize)
  <2>1. PICK w \in cache[p] : cache' = [cache EXCEPT ![p] = (cache[p] \ {w}) \cup {v}]
    BY <1>3 DEF Remember
  <2>2. Cardinality((cache[p] \ {w}) \cup {v}) <= CacheSize
    <3>1. /\ IsFiniteSet(cache[p] \ {w}) /\ Cardinality(cache[p] \ {w}) = Cardinality(cache[p]) - 1
          /\ Cardinality(cache[p]) \in Nat
      BY <1>1, FS_RemoveElement, FS_CardinalityType
    <3>2. Cardinality((cache[p] \ {w}) \cup {v}) = Cardinality(cache[p] \ {w}) + 1
      BY <1>3, <3>1, FS_AddElement
    <3> QED
      BY <3>1, <3>2, ConstantsAssumption
  <2> QED
    BY <2>1, <2>2
<1> QED
  BY <1>2, <1>3

LEMMA IntakeKeepsIInv ==
  ASSUME IInv,
         \/ \E p \in Proc, v \in Vaa, c \in Caller : Receive(p, v, c)
         \/ \E x \in intake : FiltersPass(x) \/ FiltersReject(x)
  PROVE  IInv'
<1>1. ASSUME NEW p \in Proc, NEW v \in Vaa, NEW c \in Caller, Receive(p, v, c) PROVE IInv'
  <2>1. TypeOK'
    BY <1>1 DEF IInv, TypeOK, Receive, Call, RelayedTwiceHasCause, jobVars, history
  <2> QED
    BY <1>1, <2>1, QuietStep DEF Receive
<1>2. ASSUME NEW x \in intake, FiltersPass(x) PROVE IInv'
  <2>1. TypeOK'
    BY <1>2 DEF IInv, TypeOK, FiltersPass, Call, RelayedTwiceHasCause, jobVars, history
  <2> QED
    BY <1>2, <2>1, QuietStep DEF FiltersPass
<1>3. ASSUME NEW x \in intake, FiltersReject(x) PROVE IInv'
  <2>1. x.proc \in Proc /\ x.vaa \in Vaa
    BY DEF IInv, TypeOK, Call
  <2>2. cache' \in [Proc -> SUBSET Vaa] /\ \A o \in Proc : Cardinality(cache'[o]) <= CacheSize
    BY <1>3, <2>1, RememberType DEF IInv, FiltersReject
  <2>3. intake' \subseteq Call
    BY <1>3 DEF IInv, TypeOK, FiltersReject, Call
  <2>4. TypeOK'
    BY <1>3, <2>2, <2>3 DEF IInv, TypeOK, FiltersReject, RelayedTwiceHasCause, jobVars, history
  <2> QED
    BY <1>3, <2>4, QuietStep DEF FiltersReject
<1> QED
  BY <1>1, <1>2, <1>3

LEMMA ProcessKeepsIInv ==
  ASSUME IInv, NEW p \in Proc, Stop(p) \/ StopReturns(p) \/ Restart(p)
  PROVE  IInv'
<1>1. TypeOK'
  BY DEF IInv, TypeOK, Stop, StopReturns, Restart, RelayedTwiceHasCause, jobVars, history
<1> QED
  BY <1>1, QuietStep DEF Stop, StopReturns, Restart

-----------------------------------------------------------------------------
LEMMA InitIInv == Init => IInv
<1> SUFFICES ASSUME Init PROVE IInv
  OBVIOUS
<1>1. TypeOK
  BY ConstantsAssumption, FS_EmptySet DEF Init, TypeOK, JobState
<1>2. EndedSound /\ Causes
  BY DEF Init, EndedSound, Causes, RelayedTwiceHasCause
<1>3. ASSUME NEW v \in Vaa PROVE VaaInv(v)
  BY ConstantsAssumption DEF Init, VaaInv, TriesLeft, RunsKnown, Clean
<1> QED
  BY <1>1, <1>2, <1>3 DEF IInv

\* A job that is added is new; it starts with all its tries and no runs.
LEMMA AddKeepsIInv ==
  ASSUME IInv, NEW x \in intake, AddVaaToQueue(x) \/ AddFails(x)
  PROVE  IInv'
<1> DEFINE v == x.vaa
<1>0. v \in Vaa /\ TypeOK /\ VaaInv(v) /\ EndedSound
  BY DEF IInv, TypeOK, Call
<1> HIDE DEF v
<1>1. /\ NewJob(v) \/ UNCHANGED <<job, made, stalls, ran, again, finishedVaas>>
      /\ intake' = intake \ {x}
      /\ UNCHANGED <<proc, cache, token, ended, exec, starts, relayed, twice, excuse, lostLock>>
      /\ faults' = faults \/ (faults < MaxFaults /\ faults' = faults + 1)
  BY DEF AddVaaToQueue, AddFails, Fault, v
<1>2. \/ /\ job[v] = "none"
         /\ job' = [job EXCEPT ![v] = "waiting"]
         /\ made' = [made EXCEPT ![v] = 0] /\ stalls' = [stalls EXCEPT ![v] = 0]
         /\ ran' = ran \ {v} /\ again' = again \cup ({v} \cap relayed)
         /\ finishedVaas' = [finishedVaas EXCEPT ![v] = {}]
      \/ UNCHANGED <<job, made, stalls, ran, again, finishedVaas>>
  BY <1>1 DEF NewJob
<1>3. /\ added' \subseteq added \cup {v}
      /\ v \in added' => v \in added \/ job'[v] \in {"waiting", "active", "delayed"}
  <2>1. CASE AddVaaToQueue(x)
    <3>1. added' = IF job[v] \in {"completed", "failed"} THEN added ELSE added \cup {v}
      BY <2>1 DEF AddVaaToQueue, v
    <3>2. job[v] \in JobState /\ (job[v] = "none" => job'[v] = "waiting")
          /\ (job[v] # "none" => job' = job)
      BY <1>0, <2>1 DEF AddVaaToQueue, NewJob, TypeOK, v
    <3> QED
      BY <3>1, <3>2 DEF JobState
  <2>2. CASE AddFails(x)
    BY <2>2 DEF AddFails
  <2> QED
    BY <2>1, <2>2
<1>4. TypeOK'
  <2>1. job' \in [Vaa -> JobState] /\ ran' \subseteq Vaa /\ again' \subseteq Vaa
    <3>1. /\ "waiting" \in JobState /\ job \in [Vaa -> JobState]
          /\ ran \subseteq Vaa /\ again \subseteq Vaa
      BY <1>0 DEF TypeOK, JobState
    <3>2. ran' \subseteq Vaa /\ again' \subseteq Vaa
      BY <1>0, <1>2, <3>1
    <3>3. job' \in [Vaa -> JobState]
      BY <1>2, <3>1
    <3> QED
      BY <3>2, <3>3
  <2>3. made' \in [Vaa -> 0..MaxStarts] /\ stalls' \in [Vaa -> 0..MaxStalls]
    <3>1. /\ made \in [Vaa -> 0..MaxStarts] /\ stalls \in [Vaa -> 0..MaxStalls]
          /\ 0 \in 0..MaxStarts /\ 0 \in 0..MaxStalls
      BY <1>0, ConstantsAssumption DEF TypeOK
    <3> QED
      BY <1>2, <3>1
  <2>4. finishedVaas' \in [Vaa -> SUBSET Label]
    BY <1>0, <1>2 DEF TypeOK
  <2>2. faults' \in 0..MaxFaults /\ added' \subseteq Vaa
    BY <1>0, <1>1, <1>3, ConstantsAssumption DEF TypeOK
  <2> QED
    BY <1>0, <1>1, <2>1, <2>2, <2>3, <2>4 DEF TypeOK
<1>5. \A w \in Vaa \ {v} :
        /\ job'[w] = job[w] /\ made'[w] = made[w] /\ stalls'[w] = stalls[w]
        /\ finishedVaas'[w] = finishedVaas[w] /\ ((w \in ran') <=> (w \in ran))
  BY <1>0, <1>2 DEF TypeOK
<1>51. again \subseteq again'
  BY <1>2
<1>6. OnlyVaa(v)
  BY <1>1, <1>3, <1>5, <1>51 DEF OnlyVaa
<1>7. EndedSound'
  <2>1. CASE job[v] = "none"
    BY <1>0, <1>1, <1>5, <2>1, EndedKept DEF Finished
  <2>2. CASE job[v] # "none"
    BY <1>0, <1>1, <1>2, <2>2 DEF EndedSound
  <2> QED
    BY <2>1, <2>2
<1>8. Causes'
  BY <1>1, <1>2 DEF IInv, Causes, RelayedTwiceHasCause
<1>9. VaaInv(v)'
  <2>1. CASE UNCHANGED <<job, made, stalls, ran, finishedVaas>>
    <3>1. TriesLeft(v)' /\ RunsKnown(v)' /\ (v \notin excuse' => Clean(v)')
      BY <1>0, <1>1, <2>1 DEF VaaInv, TriesLeft, RunsKnown, Clean, Holds
    <3>2. v \in added' => job'[v] \in {"waiting", "active", "delayed"}
      BY <1>0, <1>3, <2>1 DEF VaaInv
    <3> QED
      BY <3>1, <3>2 DEF VaaInv
  <2>2. CASE /\ job[v] = "none"
             /\ job' = [job EXCEPT ![v] = "waiting"]
             /\ made' = [made EXCEPT ![v] = 0] /\ stalls' = [stalls EXCEPT ![v] = 0]
             /\ ran' = ran \ {v} /\ finishedVaas' = [finishedVaas EXCEPT ![v] = {}]
    <3>1. job'[v] = "waiting" /\ made'[v] = 0 /\ stalls'[v] = 0 /\ v \notin ran'
          /\ finishedVaas'[v] = {} /\ starts'[v] \in Nat
      BY <1>0, <1>1, <2>2 DEF TypeOK
    <3>2. TriesLeft(v)'
      BY <3>1, ConstantsAssumption DEF TriesLeft
    <3>3. RunsKnown(v)'
      BY <1>0, <1>1, <3>1 DEF VaaInv, RunsKnown, Holds
    <3>4. v \notin excuse' => Clean(v)'
      <4> SUFFICES ASSUME v \notin excuse' PROVE Clean(v)'
        OBVIOUS
      <4>1. \A e \in exec' : e.vaa # v
        BY <1>0, <1>1, <2>2 DEF VaaInv, Clean, Holds
      <4> QED
        BY <3>1, <4>1 DEF Clean
    <3> QED
      BY <3>1, <3>2, <3>3, <3>4 DEF VaaInv
  <2> QED
    BY <1>2, <2>1, <2>2
<1> QED
  BY <1>0, <1>4, <1>6, <1>7, <1>8, <1>9, StepAboutVaa

\* The new run has a number of its own, so that no other run holds the job.
LEMMA TakeJobKeepsIInv ==
  ASSUME IInv, NEW p \in Proc, NEW v \in Vaa, TakeJob(p, v)
  PROVE  IInv'
<1> DEFINE new == [proc |-> p, vaa |-> v, n |-> starts[v] + 1, attempts |-> made[v] + 1,
                   at |-> "log"]
<1>0. TypeOK /\ VaaInv(v) /\ EndedSound
  BY DEF IInv
<1>1. /\ job[v] = "waiting" /\ proc[p] = "up" /\ starts[v] < MaxStarts
      /\ job' = [job EXCEPT ![v] = "active"] /\ made' = [made EXCEPT ![v] = made[v] + 1]
      /\ starts' = [starts EXCEPT ![v] = starts[v] + 1]
      /\ token' = [token EXCEPT ![v] = starts[v] + 1] /\ exec' = exec \cup {new}
      /\ UNCHANGED <<proc, cache, intake, stalls, ended, faults, added, ran,
                     relayed, twice, again, excuse, lostLock,
                     finishedVaas>>
  BY DEF TakeJob
<1>2. /\ made[v] \in Nat /\ starts[v] \in Nat /\ stalls[v] \in Nat /\ made[v] <= starts[v]
      /\ made[v] < Attempts + stalls[v]
  BY <1>0, <1>1 DEF TypeOK, VaaInv, TriesLeft
<1>3. new \in Run /\ new.vaa = v /\ new.proc = p /\ new.at = "log"
      /\ new.n = starts[v] + 1 /\ new.attempts = made[v] + 1
  BY <1>1, <1>2, ConstantsAssumption DEF Run
<1> HIDE DEF new
<1>4. TypeOK'
  <2>1. job' \in [Vaa -> JobState] /\ made' \in [Vaa -> 0..MaxStarts]
        /\ starts' \in [Vaa -> 0..MaxStarts] /\ token' \in [Vaa -> 1..MaxStarts \cup {None}]
    <3>1. "active" \in JobState /\ job \in [Vaa -> JobState]
      BY <1>0 DEF TypeOK, JobState
    <3>2. job' \in [Vaa -> JobState]
      BY <1>1, <3>1
    <3>3. made' \in [Vaa -> 0..MaxStarts] /\ starts' \in [Vaa -> 0..MaxStarts]
      BY <1>0, <1>1, <1>2, ConstantsAssumption DEF TypeOK
    <3>4. token' \in [Vaa -> 1..MaxStarts \cup {None}]
      BY <1>0, <1>1, <1>2, ConstantsAssumption DEF TypeOK
    <3> QED
      BY <3>2, <3>3, <3>4
  <2> QED
    BY <1>0, <1>1, <1>3, <2>1 DEF TypeOK
<1>5. /\ job'[v] = "active" /\ made'[v] = made[v] + 1 /\ starts'[v] = starts[v] + 1
      /\ token'[v] = starts[v] + 1
      /\ \A w \in Vaa \ {v} : /\ job'[w] = job[w] /\ made'[w] = made[w]
                              /\ starts'[w] = starts[w] /\ token'[w] = token[w]
  BY <1>0, <1>1 DEF TypeOK
<1>6. OnlyVaa(v)
  BY <1>1, <1>3, <1>5 DEF OnlyVaa
<1>7. EndedSound'
  BY <1>0, <1>1, <1>5, EndedKept DEF Finished
<1>8. Causes'
  BY <1>1, <1>3 DEF IInv, Causes, RelayedTwiceHasCause
<1>9. VaaInv(v)'
  <2>1. TriesLeft(v)'
    BY <1>1, <1>2, <1>5, ConstantsAssumption DEF TriesLeft
  <2>2. ASSUME NEW e \in exec', e.vaa = v
        PROVE e.n <= starts'[v] /\ (e = new \/ (e \in exec /\ ~Holds(e)'))
    <3>1. CASE e = new
      BY <1>2, <1>3, <1>5, <3>1
    <3>2. CASE e \in exec
      <4>1. e.n <= starts[v] /\ e.n \in Nat
        BY <1>0, <2>2, <3>2 DEF VaaInv, RunsKnown, TypeOK, Run
      <4> QED
        BY <1>2, <1>5, <2>2, <3>2, <4>1 DEF Holds
    <3> QED
      BY <1>1, <3>1, <3>2
  <2>3. RunsKnown(v)'
    BY <1>3, <2>2 DEF RunsKnown
  <2>4. ASSUME v \notin excuse' PROVE Clean(v)'
    <3>1. Clean(v) /\ v \notin ran'
      BY <1>0, <1>1, <2>4 DEF VaaInv, Clean
    <3>2. \A e \in exec' : e.vaa = v => e = new
      BY <1>1, <3>1 DEF Clean, Holds
    <3>3. \A e \in exec' : e.vaa = v =>
            Holds(e)' /\ e.attempts = made'[v] /\ e.at = "log"
      BY <1>3, <1>5, <3>2 DEF Holds
    <3>4. token'[v] # None
      BY <1>2, <1>5, ConstantsAssumption
    <3>5. FailedForGood \notin finishedVaas'[v]
      BY <1>1, <3>1 DEF Clean
    <3> QED
      BY <1>5, <3>1, <3>2, <3>3, <3>4, <3>5 DEF Clean
  <2> QED
    BY <1>5, <2>1, <2>3, <2>4 DEF VaaInv
<1> QED
  BY <1>4, <1>6, <1>7, <1>8, <1>9, StepAboutVaa

\* The pipeline is called once the line about the worker is in the job's log.
LEMMA LogKeepsIInv ==
  ASSUME IInv, NEW e \in exec, LogResolves(e)
  PROVE  IInv'
<1> DEFINE v == e.vaa
           next == [e EXCEPT !.at = "pipeline"]
<1>0. v \in Vaa /\ e \in Run /\ TypeOK /\ VaaInv(v) /\ EndedSound
  BY DEF IInv, TypeOK, Run
<1>1. /\ e.vaa = v /\ next \in Run /\ next.at = "pipeline"
      /\ next.vaa = v /\ next.proc = e.proc /\ next.n = e.n /\ next.attempts = e.attempts
  BY <1>0 DEF Run
<1>2. /\ e.at = "log" /\ exec' = (exec \ {e}) \cup {next}
      /\ UNCHANGED <<proc, cache, intake, jobVars, faults, history>>
  BY DEF LogResolves
<1> HIDE DEF next, v
<1>3. TypeOK'
  BY <1>0, <1>1, <1>2 DEF TypeOK, jobVars, history
<1>4. OnlyVaa(v)
  BY <1>0, <1>1, <1>2 DEF OnlyVaa, jobVars, history
<1>5. EndedSound' /\ Causes'
  BY <1>0, <1>2 DEF IInv, EndedSound, Causes, RelayedTwiceHasCause, jobVars, history
<1>6. VaaInv(v)'
  <2>1. TriesLeft(v)' /\ RunsKnown(v)'
    BY <1>0, <1>1, <1>2 DEF VaaInv, TriesLeft, RunsKnown, Holds, jobVars, history
  <2>2. ASSUME v \notin excuse' PROVE Clean(v)'
    <3>1. Clean(v) /\ Holds(e) /\ e.attempts = made[v] /\ v \notin ran
      BY <1>0, <1>1, <1>2, <2>2 DEF VaaInv, Clean, history
    <3>2. \A f \in exec' : f.vaa = v => f = next
      BY <1>1, <1>2, <3>1 DEF Clean
    <3>3. \A f \in exec' : f.vaa = v =>
            Holds(f)' /\ f.attempts = made'[v] /\ f.at = "pipeline"
      BY <1>1, <1>2, <3>1, <3>2 DEF Holds, jobVars
    <3> QED
      BY <1>2, <3>1, <3>2, <3>3 DEF Clean, jobVars, history
  <2> QED
    BY <1>0, <1>2, <2>1, <2>2 DEF VaaInv, jobVars, history
<1> QED
  BY <1>0, <1>3, <1>4, <1>5, <1>6, StepAboutVaa

\* The end of the pipeline is reached a second time only with a cause.
LEMMA CompletesKeepsIInv ==
  ASSUME IInv, NEW e \in exec, PipelineCompletes(e)
  PROVE  IInv'
<1>0. PICK at \in {"progress", "rejected"} :
        /\ exec' = (exec \ {e}) \cup {[e EXCEPT !.at = at]}
        /\ excuse' = IF at = "rejected" THEN excuse \cup {e.vaa} ELSE excuse
  BY DEF PipelineCompletes
<1> DEFINE v == e.vaa
           next == [e EXCEPT !.at = at]
<1>1. v \in Vaa /\ e \in Run /\ TypeOK /\ VaaInv(v) /\ EndedSound
  BY DEF IInv, TypeOK, Run
<1>2. /\ e.vaa = v /\ next \in Run /\ next.at = at
      /\ next.vaa = v /\ next.proc = e.proc /\ next.n = e.n /\ next.attempts = e.attempts
  BY <1>1 DEF Run
<1>3. /\ e.at = "pipeline" /\ exec' = (exec \ {e}) \cup {next} /\ ran' = ran \cup {v}
      /\ relayed' = relayed \cup {v}
      /\ twice' = (IF v \in relayed THEN twice \cup {v} ELSE twice)
      /\ excuse' = (IF at = "rejected" THEN excuse \cup {v} ELSE excuse)
      /\ finishedVaas' = [finishedVaas EXCEPT ![v] = finishedVaas[v] \cup {Succeeded}]
      /\ UNCHANGED <<proc, cache, intake, job, made, stalls, token, ended, faults, starts, added,
                     again, lostLock>>
  BY <1>0 DEF PipelineCompletes, Counted, jobVars
<1> HIDE DEF next, v
<1>4. TypeOK'
  <2>1. finishedVaas' \in [Vaa -> SUBSET Label]
    BY <1>1, <1>3, Labels DEF TypeOK
  <2> QED
    BY <1>1, <1>2, <1>3, <2>1 DEF TypeOK
<1>5. OnlyVaa(v)
  BY <1>1, <1>2, <1>3 DEF OnlyVaa, TypeOK
<1>6. EndedSound'
  BY <1>1, <1>3 DEF EndedSound
<1>7. Causes'
  <2>1. v \in ran => v \in excuse
    BY <1>1, <1>2, <1>3 DEF VaaInv, Clean
  <2>2. v \in relayed => v \in excuse \cup again
    BY <2>1 DEF IInv, Causes
  <2> QED
    BY <1>3, <2>2 DEF IInv, Causes, RelayedTwiceHasCause
<1>8. VaaInv(v)'
  <2>1. TriesLeft(v)' /\ RunsKnown(v)'
    BY <1>1, <1>2, <1>3 DEF VaaInv, TriesLeft, RunsKnown, Holds
  <2>2. ASSUME v \notin excuse' PROVE Clean(v)'
    <3>0. v \notin excuse /\ at = "progress"
      BY <1>3, <2>2
    <3>1. Clean(v) /\ Holds(e) /\ e.attempts = made[v]
      BY <1>1, <1>2, <1>3, <3>0 DEF VaaInv, Clean
    <3>2. \A f \in exec' : f.vaa = v => f = next
      BY <1>2, <1>3, <3>1 DEF Clean
    <3>3. job[v] = "active" /\ job'[v] = "active" /\ token'[v] = next.n /\ token'[v] # None
      BY <1>2, <1>3, <3>1 DEF Holds, Clean
    <3>4. finishedVaas'[v] = finishedVaas[v] \cup {Succeeded} /\ v \in ran'
      BY <1>1, <1>3 DEF TypeOK
    <3>5. FailedForGood \notin finishedVaas'[v]
      BY <3>1, <3>3, <3>4, Labels DEF Clean
    <3>6. \A f \in exec' : f.vaa = v =>
            Holds(f)' /\ f.attempts = made'[v] /\ f.at = "progress"
      BY <1>2, <1>3, <3>0, <3>1, <3>2, <3>3 DEF Holds
    <3> QED
      BY <3>2, <3>3, <3>4, <3>5, <3>6 DEF Clean
  <2> QED
    BY <1>1, <1>3, <2>1, <2>2 DEF VaaInv
<1> QED
  BY <1>1, <1>4, <1>5, <1>6, <1>7, <1>8, StepAboutVaa

\* A step that ends v's job: what is left to show is what the metrics say.
LEMMA EndJobKeepsIInv ==
  ASSUME IInv, NEW v \in Vaa, job[v] = "active", NEW end \in Finished, EndJob(v, end),
         TypeOK', exec' \subseteq exec, \A e \in exec \ exec' : e.vaa = v,
         UNCHANGED <<proc, made, stalls, starts, ran,
                     relayed, twice, again>>, excuse \subseteq excuse',
         \A w \in Vaa \ {v} : finishedVaas'[w] = finishedVaas[w],
         v \notin excuse' =>
           /\ \A e \in exec' : e.vaa # v
           /\ end = "completed" => Succeeded \in finishedVaas'[v]
           /\ end = "failed" => (FailedForGood \in finishedVaas'[v] <=> made[v] >= Attempts)
           /\ end = "completed" => FailedForGood \notin finishedVaas'[v]
  PROVE  IInv'
<1>1. TypeOK /\ EndedSound /\ VaaInv(v)
  BY DEF IInv
<1>2. /\ job'[v] \in {end, "none"}
      /\ \A w \in Vaa \ {v} : job'[w] = job[w] \/ (job[w] \in Finished /\ job'[w] = "none")
      /\ EndedSound'
      /\ token' = [token EXCEPT ![v] = None] /\ added' = added \ {v}
  BY <1>1, EndJobEffect
<1>3. OnlyVaa(v)
  BY <1>1, <1>2 DEF OnlyVaa, TypeOK
<1>4. Causes'
  BY DEF IInv, Causes, RelayedTwiceHasCause
<1>5. VaaInv(v)'
  <2>1. job'[v] \notin {"waiting", "delayed", "active"}
    BY <1>2 DEF Finished
  <2>2. TriesLeft(v)'
    BY <1>1, <2>1 DEF VaaInv, TriesLeft
  <2>3. RunsKnown(v)'
    BY <1>1, <2>1 DEF VaaInv, RunsKnown, Holds
  <2>4. v \notin excuse' => Clean(v)'
    BY <1>2, <2>1 DEF Clean, Finished
  <2> QED
    BY <1>2, <2>2, <2>3, <2>4 DEF VaaInv
<1> QED
  BY <1>2, <1>3, <1>4, <1>5, StepAboutVaa

LEMMA JobCompletesKeepsIInv ==
  ASSUME IInv, NEW e \in exec, JobCompletes(e)
  PROVE  IInv'
<1> DEFINE v == e.vaa
<1>0. v \in Vaa /\ TypeOK /\ VaaInv(v) /\ EndedSound
  BY DEF IInv, TypeOK, Run
<1>1. /\ e.at = "progress" /\ exec' = exec \ {e} /\ e.vaa = v
      /\ UNCHANGED <<proc, cache, intake, faults, starts, ran,
                     relayed, twice, again, excuse, lostLock, finishedVaas>>
      /\ IF Holds(e) THEN EndJob(v, "completed") /\ UNCHANGED <<made, stalls>>
                     ELSE UNCHANGED <<jobVars, added>>
  BY DEF JobCompletes
<1>2. Holds(e) => job[v] = "active"
  BY DEF Holds
<1>3. v \notin excuse =>
        /\ Holds(e) /\ (\A f \in exec' : f.vaa # v) /\ Succeeded \in finishedVaas[v]
        /\ job[v] = "active" => FailedForGood \notin finishedVaas[v]
  BY <1>0, <1>1 DEF VaaInv, Clean
<1> HIDE DEF v
<1>4. CASE Holds(e)
  <2>1. /\ job' \in [Vaa -> JobState] /\ ended' \in Seq(Vaa)
        /\ token' = [token EXCEPT ![v] = None] /\ added' = added \ {v}
    BY <1>0, <1>1, <1>2, <1>4, EndJobEffect DEF Finished
  <2>2. TypeOK'
    BY <1>0, <1>1, <1>4, <2>1 DEF TypeOK
  <2>3. \A f \in exec \ exec' : f.vaa = v
    BY <1>1
  <2> QED
    BY <1>0, <1>1, <1>2, <1>3, <1>4, <2>2, <2>3, EndJobKeepsIInv DEF Finished
<1>5. CASE ~Holds(e)
  <2>1. UNCHANGED jobVars /\ added' = added /\ v \in excuse
    BY <1>1, <1>3, <1>5
  <2>2. TypeOK' /\ EndedSound' /\ Causes'
    BY <1>0, <1>1, <2>1 DEF IInv, TypeOK, EndedSound, Causes, RelayedTwiceHasCause, jobVars
  <2>3. OnlyVaa(v)
    BY <1>1, <2>1 DEF OnlyVaa, jobVars
  <2>4. VaaInv(v)'
    BY <1>0, <1>1, <2>1 DEF VaaInv, TriesLeft, RunsKnown, Holds, jobVars
  <2> QED
    BY <1>0, <2>2, <2>3, <2>4, StepAboutVaa
<1> QED
  BY <1>4, <1>5

\* A run that fails: its job is tried again or ends, if the run still holds it.
\* The run was counted as failed, or its VAA has an excuse.
LEMMA FailsKeepsIInv ==
  ASSUME IInv, NEW e \in exec, NEW r \in BOOLEAN, Fails(e, r),
         UNCHANGED <<proc, cache, intake, starts, ran, relayed, twice, again, lostLock>>,
         faults' \in 0..MaxFaults, excuse' \subseteq Vaa, excuse \subseteq excuse',
         \/ e.vaa \in excuse' /\ finishedVaas' = finishedVaas
         \/ e.at = "pipeline" /\ Counted(e.vaa, FailedWith(e.attempts, Attempts))
  PROVE  IInv'
<1> DEFINE v == e.vaa
<1>0. v \in Vaa /\ TypeOK /\ VaaInv(v) /\ EndedSound /\ e \in Run
  BY DEF IInv, TypeOK, Run
<1>1. /\ exec' = exec \ {e} /\ e.vaa = v
      /\ Holds(e) => job[v] = "active"
  BY DEF Fails, Holds
<1>2. \/ ~Holds(e) /\ UNCHANGED <<jobVars, added>>
      \/ /\ Holds(e) /\ made[v] < Attempts /\ job' = [job EXCEPT ![v] = "delayed"]
         /\ token' = [token EXCEPT ![v] = None] /\ UNCHANGED <<made, stalls, ended, added>>
      \/ Holds(e) /\ EndJob(v, "failed") /\ UNCHANGED <<made, stalls>>
  BY DEF Fails
<1>3. /\ finishedVaas' \in [Vaa -> SUBSET Label]
      /\ \A w \in Vaa \ {v} : finishedVaas'[w] = finishedVaas[w]
  <2>1. CASE finishedVaas' = finishedVaas
    BY <1>0, <2>1 DEF TypeOK
  <2>2. CASE Counted(e.vaa, FailedWith(e.attempts, Attempts))
    <3>1. FailedWith(e.attempts, Attempts) \in Label
      BY <1>0, ConstantsAssumption, Labels DEF Run
    <3> QED
      BY <1>0, <2>2, <3>1 DEF TypeOK, Counted
  <2> QED
    BY <2>1, <2>2
<1>4. v \notin excuse' =>
        /\ Holds(e) /\ v \notin ran /\ \A f \in exec' : f.vaa # v
        /\ FailedForGood \in finishedVaas'[v] <=> made[v] >= Attempts
  <2> SUFFICES ASSUME v \notin excuse'
               PROVE  /\ Holds(e) /\ v \notin ran /\ \A f \in exec' : f.vaa # v
                      /\ FailedForGood \in finishedVaas'[v] <=> made[v] >= Attempts
    OBVIOUS
  <2>1. Clean(v) /\ e.at = "pipeline" /\ Counted(v, FailedWith(e.attempts, Attempts))
    BY <1>0 DEF VaaInv
  <2>2. /\ Holds(e) /\ v \notin ran /\ (\A f \in exec' : f.vaa # v) /\ e.attempts = made[v]
        /\ FailedForGood \notin finishedVaas[v]
    BY <1>1, <2>1 DEF Clean
  <2>3. finishedVaas'[v] = finishedVaas[v] \cup {FailedWith(e.attempts, Attempts)}
    BY <1>0, <2>1 DEF Counted, TypeOK
  <2>4. FailedWith(made[v], Attempts) = FailedForGood <=> made[v] >= Attempts
    BY <1>0, ConstantsAssumption, Labels DEF TypeOK
  <2> QED
    BY <2>2, <2>3, <2>4
<1> HIDE DEF v
<1>5. CASE ~Holds(e) /\ UNCHANGED <<jobVars, added>>
  <2>1. v \in excuse'
    BY <1>4, <1>5
  <2>2. TypeOK' /\ EndedSound' /\ Causes'
    BY <1>0, <1>1, <1>3, <1>5 DEF IInv, TypeOK, EndedSound, Causes, RelayedTwiceHasCause, jobVars
  <2>3. OnlyVaa(v)
    BY <1>1, <1>3, <1>5 DEF OnlyVaa, jobVars
  <2>4. VaaInv(v)'
    BY <1>0, <1>1, <1>5, <2>1 DEF VaaInv, TriesLeft, RunsKnown, Holds, jobVars
  <2> QED
    BY <1>0, <2>2, <2>3, <2>4, StepAboutVaa
<1>6. CASE /\ Holds(e) /\ made[v] < Attempts /\ job' = [job EXCEPT ![v] = "delayed"]
           /\ token' = [token EXCEPT ![v] = None] /\ UNCHANGED <<made, stalls, ended, added>>
  <2>1. /\ job' \in [Vaa -> JobState] /\ job'[v] = "delayed"
        /\ token' \in [Vaa -> 1..MaxStarts \cup {None}]
        /\ \A w \in Vaa \ {v} : job'[w] = job[w] /\ token'[w] = token[w]
    BY <1>0, <1>6 DEF TypeOK, JobState
  <2>2. TypeOK'
    BY <1>0, <1>1, <1>3, <1>6, <2>1 DEF TypeOK
  <2>3. EndedSound'
    BY <1>0, <1>1, <1>6, <2>1, EndedKept DEF Finished
  <2>4. Causes'
    BY <1>1 DEF IInv, Causes, RelayedTwiceHasCause
  <2>5. OnlyVaa(v)
    BY <1>1, <1>3, <1>6, <2>1 DEF OnlyVaa
  <2>6. TriesLeft(v)'
    BY <1>0, <1>6, ConstantsAssumption DEF VaaInv, TriesLeft, TypeOK
  <2>7. RunsKnown(v)'
    BY <1>0, <1>1, <2>1 DEF VaaInv, RunsKnown, Holds
  <2>8. v \notin excuse' => Clean(v)'
    <3> SUFFICES ASSUME v \notin excuse' PROVE Clean(v)'
      OBVIOUS
    <3>1. ~(made[v] >= Attempts)
      BY <1>0, <1>6, ConstantsAssumption DEF TypeOK
    <3> QED
      BY <1>4, <2>1, <3>1 DEF Clean
  <2>9. VaaInv(v)'
    BY <2>1, <2>6, <2>7, <2>8 DEF VaaInv
  <2> QED
    BY <1>0, <2>2, <2>3, <2>4, <2>5, <2>9, StepAboutVaa
<1>7. CASE Holds(e) /\ EndJob(v, "failed") /\ UNCHANGED <<made, stalls>>
  <2>1. /\ job' \in [Vaa -> JobState] /\ ended' \in Seq(Vaa)
        /\ token' = [token EXCEPT ![v] = None] /\ added' = added \ {v}
    BY <1>0, <1>1, <1>7, EndJobEffect DEF Finished
  <2>2. TypeOK'
    BY <1>0, <1>1, <1>3, <1>7, <2>1 DEF TypeOK
  <2>3. \A f \in exec \ exec' : f.vaa = v
    BY <1>1
  <2> QED
    BY <1>0, <1>1, <1>3, <1>4, <1>7, <2>2, <2>3, EndJobKeepsIInv DEF Finished
<1> QED
  BY <1>2, <1>5, <1>6, <1>7

\* A run behind the end of its pipeline that is rejected all the same.
LEMMA RejectedIsExcused ==
  ASSUME IInv, NEW e \in exec, e.at = "rejected"
  PROVE  e.vaa \in excuse
<1>1. e.vaa \in Vaa /\ VaaInv(e.vaa)
  BY DEF IInv, TypeOK, Run
<1> QED
  BY <1>1 DEF VaaInv, Clean

LEMMA RunFailsKeepsIInv ==
  ASSUME IInv, NEW e \in exec,
         \/ JobCallFails(e)
         \/ \E recoverable \in BOOLEAN :
              PipelineThrows(e, recoverable) \/ ListenerThrew(e, recoverable)
  PROVE  IInv'
<1>0. TypeOK /\ e.vaa \in Vaa /\ faults \in 0..MaxFaults
  BY DEF IInv, TypeOK, Run
<1>1. CASE JobCallFails(e)
  <2>1. faults' \in 0..MaxFaults /\ excuse' = excuse \cup {e.vaa} /\ excuse' \subseteq Vaa
    BY <1>0, <1>1, ConstantsAssumption DEF JobCallFails, Fault, TypeOK
  <2> QED
    BY <1>1, <2>1, FailsKeepsIInv DEF JobCallFails
<1>2. ASSUME NEW r \in BOOLEAN, PipelineThrows(e, r) PROVE IInv'
  <2>1. faults' \in 0..MaxFaults /\ excuse' = excuse /\ excuse' \subseteq Vaa
    BY <1>0, <1>2 DEF PipelineThrows, TypeOK
  <2> QED
    BY <1>2, <2>1, FailsKeepsIInv DEF PipelineThrows
<1>3. ASSUME NEW r \in BOOLEAN, ListenerThrew(e, r) PROVE IInv'
  <2>1. faults' \in 0..MaxFaults /\ excuse' = excuse /\ excuse' \subseteq Vaa
    BY <1>0, <1>3 DEF ListenerThrew, TypeOK
  <2>2. e.vaa \in excuse
    BY <1>3, RejectedIsExcused DEF ListenerThrew
  <2> QED
    BY <1>3, <2>1, <2>2, FailsKeepsIInv DEF ListenerThrew
<1> QED
  BY <1>1, <1>2, <1>3

LEMMA PromoteKeepsIInv ==
  ASSUME IInv, NEW v \in Vaa, Promote(v)
  PROVE  IInv'
<1>0. TypeOK /\ VaaInv(v) /\ EndedSound
  BY DEF IInv
<1>1. /\ job[v] = "delayed" /\ job' = [job EXCEPT ![v] = "waiting"]
      /\ UNCHANGED <<proc, cache, intake, made, stalls, token, ended, exec, faults, starts, added,
                     ran, relayed, twice, again, excuse, lostLock, finishedVaas>>
  BY DEF Promote, history
<1>2. job' \in [Vaa -> JobState] /\ job'[v] = "waiting" /\ \A w \in Vaa \ {v} : job'[w] = job[w]
  BY <1>0, <1>1 DEF TypeOK, JobState
<1>3. TypeOK'
  BY <1>0, <1>1, <1>2 DEF TypeOK
<1>4. EndedSound'
  BY <1>0, <1>1, <1>2, EndedKept DEF Finished
<1>5. OnlyVaa(v) /\ Causes'
  BY <1>1, <1>2 DEF IInv, OnlyVaa, Causes, RelayedTwiceHasCause
<1>6. VaaInv(v)'
  <2>1. TriesLeft(v)' /\ RunsKnown(v)'
    BY <1>0, <1>1, <1>2 DEF VaaInv, TriesLeft, RunsKnown, Holds
  <2>2. v \notin excuse' => Clean(v)'
    BY <1>0, <1>1, <1>2 DEF VaaInv, Clean, Holds
  <2> QED
    BY <1>2, <2>1, <2>2 DEF VaaInv
<1> QED
  BY <1>3, <1>4, <1>5, <1>6, StepAboutVaa

LEMMA LoseLockKeepsIInv ==
  ASSUME IInv, NEW v \in Vaa, LoseLock(v)
  PROVE  IInv'
<1>0. TypeOK /\ VaaInv(v) /\ EndedSound
  BY DEF IInv
<1>1. /\ token' = [token EXCEPT ![v] = None]
      /\ excuse' = excuse \cup {v} /\ lostLock' = lostLock \cup {v}
      /\ faults < MaxFaults /\ faults' = faults + 1
      /\ UNCHANGED <<proc, cache, intake, job, made, stalls, ended, exec, starts, added, ran,
                     relayed, twice, again,
                     finishedVaas>>
  BY DEF LoseLock, Fault
<1>2. /\ token' \in [Vaa -> 1..MaxStarts \cup {None}] /\ token'[v] = None
      /\ \A w \in Vaa \ {v} : token'[w] = token[w]
  BY <1>0, <1>1 DEF TypeOK
<1>3. TypeOK' /\ EndedSound'
  BY <1>0, <1>1, <1>2, ConstantsAssumption DEF TypeOK, EndedSound
<1>4. OnlyVaa(v) /\ Causes'
  BY <1>1, <1>2 DEF IInv, OnlyVaa, Causes, RelayedTwiceHasCause
<1>5. \A e \in exec : e.vaa = v => ~Holds(e)'
  BY <1>0, <1>2, ConstantsAssumption DEF TypeOK, Run, Holds
<1>6. VaaInv(v)'
  BY <1>0, <1>1, <1>5 DEF VaaInv, TriesLeft, RunsKnown
<1> QED
  BY <1>3, <1>4, <1>6, StepAboutVaa

\* Only a job a failure has touched stalls; the stall pays for its next try.
LEMMA StalledKeepsIInv ==
  ASSUME IInv, NEW p \in Proc, NEW v \in Vaa, HandleStalled(p, v)
  PROVE  IInv'
<1>0. TypeOK /\ VaaInv(v) /\ EndedSound
  BY DEF IInv
<1>1. /\ job[v] = "active" /\ token[v] = None
      /\ UNCHANGED <<proc, cache, intake, made, exec, faults, starts, ran,
                     relayed, twice, again, excuse, lostLock,
                     finishedVaas>>
  BY DEF HandleStalled
<1>2. v \in excuse
  BY <1>0, <1>1 DEF VaaInv, Clean
<1>3. CASE /\ stalls[v] < MaxStalls /\ job' = [job EXCEPT ![v] = "waiting"]
           /\ stalls' = [stalls EXCEPT ![v] = stalls[v] + 1] /\ UNCHANGED <<token, ended, added>>
  <2>1. /\ job' \in [Vaa -> JobState] /\ job'[v] = "waiting" /\ stalls'[v] = stalls[v] + 1
        /\ \A w \in Vaa \ {v} : job'[w] = job[w] /\ stalls'[w] = stalls[w]
    BY <1>0, <1>3 DEF TypeOK, JobState
  <2>2. stalls' \in [Vaa -> 0..MaxStalls]
    BY <1>0, <1>3, ConstantsAssumption DEF TypeOK
  <2>3. TypeOK'
    BY <1>0, <1>1, <1>3, <2>1, <2>2 DEF TypeOK
  <2>4. EndedSound'
    BY <1>0, <1>1, <1>3, <2>1, EndedKept DEF Finished
  <2>5. OnlyVaa(v) /\ Causes'
    BY <1>1, <1>3, <2>1 DEF IInv, OnlyVaa, Causes, RelayedTwiceHasCause
  <2>6. TriesLeft(v)'
    BY <1>0, <1>1, <1>3, <2>1, ConstantsAssumption DEF VaaInv, TriesLeft, TypeOK
  <2>7. VaaInv(v)'
    BY <1>0, <1>1, <1>2, <1>3, <2>1, <2>6 DEF VaaInv, RunsKnown, Holds
  <2> QED
    BY <2>3, <2>4, <2>5, <2>7, StepAboutVaa
<1>4. CASE EndJob(v, "failed") /\ UNCHANGED stalls
  <2>1. /\ job' \in [Vaa -> JobState] /\ ended' \in Seq(Vaa)
        /\ token' = [token EXCEPT ![v] = None] /\ added' = added \ {v}
    BY <1>0, <1>1, <1>4, EndJobEffect DEF Finished
  <2>2. TypeOK'
    BY <1>0, <1>1, <1>4, <2>1 DEF TypeOK
  <2> QED
    BY <1>1, <1>2, <1>4, <2>2, EndJobKeepsIInv DEF Finished
<1> QED
  BY <1>3, <1>4 DEF HandleStalled

\* A crash takes the runs of the process, and the locks they held.
LEMMA CrashKeepsIInv ==
  ASSUME IInv, NEW p \in Proc, Crash(p)
  PROVE  IInv'
<1>0. TypeOK /\ EndedSound
  BY DEF IInv
<1>1. /\ proc' = [proc EXCEPT ![p] = "down"] /\ cache' = [cache EXCEPT ![p] = {}]
      /\ intake' \subseteq intake /\ exec' = exec \ RunsOf(p)
      /\ excuse' = excuse \cup {e.vaa : e \in RunsOf(p)}
      /\ faults < MaxFaults /\ faults' = faults + 1
      /\ UNCHANGED <<job, made, stalls, ended, starts, added, ran,
                     relayed, twice, again, lostLock, finishedVaas>>
  BY DEF Crash, Fault
<1>2. \A v \in Vaa :
        \/ token'[v] = token[v]
        \/ token'[v] = None /\ \E e \in RunsOf(p) : e.vaa = v
  <2> SUFFICES ASSUME NEW v \in Vaa
               PROVE  \/ token'[v] = token[v]
                      \/ token'[v] = None /\ \E e \in RunsOf(p) : e.vaa = v
    OBVIOUS
  <2>1. token' = [u \in Vaa |-> IF \E e \in RunsOf(p) : e.vaa = u /\ e.n = token[u]
                               THEN None ELSE token[u]]
    BY DEF Crash
  <2>2. token'[v] = IF \E e \in RunsOf(p) : e.vaa = v /\ e.n = token[v] THEN None ELSE token[v]
    BY <2>1, Zenon
  <2> QED
    BY <2>2
<1>3. TypeOK'
  <2>1. token' \in [Vaa -> 1..MaxStarts \cup {None}]
    BY <1>0 DEF Crash, TypeOK
  <2>2. faults' \in 0..MaxFaults /\ excuse' \subseteq Vaa
    BY <1>0, <1>1, ConstantsAssumption DEF TypeOK, Run, RunsOf
  <2>3. cache' \in [Proc -> SUBSET Vaa] /\ \A o \in Proc : Cardinality(cache'[o]) <= CacheSize
    <3>1. Cardinality({}) <= CacheSize
      BY FS_EmptySet, ConstantsAssumption
    <3> QED
      BY <1>0, <1>1, <3>1 DEF TypeOK
  <2> QED
    BY <1>0, <1>1, <2>1, <2>2, <2>3 DEF TypeOK
<1>4. EndedSound' /\ Causes'
  <2>1. EndedSound'
    BY <1>0, <1>1 DEF EndedSound
  <2> QED
    BY <1>1, <2>1 DEF IInv, Causes, RelayedTwiceHasCause
<1>5. ASSUME NEW v \in Vaa PROVE VaaInv(v)'
  <2>1. VaaInv(v)
    BY DEF IInv
  <2>2. \A e \in exec' : e \in exec /\ (e.vaa = v /\ Holds(e)' => Holds(e))
    BY <1>0, <1>1, <1>2, ConstantsAssumption DEF Holds, TypeOK, Run
  <2>3. TriesLeft(v)' /\ RunsKnown(v)'
    BY <1>1, <2>1, <2>2 DEF VaaInv, TriesLeft, RunsKnown
  <2>4. ASSUME v \notin excuse' PROVE Clean(v)'
    <3>1. Clean(v) /\ \A e \in RunsOf(p) : e.vaa # v
      BY <1>1, <2>1, <2>4 DEF VaaInv
    <3>2. token'[v] = token[v]
      BY <1>2, <3>1
    <3> QED
      BY <1>1, <3>1, <3>2 DEF Clean, Holds
  <2> QED
    BY <1>1, <2>1, <2>3, <2>4 DEF VaaInv
<1> QED
  BY <1>3, <1>4, <1>5 DEF IInv

-----------------------------------------------------------------------------
LEMMA StepKeepsIInv == IInv /\ [Next]_vars => IInv'
<1> SUFFICES ASSUME IInv, [Next]_vars PROVE IInv'
  OBVIOUS
<1>1. CASE UNCHANGED vars
  <2>1. TypeOK'
    BY <1>1 DEF IInv, TypeOK, RelayedTwiceHasCause, vars, jobVars, history
  <2> QED
    BY <1>1, <2>1, QuietStep DEF vars
<1>2. CASE ProcessVaa
  BY <1>2, IntakeKeepsIInv, AddKeepsIInv DEF ProcessVaa
<1>3. CASE WorkerStep
  BY <1>3, TakeJobKeepsIInv, StalledKeepsIInv, LogKeepsIInv, CompletesKeepsIInv,
     JobCompletesKeepsIInv, RunFailsKeepsIInv, PromoteKeepsIInv
     DEF WorkerStep, RunStep
<1>4. ASSUME NEW v \in Vaa, LoseLock(v) PROVE IInv'
  BY <1>4, LoseLockKeepsIInv
<1>5. ASSUME NEW p \in Proc, Stop(p) \/ StopReturns(p) \/ Crash(p) \/ Restart(p) PROVE IInv'
  BY <1>5, ProcessKeepsIInv, CrashKeepsIInv
<1> QED
  BY <1>1, <1>2, <1>3, <1>4, <1>5 DEF Next

LEMMA Invariance == Spec => []IInv
  BY InitIInv, StepKeepsIInv, PTL DEF Spec

\* The state, the recently used VAAs within their limit included, stays in its
\* type.
THEOREM TypeCorrect == Spec => []TypeOK
<1>1. IInv => TypeOK
  BY DEF IInv
<1> QED
  BY <1>1, Invariance, PTL

\* A VAA the relayer said it added has a job until it is relayed or given up,
\* through every crash, every lost lock and every trimming.
THEOREM AddedStaysQueued == Spec => []AddedIsKept
<1>1. IInv => AddedIsKept
  BY DEF IInv, TypeOK, VaaInv, AddedIsKept
<1> QED
  BY <1>1, Invariance, PTL

\* No job is tried more often than its attempts, and once more per stall.
THEOREM TriesAreBounded == Spec => []TriesBounded
<1>1. IInv => TriesBounded
  BY DEF IInv, VaaInv, TriesLeft, TriesBounded
<1> QED
  BY <1>1, Invariance, PTL

\* A second run to the end of the pipeline is always due to a failure outside
\* of it, a listener of Completed that threw, or a job trimmed and added again.
THEOREM RelayedTwiceIsExcused == Spec => []RelayedTwiceHasCause
<1>1. IInv => RelayedTwiceHasCause
  BY DEF IInv, Causes
<1> QED
  BY <1>1, Invariance, PTL

\* The metrics tell what became of every VAA none of whose runs failed outside
\* of the pipeline or in a listener of Completed.
THEOREM MetricsAreRight == Spec => []MetricsAgree
<1>1. IInv => MetricsAgree
  BY DEF IInv, VaaInv, Clean, MetricsAgree
<1> QED
  BY <1>1, Invariance, PTL

-----------------------------------------------------------------------------
(* Locks that nobody loses.  A crash or a failed call leaves no run behind, *)
(* so that one run at a time needs less than Clean does.                    *)

\* A VAA none of whose runs lost its lock has at most one run, which holds the job.
Single(v) ==
  /\ \A e \in exec : e.vaa = v => Holds(e)
  /\ \A e, f \in exec : e.vaa = v /\ f.vaa = v => e = f

SingleInv == \A v \in Vaa \ lostLock : Single(v)

\* A step that starts no run, and changes job and lock of a VAA only when it is
\* left without runs.
LEMMA SingleKept ==
  ASSUME NEW v \in Vaa, Single(v), \A e \in exec' : e.vaa = v => e \in exec,
         (\E e \in exec' : e.vaa = v) => job'[v] = job[v] /\ token'[v] = token[v]
  PROVE  Single(v)'
BY DEF Single, Holds

\* The same with one run replaced by its next stage.
LEMMA SingleMoves ==
  ASSUME TypeOK, NEW v \in Vaa, Single(v), NEW e \in exec, UNCHANGED <<job, token>>,
         NEW at \in {"pipeline", "rejected", "progress"},
         exec' = (exec \ {e}) \cup {[e EXCEPT !.at = at]}
  PROVE  Single(v)'
<1> DEFINE next == [e EXCEPT !.at = at]
<1>1. e \in Run /\ next.vaa = e.vaa /\ next.n = e.n
  BY DEF TypeOK, Run
<1> HIDE DEF next
<1>2. exec' = (exec \ {e}) \cup {next}
  BY DEF next
<1>3. CASE e.vaa = v
  BY <1>1, <1>2, <1>3 DEF Single, Holds
<1>4. CASE e.vaa # v
  BY <1>1, <1>2, <1>4 DEF Single, Holds
<1> QED
  BY <1>3, <1>4

\* A job that ends after its run, or without one, and may push out another.
LEMMA EndedSingle ==
  ASSUME TypeOK, EndedSound, NEW w \in Vaa, job[w] = "active", NEW end \in Finished,
         EndJob(w, end), NEW v \in Vaa, Single(v), exec' \subseteq exec,
         \A e \in exec' : e.vaa = v => w # v
  PROVE  Single(v)'
<1>1. CASE w = v
  BY <1>1, SingleKept
<1>2. CASE w # v
  <2>1. /\ job'[v] = job[v] \/ job[v] \in Finished
        /\ token' = [token EXCEPT ![w] = None]
    BY <1>2, EndJobEffect
  <2>2. (\E e \in exec' : e.vaa = v) => job[v] \notin Finished
    BY DEF Single, Holds, Finished
  <2> QED
    BY <1>2, <2>1, <2>2, SingleKept DEF TypeOK
<1> QED
  BY <1>1, <1>2

\* The end of a run that failed.
LEMMA FailedSingle ==
  ASSUME IInv, NEW e \in exec, NEW r \in BOOLEAN, Fails(e, r), NEW v \in Vaa, Single(v)
  PROVE  Single(v)'
<1>1. TypeOK /\ EndedSound /\ e.vaa \in Vaa /\ exec' = exec \ {e}
  BY DEF IInv, TypeOK, Run, Fails
<1>2. CASE e.vaa = v
  <2>1. \A f \in exec' : f.vaa # v
    BY <1>1, <1>2 DEF Single
  <2> QED
    BY <1>1, <2>1, SingleKept
<1>3. CASE e.vaa # v
  <2>1. CASE ~Holds(e)
    BY <1>1, <2>1, SingleKept DEF Fails, jobVars
  <2>2. CASE Holds(e) /\ r /\ made[e.vaa] < Attempts
    BY <1>1, <1>3, <2>2, SingleKept DEF Fails, TypeOK
  <2>3. CASE Holds(e) /\ ~(r /\ made[e.vaa] < Attempts)
    BY <1>1, <1>3, <2>3, EndedSingle DEF Fails, Holds, Finished
  <2> QED
    BY <2>1, <2>2, <2>3
<1> QED
  BY <1>2, <1>3

LEMMA StepKeepsSingle ==
  ASSUME IInv, SingleInv, [Next]_vars
  PROVE  SingleInv'
<1> SUFFICES ASSUME NEW v \in Vaa, v \notin lostLock' PROVE Single(v)'
  BY DEF SingleInv
<1>0. TypeOK /\ EndedSound
  BY DEF IInv
<1>1. v \notin lostLock
  <2>1. ASSUME NEW e \in exec, RunStep(e) PROVE lostLock' = lostLock
    BY <2>1 DEF RunStep, LogResolves, PipelineCompletes, JobCompletes, JobCallFails,
       PipelineThrows, ListenerThrew, history
  <2>2. CASE ProcessVaa
    BY <2>2 DEF ProcessVaa, Receive, FiltersPass, FiltersReject, AddVaaToQueue, AddFails, history
  <2>3. CASE WorkerStep
    BY <2>1, <2>3 DEF WorkerStep, TakeJob, HandleStalled, Promote, history
  <2>4. CASE \E w \in Vaa : LoseLock(w)
    BY <2>4 DEF LoseLock
  <2>5. CASE \E p \in Proc : Stop(p) \/ StopReturns(p) \/ Crash(p) \/ Restart(p)
    BY <2>5 DEF Stop, StopReturns, Crash, Restart, history
  <2>6. CASE UNCHANGED vars
    BY <2>6 DEF vars, history
  <2> QED
    BY <2>2, <2>3, <2>4, <2>5, <2>6 DEF Next
<1>2. Single(v)
  BY <1>1 DEF SingleInv
<1>3. CASE UNCHANGED <<job, token, exec>>
  BY <1>2, <1>3, SingleKept
<1>4. ASSUME NEW x \in intake, AddVaaToQueue(x) \/ AddFails(x) PROVE Single(v)'
  <2>1. /\ exec' = exec /\ token' = token
        /\ job' = job \/ (job[x.vaa] = "none" /\ job' = [job EXCEPT ![x.vaa] = "waiting"])
    BY <1>4 DEF AddVaaToQueue, AddFails, NewJob
  <2>2. (\E e \in exec' : e.vaa = v) => job[v] = "active"
    BY <1>2, <2>1 DEF Single, Holds
  <2>3. x.vaa = v => job' = job \/ job[v] = "none"
    BY <2>1
  <2> QED
    BY <1>0, <1>2, <2>1, <2>2, <2>3, SingleKept DEF TypeOK
<1>5. ASSUME NEW p \in Proc, NEW w \in Vaa, TakeJob(p, w) PROVE Single(v)'
  <2> DEFINE new == [proc |-> p, vaa |-> w, n |-> starts[w] + 1, attempts |-> made[w] + 1,
                     at |-> "log"]
  <2>1. /\ job[w] = "waiting" /\ job' = [job EXCEPT ![w] = "active"]
        /\ token' = [token EXCEPT ![w] = new.n] /\ exec' = exec \cup {new} /\ new.vaa = w
    BY <1>5 DEF TakeJob
  <2> HIDE DEF new
  <2>2. CASE w = v
    <3>1. \A e \in exec' : e.vaa = v => e = new
      BY <1>2, <2>1, <2>2 DEF Single, Holds
    <3>2. job'[v] = "active" /\ token'[v] = new.n
      BY <1>0, <2>1, <2>2 DEF TypeOK
    <3> QED
      BY <2>1, <2>2, <3>1, <3>2 DEF Single, Holds
  <2>3. CASE w # v
    BY <1>0, <1>2, <2>1, <2>3, SingleKept DEF TypeOK
  <2> QED
    BY <2>2, <2>3
<1>6. ASSUME NEW p \in Proc, NEW w \in Vaa, HandleStalled(p, w) PROVE Single(v)'
  <2>1. job[w] = "active" /\ token[w] = None /\ exec' = exec
    BY <1>6 DEF HandleStalled
  <2>2. \A e \in exec' : e.vaa = v => w # v
    BY <1>0, <1>2, <2>1, ConstantsAssumption DEF Single, Holds, TypeOK, Run
  <2>3. CASE stalls[w] < MaxStalls
    <3>1. job' = [job EXCEPT ![w] = "waiting"] /\ token' = token
      BY <1>6, <2>3 DEF HandleStalled
    <3> QED
      BY <1>0, <1>2, <2>1, <2>2, <3>1, SingleKept DEF TypeOK
  <2>4. CASE ~(stalls[w] < MaxStalls)
    <3>1. EndJob(w, "failed")
      BY <1>6, <2>4 DEF HandleStalled
    <3> QED
      BY <1>0, <1>2, <2>1, <2>2, <3>1, EndedSingle DEF Finished
  <2> QED
    BY <2>3, <2>4
<1>7. ASSUME NEW e \in exec, RunStep(e) PROVE Single(v)'
  <2>1. CASE LogResolves(e)
    BY <1>0, <1>2, <2>1, SingleMoves DEF LogResolves, jobVars
  <2>2. CASE PipelineCompletes(e)
    <3>1. PICK at \in {"progress", "rejected"} : exec' = (exec \ {e}) \cup {[e EXCEPT !.at = at]}
      BY <2>2 DEF PipelineCompletes
    <3>2. UNCHANGED <<job, token>>
      BY <2>2 DEF PipelineCompletes, jobVars
    <3> QED
      BY <1>0, <1>2, <3>1, <3>2, SingleMoves
  <2>3. CASE JobCompletes(e)
    <3>1. e.vaa \in Vaa /\ exec' = exec \ {e} /\ \A f \in exec' : f.vaa = v => e.vaa # v
      BY <1>0, <1>2, <2>3 DEF JobCompletes, Single, TypeOK, Run
    <3>2. CASE Holds(e)
      BY <1>0, <1>2, <2>3, <3>1, <3>2, EndedSingle DEF JobCompletes, Holds, Finished
    <3>3. CASE ~Holds(e)
      BY <1>2, <2>3, <3>1, <3>3, SingleKept DEF JobCompletes, jobVars
    <3> QED
      BY <3>2, <3>3
  <2>4. CASE \E r \in BOOLEAN : Fails(e, r)
    BY <1>2, <2>4, FailedSingle
  <2> QED
    BY <1>7, <2>1, <2>2, <2>3, <2>4 DEF RunStep, JobCallFails, PipelineThrows, ListenerThrew
<1>8. ASSUME NEW w \in Vaa, Promote(w) PROVE Single(v)'
  <2>1. job[w] = "delayed" /\ job' = [job EXCEPT ![w] = "waiting"] /\ token' = token /\ exec' = exec
    BY <1>8 DEF Promote
  <2>2. (\E e \in exec' : e.vaa = v) => w # v
    BY <1>2, <2>1 DEF Single, Holds
  <2> QED
    BY <1>0, <1>2, <2>1, <2>2, SingleKept DEF TypeOK
<1>9. ASSUME NEW w \in Vaa, LoseLock(w) PROVE Single(v)'
  <2>1. w # v /\ job' = job /\ token' = [token EXCEPT ![w] = None] /\ exec' = exec
    BY <1>9 DEF LoseLock
  <2> QED
    BY <1>0, <1>2, <2>1, SingleKept DEF TypeOK
<1>10. ASSUME NEW p \in Proc, Crash(p) PROVE Single(v)'
  <2>1. exec' = exec \ RunsOf(p) /\ job' = job
    BY <1>10 DEF Crash
  <2>2. token' = [u \in Vaa |-> IF \E e \in RunsOf(p) : e.vaa = u /\ e.n = token[u]
                               THEN None ELSE token[u]]
    BY <1>10 DEF Crash
  <2>3. token'[v] = IF \E e \in RunsOf(p) : e.vaa = v /\ e.n = token[v] THEN None ELSE token[v]
    BY <2>2, Zenon
  <2>4. (\E e \in exec' : e.vaa = v) => \A e \in RunsOf(p) : e.vaa # v
    BY <1>2, <2>1 DEF Single, RunsOf
  <2> QED
    BY <1>2, <2>1, <2>3, <2>4, SingleKept
<1>11. CASE UNCHANGED vars
  BY <1>3, <1>11 DEF vars, jobVars
<1>12. CASE ProcessVaa
  BY <1>3, <1>4, <1>12 DEF ProcessVaa, Receive, FiltersPass, FiltersReject, jobVars
<1>13. CASE WorkerStep
  BY <1>5, <1>6, <1>7, <1>8, <1>13 DEF WorkerStep
<1>14. CASE \E p \in Proc : Stop(p) \/ StopReturns(p) \/ Restart(p)
  BY <1>3, <1>14 DEF Stop, StopReturns, Restart, jobVars
<1> QED
  BY <1>9, <1>10, <1>11, <1>12, <1>13, <1>14 DEF Next

\* Two runs of a VAA at a time are due to a lost lock: no crash, no failed call
\* of the job and no listener that throws is enough.
THEOREM OverlapNeedsLostLock == Spec => []NoOverlapWithoutLostLock
<1>1. Init => SingleInv
  BY DEF Init, SingleInv, Single
<1>2. IInv /\ SingleInv /\ [Next]_vars => SingleInv'
  BY StepKeepsSingle
<1>3. IInv /\ SingleInv => NoOverlapWithoutLostLock
  BY DEF IInv, TypeOK, Run, SingleInv, Single, NoOverlapWithoutLostLock
<1> QED
  BY <1>1, <1>2, <1>3, Invariance, PTL DEF Spec

-----------------------------------------------------------------------------
(* The contract.                                                           *)

Mapped == [v \in Vaa |-> StatusOf[job[v]]]

LEMMA OneMapped ==
  ASSUME TypeOK, NEW v \in Vaa, NEW s \in JobState, job' = [job EXCEPT ![v] = s]
  PROVE  Mapped[v] = StatusOf[job[v]] /\ Mapped' = [Mapped EXCEPT ![v] = StatusOf[s]]
<1>1. job \in [Vaa -> JobState]
  BY DEF TypeOK
<1>2. ASSUME NEW w \in Vaa PROVE StatusOf[job'[w]] = IF w = v THEN StatusOf[s] ELSE Mapped[w]
  BY <1>1 DEF Mapped
<1>3. Mapped' = [w \in Vaa |-> StatusOf[job'[w]]] /\ Mapped = [w \in Vaa |-> StatusOf[job[w]]]
  BY DEF Mapped
<1> QED
  BY <1>2, <1>3

LEMMA Statuses ==
  /\ StatusOf["none"] = "unknown" /\ StatusOf["waiting"] = "queued"
  /\ StatusOf["delayed"] = "queued" /\ StatusOf["active"] = "running"
  /\ StatusOf["completed"] = "relayed" /\ StatusOf["failed"] = "dead"
BY DEF StatusOf

LEMMA ContractStutter ==
  ASSUME job' = job, made' = made, ran' = ran
  PROVE  UNCHANGED Contract!cvars
BY DEF Contract!cvars

\* The job that ends is finished in the contract, and those it pushes out are
\* forgotten there.
LEMMA EndJobFinishes ==
  ASSUME TypeOK, EndedSound, NEW v \in Vaa, job[v] = "active",
         NEW end \in Finished, EndJob(v, end), end = "completed" => v \in ran,
         UNCHANGED <<made, ran>>
  PROVE  Contract!CNext
<1> DEFINE forgotten == {w \in Vaa : job'[w] = "none" /\ job[w] # "none"}
           aim == StatusOf[end]
<1>1. /\ job' \in [Vaa -> JobState] /\ job'[v] \in {end, "none"}
      /\ \A w \in Vaa \ {v} : job'[w] = job[w] \/ (job[w] \in Finished /\ job'[w] = "none")
  BY EndJobEffect
<1>2. aim \in {"relayed", "dead"} /\ (aim = "relayed" => v \in ran)
  BY Statuses DEF Finished
<1>3. \A w \in forgotten \ {v} : Mapped[w] \in {"relayed", "dead"}
  BY <1>1, Statuses DEF Mapped, Finished
<1>4. ASSUME NEW w \in Vaa
      PROVE  StatusOf[job'[w]] = IF w \in forgotten THEN "unknown"
                                 ELSE IF w = v THEN aim ELSE Mapped[w]
  BY <1>1, Statuses DEF Mapped, Finished
<1>5. Mapped' = [w \in Vaa |-> IF w \in forgotten THEN "unknown"
                              ELSE IF w = v THEN aim ELSE Mapped[w]]
  BY <1>4 DEF Mapped
<1>6. Mapped[v] = "running"
  BY Statuses DEF Mapped
<1>7. forgotten \in SUBSET Vaa
  OBVIOUS
<1> HIDE DEF forgotten, aim
<1>8. \E stop \in {"relayed", "dead"}, lost \in SUBSET Vaa : Contract!Finish(v, stop, lost)
  BY <1>2, <1>3, <1>5, <1>6, <1>7 DEF Contract!Finish, Mapped
<1> QED
  BY <1>8, Zenon DEF Contract!CNext

LEMMA AddIsAccept ==
  ASSUME IInv, NEW x \in intake, AddVaaToQueue(x) \/ AddFails(x)
  PROVE  Contract!CNext \/ UNCHANGED Contract!cvars
<1> DEFINE v == x.vaa
<1>1. v \in Vaa /\ TypeOK
  BY DEF IInv, TypeOK, Call
<1>2. \/ UNCHANGED <<job, made, ran>>
      \/ /\ job[v] = "none" /\ job' = [job EXCEPT ![v] = "waiting"]
         /\ made' = [made EXCEPT ![v] = 0] /\ ran' = ran \ {v}
  BY DEF AddVaaToQueue, AddFails, NewJob
<1> HIDE DEF v
<1>3. CASE UNCHANGED <<job, made, ran>>
  BY <1>3, ContractStutter
<1>4. CASE /\ job[v] = "none" /\ job' = [job EXCEPT ![v] = "waiting"]
           /\ made' = [made EXCEPT ![v] = 0] /\ ran' = ran \ {v}
  <2>1. Mapped[v] = "unknown" /\ Mapped' = [Mapped EXCEPT ![v] = "queued"]
    BY <1>1, <1>4, OneMapped, Statuses DEF JobState
  <2>2. Contract!Accept(v)
    BY <1>4, <2>1 DEF Contract!Accept, Mapped
  <2> QED
    BY <1>1, <2>2 DEF Contract!CNext
<1> QED
  BY <1>2, <1>3, <1>4

LEMMA TakeIsBegin ==
  ASSUME IInv, NEW p \in Proc, NEW v \in Vaa, TakeJob(p, v)
  PROVE  Contract!CNext
<1>1. /\ job[v] = "waiting" /\ job' = [job EXCEPT ![v] = "active"]
      /\ made' = [made EXCEPT ![v] = made[v] + 1] /\ ran' = ran
  BY DEF TakeJob
<1>2. TypeOK /\ Mapped[v] = "queued" /\ Mapped' = [Mapped EXCEPT ![v] = "running"]
  BY <1>1, OneMapped, Statuses DEF JobState, IInv
<1>3. made[v] < Attempts + MaxStalls
  BY <1>1, <1>2, ConstantsAssumption DEF IInv, VaaInv, TriesLeft, TypeOK
<1>4. Contract!Begin(v)
  BY <1>1, <1>2, <1>3 DEF Contract!Begin, Mapped
<1> QED
  BY <1>4 DEF Contract!CNext

\* A job that goes back to the queue.
LEMMA BackIsRetry ==
  ASSUME TypeOK, NEW v \in Vaa, NEW s \in {"waiting", "delayed"}, job[v] = "active",
         job' = [job EXCEPT ![v] = s], UNCHANGED <<made, ran>>
  PROVE  Contract!CNext
<1>0. s \in JobState /\ StatusOf[s] = "queued" /\ StatusOf[job[v]] = "running"
  BY Statuses DEF JobState
<1>1. Mapped[v] = "running" /\ Mapped' = [Mapped EXCEPT ![v] = "queued"]
  BY <1>0, OneMapped
<1>2. Contract!Retry(v)
  BY <1>1 DEF Contract!Retry, Mapped
<1> QED
  BY <1>2 DEF Contract!CNext

LEMMA FailsIsRetryOrFinish ==
  ASSUME IInv, NEW e \in exec, NEW r \in BOOLEAN, Fails(e, r), ran' = ran
  PROVE  Contract!CNext \/ UNCHANGED Contract!cvars
<1>1. e.vaa \in Vaa /\ TypeOK /\ EndedSound /\ (Holds(e) => job[e.vaa] = "active")
  BY DEF IInv, TypeOK, Run, Holds
<1>2. CASE ~Holds(e)
  BY <1>2, ContractStutter DEF Fails, jobVars
<1>3. CASE Holds(e) /\ r /\ made[e.vaa] < Attempts
  BY <1>1, <1>3, BackIsRetry DEF Fails
<1>4. CASE Holds(e) /\ ~(r /\ made[e.vaa] < Attempts)
  BY <1>1, <1>4, EndJobFinishes DEF Fails, Finished
<1> QED
  BY <1>2, <1>3, <1>4

LEMMA RunIsContractStep ==
  ASSUME IInv, NEW e \in exec, RunStep(e)
  PROVE  Contract!CNext \/ UNCHANGED Contract!cvars
<1>1. e.vaa \in Vaa /\ TypeOK /\ EndedSound /\ (Holds(e) => job[e.vaa] = "active")
  BY DEF IInv, TypeOK, Run, Holds
<1>2. CASE PipelineCompletes(e)
  <2>1. job' = job /\ made' = made /\ ran' = ran \cup {e.vaa}
    BY <1>2 DEF PipelineCompletes, jobVars
  <2>2. Contract!RunToEnd(e.vaa)
    BY <2>1 DEF Contract!RunToEnd
  <2> QED
    BY <1>1, <2>2 DEF Contract!CNext
<1>3. CASE JobCompletes(e)
  <2>1. CASE Holds(e)
    <3>1. e.vaa \in ran
      BY <1>1, <1>3, <2>1 DEF JobCompletes, IInv, VaaInv, RunsKnown
    <3> QED
      BY <1>1, <1>3, <2>1, <3>1, EndJobFinishes DEF JobCompletes, Finished
  <2>2. CASE ~Holds(e)
    BY <1>3, <2>2, ContractStutter DEF JobCompletes, jobVars
  <2> QED
    BY <2>1, <2>2
<1>4. CASE JobCallFails(e)
  BY <1>4, FailsIsRetryOrFinish DEF JobCallFails
<1>5. ASSUME NEW r \in BOOLEAN, PipelineThrows(e, r) \/ ListenerThrew(e, r)
      PROVE  Contract!CNext \/ UNCHANGED Contract!cvars
  BY <1>5, FailsIsRetryOrFinish DEF PipelineThrows, ListenerThrew
<1>6. CASE LogResolves(e)
  BY <1>6, ContractStutter DEF LogResolves, jobVars, history
<1> QED
  BY <1>2, <1>3, <1>4, <1>5, <1>6 DEF RunStep

LEMMA StalledIsRetryOrFinish ==
  ASSUME IInv, NEW p \in Proc, NEW v \in Vaa, HandleStalled(p, v)
  PROVE  Contract!CNext
<1>1. TypeOK /\ EndedSound /\ job[v] = "active" /\ made' = made /\ ran' = ran
  BY DEF HandleStalled, IInv
<1>2. CASE stalls[v] < MaxStalls
  BY <1>1, <1>2, BackIsRetry DEF HandleStalled
<1>3. CASE ~(stalls[v] < MaxStalls)
  BY <1>1, <1>3, EndJobFinishes DEF HandleStalled, Finished
<1> QED
  BY <1>2, <1>3

LEMMA PromoteIsStutter ==
  ASSUME IInv, NEW v \in Vaa, Promote(v)
  PROVE  UNCHANGED Contract!cvars
<1>1. /\ TypeOK /\ job[v] = "delayed" /\ job' = [job EXCEPT ![v] = "waiting"]
      /\ made' = made /\ ran' = ran
  BY DEF Promote, history, IInv
<1>2. Mapped[v] = "queued" /\ Mapped' = [Mapped EXCEPT ![v] = "queued"]
  BY <1>1, OneMapped, Statuses DEF JobState
<1>3. Mapped' = Mapped
  BY <1>2 DEF Mapped
<1> QED
  BY <1>1, <1>3 DEF Contract!cvars, Mapped

LEMMA StepKeepsContract == IInv /\ [Next]_vars => [Contract!CNext]_(Contract!cvars)
<1> SUFFICES ASSUME IInv, [Next]_vars PROVE Contract!CNext \/ UNCHANGED Contract!cvars
  OBVIOUS
<1>1. CASE UNCHANGED vars
  BY <1>1, ContractStutter DEF vars, jobVars, history
<1>2. CASE ProcessVaa
  <2>1. ASSUME NEW p \in Proc, NEW v \in Vaa, NEW c \in Caller, Receive(p, v, c)
        PROVE  UNCHANGED Contract!cvars
    BY <2>1, ContractStutter DEF Receive, jobVars, history
  <2>2. ASSUME NEW x \in intake, FiltersPass(x) \/ FiltersReject(x)
        PROVE  UNCHANGED Contract!cvars
    BY <2>2, ContractStutter DEF FiltersPass, FiltersReject, jobVars, history
  <2> QED
    BY <1>2, <2>1, <2>2, AddIsAccept DEF ProcessVaa
<1>3. CASE WorkerStep
  BY <1>3, TakeIsBegin, StalledIsRetryOrFinish, RunIsContractStep, PromoteIsStutter DEF WorkerStep
<1>4. ASSUME NEW v \in Vaa, LoseLock(v) PROVE UNCHANGED Contract!cvars
  BY <1>4, ContractStutter DEF LoseLock
<1>5. ASSUME NEW p \in Proc, Stop(p) \/ StopReturns(p) \/ Crash(p) \/ Restart(p)
      PROVE  UNCHANGED Contract!cvars
  BY <1>5, ContractStutter DEF Stop, StopReturns, Crash, Restart, jobVars, history
<1> QED
  BY <1>1, <1>2, <1>3, <1>4, <1>5 DEF Next

\* The queue implements the contract: what it accepts it tries a bounded number
\* of times, and ends relayed, after its pipeline ran to the end, or given up.
THEOREM QueueKeepsContract == Spec => KeepsContract
<1>1. Init => Contract!CInit
  BY Statuses DEF Init, Contract!CInit
<1> QED
  BY <1>1, Invariance, StepKeepsContract, PTL DEF Spec, KeepsContract, Contract!CSpec
=============================================================================
