------------------------- MODULE WalletWorkersProofs -------------------------
(***************************************************************************)
(* Proofs about WalletWorkers, for any chains, private keys, pipelines and *)
(* number of calls.  The queue of a chain holds the calls for it that have *)
(* not begun, each once and in the order they were made; a call that has   *)
(* begun runs until it is settled, and keeps its worker busy.              *)
(***************************************************************************)
EXTENDS WalletWorkers, FiniteSetTheorems, TLAPS

\* A wallet never runs two functions at a time: two transactions of one key
\* would compete for its nonce.
OneFunctionPerWallet == \A r, s \in running : r.wallet = s.wallet => r = s

\* A worker that runs a function is busy with that one; none is there before
\* the first pipeline.
Busy ==
  /\ ~executeFunction => worker = [w \in Wallet |-> "none"]
  /\ \A r \in running : worker[r.wallet] = "busy"
  /\ OneFunctionPerWallet

\* What runs was called once, for the chain of its wallet, and is not settled.
RunsOnce ==
  /\ \A r \in running :
       /\ r.call \in Ids /\ begun[r.call] = 1 /\ calls[r.call].state = "pending"
       /\ calls[r.call].chain = ChainOf[r.wallet]
  /\ \A r, s \in running : r.call = s.call => r = s

\* What is queued is a call for the chain, not yet begun.
QueueSound ==
  \A c \in Supported : \A k \in 1..Len(queue[c]) :
    /\ queue[c][k] \in Ids
    /\ calls[queue[c][k]].chain = c /\ calls[queue[c][k]].state = "pending"
    /\ begun[queue[c][k]] = 0

QueueSorted ==
  \A c \in Supported : \A k, l \in 1..Len(queue[c]) : k < l => queue[c][k] < queue[c][l]

\* What has not begun is queued.
QueueComplete ==
  \A i \in Ids : calls[i].chain \in Supported /\ begun[i] = 0 =>
    \E k \in 1..Len(queue[calls[i].chain]) : queue[calls[i].chain][k] = i

\* What has begun runs or is settled, and has begun once.
BegunRuns ==
  /\ \A i \in Ids : begun[i] > 0 => Settled(i) \/ \E r \in running : r.call = i
  /\ \A i \in CallId : begun[i] <= 1 /\ (begun[i] > 0 => i \in Ids)
  /\ \A i \in Ids : calls[i].chain \notin Supported => Settled(i)

IInv ==
  /\ TypeOK /\ Busy /\ RunsOnce /\ QueueSound /\ QueueSorted /\ QueueComplete
  /\ BegunRuns /\ StartedInOrder

-----------------------------------------------------------------------------
LEMMA InitIInv == Init => IInv
<1> SUFFICES ASSUME Init PROVE IInv
  OBVIOUS
<1> USE DEF Init, Ids
<1>1. TypeOK
  <2>1. <<>> \in Seq(CallId) /\ Len(calls) <= MaxCalls
    BY ConstantsAssumption
  <2>2. calls \in Seq([chain : Chain, by : Caller, state : {"pending", "resolved", "rejected"}])
    OBVIOUS
  <2> QED
    BY <2>1, <2>2 DEF TypeOK
<1>2. Busy /\ RunsOnce
  BY DEF Busy, RunsOnce, OneFunctionPerWallet
<1>3. QueueSound /\ QueueSorted /\ QueueComplete
  BY DEF QueueSound, QueueSorted, QueueComplete
<1>4. BegunRuns /\ StartedInOrder
  BY DEF BegunRuns, StartedInOrder
<1> QED
  BY <1>1, <1>2, <1>3, <1>4 DEF IInv

\* A step of a worker that has nothing to do with a function.
LEMMA WorkerKeepsIInv ==
  ASSUME IInv, UNCHANGED <<queue, calls, running, begun>>,
         executeFunction' \in BOOLEAN, alive' \in BOOLEAN,
         worker' \in [Wallet -> {"none", "building", "idle", "busy", "dead"}],
         executeFunction', \A w \in Wallet : worker[w] = "busy" => worker'[w] = "busy"
  PROVE  IInv'
<1> USE DEF IInv, Ids, Settled
<1>1. TypeOK'
  BY DEF TypeOK
<1>2. Busy'
  BY DEF Busy, OneFunctionPerWallet, TypeOK
<1>3. RunsOnce' /\ QueueSound' /\ QueueSorted' /\ QueueComplete'
  BY DEF RunsOnce, QueueSound, QueueSorted, QueueComplete
<1>4. BegunRuns' /\ StartedInOrder'
  BY DEF BegunRuns, StartedInOrder
<1> QED
  BY <1>1, <1>2, <1>3, <1>4

LEMMA StartsKeepIInv ==
  ASSUME IInv, InitializeWallets \/ \E w \in Wallet : WorkerStarts(w) \/ WorkerFails(w)
  PROVE  IInv'
<1> USE DEF IInv, Busy, TypeOK
<1>1. CASE InitializeWallets
  <2>1. \A w \in Wallet : worker[w] # "busy"
    BY <1>1 DEF InitializeWallets
  <2> QED
    BY <1>1, <2>1, WorkerKeepsIInv DEF InitializeWallets
<1>2. ASSUME NEW w \in Wallet, WorkerStarts(w) PROVE IInv'
  BY <1>2, WorkerKeepsIInv DEF WorkerStarts
<1>3. ASSUME NEW w \in Wallet, WorkerFails(w) PROVE IInv'
  BY <1>3, WorkerKeepsIInv DEF WorkerFails
<1> QED
  BY <1>1, <1>2, <1>3

-----------------------------------------------------------------------------
LEMMA ExecuteKeepsIInv ==
  ASSUME IInv, NEW by \in Caller, NEW c \in Chain, Execute(by, c)
  PROVE  IInv'
<1> DEFINE i == Len(calls) + 1
           state == IF c \in Supported THEN "pending" ELSE "rejected"
<1> USE DEF IInv, Ids, Settled, CallId
<1>1. /\ i \in CallId /\ Len(calls) \in Nat
      /\ calls' = Append(calls, [chain |-> c, by |-> by, state |-> state])
      /\ UNCHANGED <<executeFunction, worker, running, begun, alive>>
  BY ConstantsAssumption DEF Execute, TypeOK
<1>2. /\ Len(calls') = i
      /\ calls'[i] = [chain |-> c, by |-> by, state |-> state]
      /\ \A j \in 1..Len(calls) : calls'[j] = calls[j]
  BY <1>1 DEF TypeOK
<1>3. c \in Supported => Enqueue(i, c)
  BY DEF Execute
<1>4. c \notin Supported => queue' = queue
  BY DEF Execute
<1>5. /\ c \in Supported => queue'[c] = Append(queue[c], i)
      /\ \A d \in Supported : d # c => queue'[d] = queue[d]
      /\ queue' \in [Supported -> Seq(CallId)]
  <2>1. CASE c \in Supported
    <3>1. queue' = [queue EXCEPT ![c] = Append(@, i)]
      BY <1>3, <2>1 DEF Enqueue
    <3>2. Append(queue[c], i) \in Seq(CallId)
      BY <1>1, <2>1 DEF TypeOK
    <3> HIDE DEF i
    <3> QED
      BY <2>1, <3>1, <3>2 DEF TypeOK
  <2>2. CASE c \notin Supported
    BY <1>4, <2>2 DEF TypeOK
  <2> QED
    BY <2>1, <2>2
<1>6. begun[i] = 0
  BY <1>1 DEF BegunRuns, TypeOK
<1> HIDE DEF i
<1>7. TypeOK'
  BY <1>1, <1>2, <1>5, ConstantsAssumption DEF TypeOK, i
<1>8. Busy'
  BY <1>1 DEF Busy, OneFunctionPerWallet
<1>9. RunsOnce'
  BY <1>1, <1>2 DEF RunsOnce, i
<1>10. ASSUME NEW d \in Supported
       PROVE  /\ \A k \in 1..Len(queue[d]) : queue'[d][k] = queue[d][k]
              /\ \A k \in 1..Len(queue'[d]) :
                   k \in 1..Len(queue[d]) \/ (d = c /\ k = Len(queue[d]) + 1 /\ queue'[d][k] = i)
              /\ d = c => i \in Ids' /\ Len(queue'[d]) = Len(queue[d]) + 1
                            /\ queue'[d][Len(queue[d]) + 1] = i /\ Len(queue[d]) \in Nat
  <2>1. queue[d] \in Seq(CallId) /\ i \in CallId
    BY <1>1 DEF TypeOK, i
  <2>2. i \in Ids'
    BY <1>1, <1>2 DEF i
  <2>3. CASE d = c
    <3>1. queue'[d] = Append(queue[d], i)
      BY <1>5, <2>3
    <3> QED
      BY <2>1, <2>2, <2>3, <3>1
  <2>4. CASE d # c
    BY <1>5, <2>1, <2>4
  <2> QED
    BY <2>3, <2>4
<1>11. QueueSound'
  <2> SUFFICES ASSUME NEW d \in Supported, NEW k \in 1..Len(queue'[d])
               PROVE  /\ queue'[d][k] \in 1..Len(calls')
                      /\ calls'[queue'[d][k]].chain = d
                      /\ calls'[queue'[d][k]].state = "pending"
                      /\ begun[queue'[d][k]] = 0
    BY <1>1 DEF QueueSound
  <2>1. CASE k \in 1..Len(queue[d])
    <3>1. queue[d][k] \in 1..Len(calls)
      BY <2>1 DEF QueueSound
    <3> QED
      BY <1>1, <1>2, <1>10, <2>1, <3>1 DEF QueueSound, i
  <2>2. CASE d = c /\ k = Len(queue[d]) + 1 /\ queue'[d][k] = i
    BY <1>1, <1>2, <1>6, <1>10, <2>2
  <2> QED
    BY <1>10, <2>1, <2>2
<1>12. QueueSorted'
  <2> SUFFICES ASSUME NEW d \in Supported, NEW k \in 1..Len(queue'[d]),
                      NEW l \in 1..Len(queue'[d]), k < l
               PROVE  queue'[d][k] < queue'[d][l]
    BY DEF QueueSorted
  <2>1. CASE l \in 1..Len(queue[d])
    BY <1>10, <2>1 DEF QueueSorted
  <2>2. CASE d = c /\ l = Len(queue[d]) + 1 /\ queue'[d][l] = i
    <3>1. k \in 1..Len(queue[d])
      BY <1>10, <2>2
    <3>2. queue'[d][k] = queue[d][k] /\ queue[d][k] \in 1..Len(calls)
      BY <1>10, <2>2, <3>1 DEF QueueSound
    <3> QED
      BY <1>1, <2>2, <3>2 DEF i
  <2> QED
    BY <1>10, <2>1, <2>2
<1>13. QueueComplete'
  <2> SUFFICES ASSUME NEW j \in 1..Len(calls'), calls'[j].chain \in Supported, begun[j] = 0
               PROVE  \E k \in 1..Len(queue'[calls'[j].chain]) : queue'[calls'[j].chain][k] = j
    BY <1>1 DEF QueueComplete
  <2>1. CASE j = i
    BY <1>2, <1>10, <2>1
  <2>2. CASE j \in 1..Len(calls)
    <3>1. PICK k \in 1..Len(queue[calls[j].chain]) : queue[calls[j].chain][k] = j
      BY <1>2, <2>2 DEF QueueComplete
    <3>2. k \in 1..Len(queue'[calls[j].chain])
      BY <1>2, <1>10, <2>2, <3>1, <1>5 DEF TypeOK
    <3> QED
      BY <1>2, <1>10, <2>2, <3>1, <3>2
  <2> QED
    BY <1>1, <1>2, <2>1, <2>2 DEF i
<1>14. BegunRuns'
  BY <1>1, <1>2, <1>6 DEF BegunRuns, i
<1>15. StartedInOrder'
  BY <1>1, <1>2, <1>6 DEF StartedInOrder, i
<1> QED
  BY <1>7, <1>8, <1>9, <1>11, <1>12, <1>13, <1>14, <1>15

LEMMA DequeueKeepsIInv ==
  ASSUME IInv, NEW w \in Wallet, Dequeue(w)
  PROVE  IInv'
<1> DEFINE c == ChainOf[w]
           i == Head(queue[c])
<1> USE DEF IInv, Ids, Settled
<1>1. /\ c \in Supported /\ queue[c] \in Seq(CallId) /\ queue[c] # <<>>
      /\ 1 \in 1..Len(queue[c]) /\ i = queue[c][1]
  <2>1. c \in Supported
    BY ConstantsAssumption
  <2>2. queue[c] \in Seq(CallId)
    BY <2>1 DEF TypeOK
  <2>3. queue[c] # <<>>
    BY DEF Dequeue
  <2> HIDE DEF c
  <2> QED
    BY <2>1, <2>2, <2>3
<1>2. /\ i \in 1..Len(calls) /\ i \in CallId
      /\ calls[i].chain = c /\ calls[i].state = "pending" /\ begun[i] = 0
  BY <1>1 DEF QueueSound, TypeOK
<1>3. /\ running' = running \cup {[wallet |-> w, call |-> i]}
      /\ begun' = [begun EXCEPT ![i] = begun[i] + 1]
      /\ queue' = [queue EXCEPT ![c] = Tail(queue[c])]
      /\ worker' = [worker EXCEPT ![w] = "busy"]
      /\ worker[w] = "idle" /\ UNCHANGED <<executeFunction, calls, alive>>
  BY DEF Dequeue
<1>4. begun'[i] = 1 /\ \A j \in CallId : j # i => begun'[j] = begun[j]
  BY <1>2, <1>3 DEF TypeOK
<1> HIDE DEF i
<1>5. /\ queue'[c] = Tail(queue[c]) /\ Tail(queue[c]) \in Seq(CallId)
      /\ \A d \in Supported : d # c => queue'[d] = queue[d]
      /\ queue' \in [Supported -> Seq(CallId)]
  BY <1>1, <1>3 DEF TypeOK
<1>6. /\ Len(queue'[c]) = Len(queue[c]) - 1
      /\ \A k \in 1..Len(queue'[c]) : k + 1 \in 1..Len(queue[c]) /\ queue'[c][k] = queue[c][k + 1]
      /\ \A k \in 1..Len(queue[c]) : k # 1 =>
           k - 1 \in 1..Len(queue'[c]) /\ queue'[c][k - 1] = queue[c][k]
  BY <1>1, <1>5
<1>7. TypeOK'
  BY <1>2, <1>3, <1>5 DEF TypeOK
<1>8. \A r \in running : r.wallet # w /\ r.call # i
  BY <1>2, <1>3 DEF Busy, RunsOnce
<1>9. Busy'
  <2>1. executeFunction
    BY <1>3 DEF Busy
  <2>2. \A r \in running' : worker'[r.wallet] = "busy"
    BY <1>3 DEF Busy, TypeOK
  <2>3. OneFunctionPerWallet'
    BY <1>3, <1>8 DEF Busy, OneFunctionPerWallet
  <2> QED
    BY <1>3, <2>1, <2>2, <2>3 DEF Busy
<1>10. RunsOnce'
  <2>1. \A r \in running' : r.call \in 1..Len(calls) /\ begun'[r.call] = 1
                              /\ calls[r.call].state = "pending"
                              /\ calls[r.call].chain = ChainOf[r.wallet]
    BY <1>2, <1>3, <1>4, <1>8 DEF RunsOnce, TypeOK
  <2>2. \A r, s \in running' : r.call = s.call => r = s
    BY <1>3, <1>8 DEF RunsOnce
  <2> QED
    BY <1>3, <2>1, <2>2 DEF RunsOnce
\* The rest of the queue comes after its head.
<1>11. \A k \in 1..Len(queue'[c]) : queue'[c][k] # i
  <2> SUFFICES ASSUME NEW k \in 1..Len(queue'[c]) PROVE queue'[c][k] # i
    OBVIOUS
  <2>1. queue[c][1] < queue[c][k + 1]
    BY <1>1, <1>6 DEF QueueSorted
  <2> QED
    BY <1>1, <1>2, <1>6, <2>1 DEF CallId
<1>12. QueueSound'
  <2> SUFFICES ASSUME NEW d \in Supported, NEW k \in 1..Len(queue'[d])
               PROVE  /\ queue'[d][k] \in 1..Len(calls)
                      /\ calls[queue'[d][k]].chain = d
                      /\ calls[queue'[d][k]].state = "pending"
                      /\ begun'[queue'[d][k]] = 0
    <3> HIDE DEF c
    <3>1. calls' = calls
      BY <1>3
    <3> QED
      BY <3>1 DEF QueueSound
  <2>1. PICK l \in 1..Len(queue[d]) : queue'[d][k] = queue[d][l]
    <3>1. CASE d = c
      BY <1>6, <3>1
    <3>2. CASE d # c
      BY <1>5, <3>2
    <3> QED
      BY <3>1, <3>2
  <2>2. /\ queue[d][l] \in 1..Len(calls) /\ calls[queue[d][l]].chain = d
        /\ calls[queue[d][l]].state = "pending" /\ begun[queue[d][l]] = 0
    BY <2>1 DEF QueueSound
  <2>3. queue'[d][k] # i
    BY <1>2, <1>11, <2>1, <2>2
  <2>4. queue[d][l] \in CallId
    BY <2>1 DEF TypeOK
  <2> QED
    BY <1>4, <2>1, <2>2, <2>3, <2>4
<1>13. QueueSorted'
  <2> SUFFICES ASSUME NEW d \in Supported, NEW k \in 1..Len(queue'[d]),
                      NEW l \in 1..Len(queue'[d]), k < l
               PROVE  queue'[d][k] < queue'[d][l]
    BY DEF QueueSorted
  <2>1. CASE d = c
    <3>1. k + 1 < l + 1
      OBVIOUS
    <3> QED
      BY <1>1, <1>6, <2>1, <3>1 DEF QueueSorted
  <2>2. CASE d # c
    BY <1>5, <2>2 DEF QueueSorted
  <2> QED
    BY <2>1, <2>2
<1>14. QueueComplete'
  <2> SUFFICES ASSUME NEW j \in 1..Len(calls), calls[j].chain \in Supported, begun'[j] = 0
               PROVE  \E k \in 1..Len(queue'[calls[j].chain]) : queue'[calls[j].chain][k] = j
    BY <1>3 DEF QueueComplete
  <2>1. j \in CallId /\ j # i /\ begun[j] = 0
    BY <1>4, ConstantsAssumption DEF TypeOK, CallId
  <2>2. PICK k \in 1..Len(queue[calls[j].chain]) : queue[calls[j].chain][k] = j
    BY <2>1 DEF QueueComplete
  <2>3. CASE calls[j].chain = c
    <3>1. k # 1 /\ k \in 1..Len(queue[c]) /\ queue[c][k] = j
      BY <1>1, <2>1, <2>2, <2>3
    <3>2. k - 1 \in 1..Len(queue'[c]) /\ queue'[c][k - 1] = j
      BY <1>6, <3>1
    <3> QED
      BY <2>3, <3>2
  <2>4. CASE calls[j].chain # c
    BY <1>5, <2>2, <2>4
  <2> QED
    BY <2>3, <2>4
<1>15. BegunRuns'
  <2>1. ASSUME NEW j \in 1..Len(calls), begun'[j] > 0
        PROVE  Settled(j) \/ \E r \in running' : r.call = j
    <3>1. CASE j = i
      <4>1. [wallet |-> w, call |-> i] \in running'
        BY <1>3
      <4> QED
        BY <3>1, <4>1
    <3>2. CASE j # i
      BY <1>3, <1>4, <2>1, <3>2 DEF BegunRuns, TypeOK, CallId
    <3> QED
      BY <3>1, <3>2
  <2>2. \A j \in CallId : begun'[j] <= 1 /\ (begun'[j] > 0 => j \in 1..Len(calls))
    BY <1>2, <1>4 DEF BegunRuns, TypeOK
  <2> QED
    BY <1>3, <2>1, <2>2 DEF BegunRuns
<1>16. StartedInOrder'
  <2> SUFFICES ASSUME NEW h \in 1..Len(calls), NEW j \in 1..Len(calls), h < j,
                      calls[h].chain = calls[j].chain, calls[h].chain \in Supported, begun'[j] > 0
               PROVE  begun'[h] > 0
    BY <1>3 DEF StartedInOrder
  <2>0. h \in CallId /\ j \in CallId
    BY ConstantsAssumption DEF TypeOK, CallId
  <2>1. CASE j # i
    BY <1>4, <2>0, <2>1 DEF StartedInOrder, TypeOK
  <2>2. CASE j = i
    <3>1. ASSUME begun[h] = 0 PROVE FALSE
      <4>1. PICK k \in 1..Len(queue[c]) : queue[c][k] = h
        BY <1>2, <2>2, <3>1 DEF QueueComplete
      <4>2. k = 1 \/ queue[c][1] < queue[c][k]
        BY <1>1 DEF QueueSorted
      <4> QED
        BY <1>1, <2>0, <2>2, <4>1, <4>2 DEF CallId
    <3> QED
      BY <1>4, <2>0, <2>2, <3>1 DEF TypeOK
  <2> QED
    BY <2>1, <2>2
<1> QED
  BY <1>7, <1>9, <1>10, <1>12, <1>13, <1>14, <1>15, <1>16

LEMMA SettleKeepsIInv ==
  ASSUME IInv, NEW r \in running, NEW end \in {"resolved", "rejected"}, Settle(r, end)
  PROVE  IInv'
<1> USE DEF IInv, Ids, Settled
<1>1. /\ running' = running \ {r}
      /\ worker' = [worker EXCEPT ![r.wallet] = "idle"]
      /\ calls' = [calls EXCEPT ![r.call].state = end]
      /\ UNCHANGED <<executeFunction, queue, begun, alive>>
  BY DEF Settle
<1>2. /\ r.wallet \in Wallet /\ r.call \in 1..Len(calls)
      /\ calls[r.call].state = "pending" /\ begun[r.call] = 1
  BY DEF TypeOK, RunsOnce
<1>3. /\ Len(calls') = Len(calls)
      /\ \A j \in 1..Len(calls) : calls'[j].chain = calls[j].chain
      /\ \A j \in 1..Len(calls) : j # r.call => calls'[j] = calls[j]
      /\ calls'[r.call].state = end
      /\ calls' \in Seq([chain : Chain, by : Caller, state : {"pending", "resolved", "rejected"}])
  <2> DEFINE Call == [chain : Chain, by : Caller, state : {"pending", "resolved", "rejected"}]
  <2>1. calls \in Seq(Call)
    BY DEF TypeOK
  <2>2. calls[r.call] \in Call
    <3> HIDE DEF Call
    <3> QED
      BY <1>2, <2>1
  <2>3. [calls[r.call] EXCEPT !.state = end] \in Call
    BY <2>2
  <2>4. calls' = [calls EXCEPT ![r.call] = [calls[r.call] EXCEPT !.state = end]]
    BY <1>1
  <2>5. calls' \in Seq(Call) /\ Len(calls') = Len(calls)
    <3> HIDE DEF Call
    <3> QED
      BY <1>2, <2>1, <2>3, <2>4
  <2>6. \A j \in 1..Len(calls) : calls'[j] =
          IF j = r.call THEN [calls[j] EXCEPT !.state = end] ELSE calls[j]
    <3> HIDE DEF Call
    <3> QED
      BY <2>1, <2>4
  <2>7. \A j \in 1..Len(calls) : calls[j] \in Call
    <3> HIDE DEF Call
    <3> QED
      BY <2>1
  <2> QED
    BY <1>2, <2>5, <2>6, <2>7
<1>4. TypeOK'
  BY <1>1, <1>2, <1>3 DEF TypeOK
<1>5. Busy'
  <2>1. worker[r.wallet] = "busy" /\ executeFunction
    BY <1>2 DEF Busy
  <2>2. \A s \in running' : s.wallet # r.wallet
    BY <1>1 DEF Busy, OneFunctionPerWallet
  <2> QED
    BY <1>1, <2>1, <2>2 DEF Busy, OneFunctionPerWallet, TypeOK
<1>6. RunsOnce'
  BY <1>1, <1>3 DEF RunsOnce
<1>7. QueueSound'
  <2> SUFFICES ASSUME NEW d \in Supported, NEW k \in 1..Len(queue[d])
               PROVE  /\ queue[d][k] \in 1..Len(calls')
                      /\ calls'[queue[d][k]].chain = d
                      /\ calls'[queue[d][k]].state = "pending"
                      /\ begun[queue[d][k]] = 0
    BY <1>1 DEF QueueSound
  <2>1. /\ queue[d][k] \in 1..Len(calls) /\ calls[queue[d][k]].chain = d
        /\ calls[queue[d][k]].state = "pending" /\ begun[queue[d][k]] = 0
    BY DEF QueueSound
  <2> QED
    BY <1>2, <1>3, <2>1
<1>8. QueueSorted' /\ QueueComplete'
  BY <1>1, <1>3 DEF QueueSorted, QueueComplete
<1>9. BegunRuns'
  <2>1. ASSUME NEW j \in 1..Len(calls), begun[j] > 0
        PROVE  Settled(j)' \/ \E s \in running' : s.call = j
    BY <1>1, <1>3, <2>1 DEF BegunRuns
  <2>2. ASSUME NEW j \in 1..Len(calls), calls[j].chain \notin Supported PROVE Settled(j)'
    BY <1>3, <2>2 DEF BegunRuns
  <2> QED
    BY <1>1, <1>3, <2>1, <2>2 DEF BegunRuns
<1>10. StartedInOrder'
  BY <1>1, <1>3 DEF StartedInOrder
<1> QED
  BY <1>4, <1>5, <1>6, <1>7, <1>8, <1>9, <1>10

-----------------------------------------------------------------------------
LEMMA InvariantWorkers == Spec => []IInv
<1>1. IInv /\ [Next]_vars => IInv'
  <2> SUFFICES ASSUME IInv, [Next]_vars PROVE IInv'
    OBVIOUS
  <2>1. CASE InitializeWallets
    BY <2>1, StartsKeepIInv
  <2>2. ASSUME NEW by \in Caller, NEW c \in Chain, Execute(by, c) PROVE IInv'
    BY <2>2, ExecuteKeepsIInv
  <2>3. ASSUME NEW w \in Wallet, WorkerStep(w) PROVE IInv'
    BY <2>3, StartsKeepIInv, DequeueKeepsIInv, SettleKeepsIInv DEF WorkerStep
  <2>4. CASE UNCHANGED vars
    BY <2>4 DEF vars, IInv, TypeOK, Busy, OneFunctionPerWallet, RunsOnce, QueueSound,
                QueueSorted, QueueComplete, BegunRuns, StartedInOrder, Ids, Settled
  <2> QED
    BY <2>1, <2>2, <2>3, <2>4 DEF Next
<1> QED
  BY InitIInv, <1>1, PTL DEF Spec

\* What has not begun is once in its queue and does not run; what has begun and
\* is not settled runs once and is in no queue.
LEMMA CalledOnceFollows == IInv => CalledOnce
<1> SUFFICES ASSUME IInv, NEW i \in Ids
             PROVE  /\ begun[i] <= 1
                    /\ ~Settled(i) =>
                         Cardinality({j \in DOMAIN queue[calls[i].chain] :
                                        queue[calls[i].chain][j] = i})
                           + Cardinality({r \in running : r.call = i}) = 1
  BY DEF CalledOnce
<1> DEFINE q == queue[calls[i].chain]
           queued == {j \in DOMAIN q : q[j] = i}
           runs == {r \in running : r.call = i}
<1> USE DEF IInv, Ids, Settled
<1>1. i \in CallId /\ begun[i] \in Nat /\ begun[i] <= 1
  BY ConstantsAssumption DEF TypeOK, CallId, BegunRuns
<1>2. ASSUME ~Settled(i) PROVE Cardinality(queued) + Cardinality(runs) = 1
  <2>1. calls[i].chain \in Supported /\ q \in Seq(CallId) /\ DOMAIN q = 1..Len(q)
    BY <1>2 DEF BegunRuns, TypeOK
  <2>2. CASE begun[i] = 0
    <3>1. runs = {}
      BY <2>2 DEF RunsOnce
    <3>2. PICK k \in 1..Len(q) : q[k] = i
      BY <2>1, <2>2 DEF QueueComplete
    <3>3. queued = {k}
      <4>1. ASSUME NEW j \in 1..Len(q), q[j] = i PROVE j = k
        <5>1. ~(j < k) /\ ~(k < j)
          BY <1>1, <2>1, <3>2, <4>1 DEF QueueSorted, CallId
        <5> QED
          BY <2>1, <5>1
      <4> QED
        BY <2>1, <3>2, <4>1
    <3>4. Cardinality(queued) = 1 /\ Cardinality(runs) = 0
      <4> HIDE DEF queued, runs
      <4> QED
        BY <3>1, <3>3, FS_EmptySet, FS_Singleton
    <3> HIDE DEF queued, runs
    <3> QED
      BY <3>4
  <2>3. CASE begun[i] = 1
    <3>1. queued = {}
      BY <2>1, <2>3 DEF QueueSound
    <3>2. PICK r \in running : r.call = i
      BY <1>2, <2>3 DEF BegunRuns
    <3>3. runs = {r}
      BY <3>2 DEF RunsOnce
    <3>4. Cardinality(queued) = 0 /\ Cardinality(runs) = 1
      <4> HIDE DEF queued, runs
      <4> QED
        BY <3>1, <3>3, FS_EmptySet, FS_Singleton
    <3> HIDE DEF queued, runs
    <3> QED
      BY <3>4
  <2> QED
    BY <1>1, <2>2, <2>3
<1> QED
  BY <1>1, <1>2

\* Every variable keeps its type, for any wallets, pipelines and calls.
THEOREM TypeCorrect == Spec => []TypeOK
BY InvariantWorkers, PTL DEF IInv

\* The loop of wallet.worker.ts awaits each function before it takes the next.
THEOREM WalletsAreExclusive == Spec => []OneFunctionPerWallet
<1>1. IInv => OneFunctionPerWallet
  BY DEF IInv, Busy
<1> QED
  BY <1>1, InvariantWorkers, PTL

\* No call is lost or made twice, however many workers share the queue of a
\* chain and however many of them fail to start.
THEOREM CallsAreMadeOnce == Spec => []CalledOnce
BY CalledOnceFollows, InvariantWorkers, PTL

\* Functions start in the order of the calls for their chain.
THEOREM CallsStartInOrder == Spec => []StartedInOrder
<1>1. IInv => StartedInOrder
  BY DEF IInv
<1> QED
  BY <1>1, InvariantWorkers, PTL

-----------------------------------------------------------------------------
\* Every call is known to the pool.
LEMMA KnownCalls == IInv => Pool!Known \subseteq 1..Len(calls)
<1> SUFFICES ASSUME IInv, NEW t \in Waiting \cup running \cup Over
             PROVE  t.call \in 1..Len(calls)
  BY DEF Pool!Known
<1>1. t \in running => t.call \in 1..Len(calls)
  BY DEF IInv, RunsOnce, Ids
<1>2. t \in Waiting \cup Over => t.call \in 1..Len(calls)
  BY DEF Waiting, Over, Ids
<1> QED
  BY <1>1, <1>2

\* What changes neither the calls nor their beginnings changes nothing of the pool.
LEMMA SamePool ==
  ASSUME UNCHANGED <<calls, running, begun>>
  PROVE  UNCHANGED Pool!pvars
BY DEF Pool!pvars, Waiting, Over, Ids, Settled

\* A call for a chain with wallets is asked for, any other refused.
LEMMA ExecuteAsks ==
  ASSUME IInv, NEW by \in Caller, NEW c \in Chain, Execute(by, c)
  PROVE  \E i \in CallId : Pool!Ask(i, c) \/ Pool!Refuse(i, c)
<1> DEFINE i == Len(calls) + 1
           state == IF c \in Supported THEN "pending" ELSE "rejected"
<1>1. /\ i \in CallId /\ Len(calls) \in Nat
      /\ calls' = Append(calls, [chain |-> c, by |-> by, state |-> state])
      /\ UNCHANGED <<running, begun>>
  BY ConstantsAssumption DEF Execute, IInv, TypeOK, CallId
<1>2. /\ Len(calls') = i
      /\ calls'[i] = [chain |-> c, by |-> by, state |-> state]
      /\ \A j \in 1..Len(calls) : calls'[j] = calls[j]
  BY <1>1 DEF IInv, TypeOK
<1>3. begun[i] = 0
  BY <1>1 DEF IInv, BegunRuns, TypeOK, Ids
<1>4. Pool!IsNext(i)
  BY <1>1, KnownCalls DEF Pool!IsNext
<1> HIDE DEF i
<1>5. Ids' = Ids \cup {i} /\ i \notin Ids
  BY <1>1, <1>2 DEF Ids, i
<1>6. \A j \in Ids : calls'[j] = calls[j]
  BY <1>2 DEF Ids
<1> DEFINE fresh == {j \in Ids : ~Settled(j) /\ begun[j] = 0}
<1>7. fresh' = IF c \in Supported THEN fresh \cup {i} ELSE fresh
  <2> DEFINE done(j) == calls'[j].state \in {"resolved", "rejected"}
  <2>1. \A j \in Ids : done(j) <=> Settled(j)
    BY <1>6 DEF Settled
  <2>2. done(i) <=> c \notin Supported
    BY <1>2
  <2>3. fresh' = {j \in Ids \cup {i} : ~done(j) /\ begun[j] = 0}
    BY <1>1, <1>5 DEF Settled
  <2> HIDE DEF done
  <2> QED
    BY <1>3, <1>5, <2>1, <2>2, <2>3
<1>8. /\ Waiting = {[call |-> j, chain |-> calls[j].chain] : j \in fresh}
       /\ Waiting' = {[call |-> j, chain |-> calls'[j].chain] : j \in fresh'}
       /\ \A j \in fresh : calls'[j].chain = calls[j].chain
  BY <1>6 DEF Waiting
<1> HIDE DEF fresh
<1>9. CASE c \in Supported
  <2>1. Waiting' = Waiting \cup {[call |-> i, chain |-> c]}
    BY <1>2, <1>9, <1>7, <1>8
  <2>2. Over' = Over
    BY <1>2, <1>5, <1>6, <1>9 DEF Over, Settled
  <2>3. Pool!Ask(i, c)
    BY <1>1, <1>4, <1>9, <2>1, <2>2 DEF Pool!Ask
  <2> QED
    BY <1>1, <2>3
<1>10. CASE c \notin Supported
  <2>1. Waiting' = Waiting
    BY <1>10, <1>7, <1>8
  <2>2. Over' = Over \cup {[call |-> i, chain |-> c, state |-> "rejected"]}
    <3> DEFINE over == {j \in Ids : Settled(j)}
    <3>1. over' = over \cup {i}
      BY <1>2, <1>5, <1>6, <1>10 DEF Settled
    <3>2. \A j \in over : calls'[j] = calls[j]
      BY <1>6
    <3>3. calls'[i].chain = c /\ calls'[i].state = "rejected"
      BY <1>2, <1>10
    <3>4. Over = {[call |-> j, chain |-> calls[j].chain, state |-> calls[j].state] : j \in over}
      BY DEF Over
    <3>5. Over' = {[call |-> j, chain |-> calls'[j].chain, state |-> calls'[j].state] : j \in over'}
      BY DEF Over
    <3> HIDE DEF over
    <3> QED
      BY <3>1, <3>2, <3>3, <3>4, <3>5
  <2>3. Pool!Refuse(i, c)
    BY <1>1, <1>4, <1>10, <2>1, <2>2 DEF Pool!Refuse
  <2> QED
    BY <1>1, <2>3
<1> QED
  BY <1>9, <1>10

\* The head of a queue is the call for its chain that has waited longest, and an
\* idle worker's wallet serves no other.
LEMMA DequeueServes ==
  ASSUME IInv, NEW w \in Wallet, Dequeue(w)
  PROVE  \E t \in Waiting : Pool!Serve(w, t)
<1> DEFINE c == ChainOf[w]
           i == Head(queue[c])
           t == [call |-> i, chain |-> c]
<1>1. /\ c \in Supported /\ queue[c] \in Seq(CallId) /\ queue[c] # <<>>
      /\ 1 \in 1..Len(queue[c]) /\ i = queue[c][1]
  <2>1. c \in Supported
    BY ConstantsAssumption
  <2>2. queue[c] \in Seq(CallId)
    BY <2>1 DEF IInv, TypeOK
  <2>3. queue[c] # <<>>
    BY DEF Dequeue
  <2> HIDE DEF c
  <2> QED
    BY <2>1, <2>2, <2>3
<1>2. /\ i \in Ids /\ i \in CallId
      /\ calls[i].chain = c /\ calls[i].state = "pending" /\ begun[i] = 0
  BY <1>1 DEF IInv, QueueSound, TypeOK
<1>3. /\ running' = running \cup {[wallet |-> w, call |-> i]}
      /\ begun' = [begun EXCEPT ![i] = begun[i] + 1]
      /\ worker[w] = "idle" /\ calls' = calls
  BY DEF Dequeue
<1>4. begun'[i] = 1 /\ \A j \in CallId : j # i => begun'[j] = begun[j]
  BY <1>2, <1>3 DEF IInv, TypeOK
<1>5. Ids \subseteq CallId
  BY ConstantsAssumption DEF IInv, TypeOK, Ids, CallId
<1> HIDE DEF i
<1>6. Waiting' = Waiting \ {t} /\ t \in Waiting
  BY <1>2, <1>3, <1>4, <1>5 DEF Waiting, Ids, Settled
<1>7. Over' = Over
  BY <1>3 DEF Over, Ids, Settled
<1>8. Pool!IsFree(w)
  BY <1>3 DEF Pool!IsFree, IInv, Busy
<1>9. Pool!IsFirst(t)
  <2> SUFFICES ASSUME NEW j \in Ids, begun[j] = 0, calls[j].chain = c PROVE i <= j
    BY DEF Pool!IsFirst, Waiting
  <2>1. PICK k \in 1..Len(queue[c]) : queue[c][k] = j
    BY <1>1 DEF IInv, QueueComplete
  <2>2. k = 1 \/ queue[c][1] < queue[c][k]
    BY <1>1 DEF IInv, QueueSorted
  <2> QED
    BY <1>1, <1>2, <1>5, <2>1, <2>2 DEF CallId
<1>10. Pool!Serve(w, t)
  BY <1>3, <1>6, <1>7, <1>8, <1>9 DEF Pool!Serve
<1> QED
  BY <1>6, <1>10

\* A function that ends, ends the service of its call with its own outcome.
LEMMA SettleEnds ==
  ASSUME IInv, NEW r \in running, NEW end \in {"resolved", "rejected"}, Settle(r, end)
  PROVE  Pool!End(r, end)
<1> DEFINE i == r.call
<1>1. /\ running' = running \ {r} /\ begun' = begun
      /\ calls' = [calls EXCEPT ![i].state = end]
  BY DEF Settle
<1>2. /\ i \in Ids /\ begun[i] = 1
      /\ calls[i].state = "pending" /\ calls[i].chain = ChainOf[r.wallet]
  BY DEF IInv, RunsOnce
<1>3. /\ Ids' = Ids
      /\ \A j \in Ids : calls'[j].chain = calls[j].chain
      /\ \A j \in Ids : j # i => calls'[j] = calls[j]
      /\ calls'[i].state = end
  <2> DEFINE One == [chain : Chain, by : Caller, state : {"pending", "resolved", "rejected"}]
  <2>1. calls \in Seq(One)
    BY DEF IInv, TypeOK
  <2>2. calls[i] \in One
    <3> HIDE DEF One
    <3> QED
      BY <1>2, <2>1 DEF Ids
  <2>3. calls' = [calls EXCEPT ![i] = [calls[i] EXCEPT !.state = end]]
    BY <1>1
  <2>4. /\ Len(calls') = Len(calls)
        /\ \A j \in Ids : calls'[j] = IF j = i THEN [calls[i] EXCEPT !.state = end] ELSE calls[j]
    <3> HIDE DEF One
    <3> QED
      BY <1>2, <2>1, <2>3 DEF Ids
  <2> QED
    BY <1>2, <2>2, <2>4 DEF Ids
<1> HIDE DEF i
<1>4. Waiting' = Waiting
  BY <1>1, <1>2, <1>3 DEF Waiting, Settled
<1>5. Over' = Over \cup {[call |-> i, chain |-> ChainOf[r.wallet], state |-> end]}
  BY <1>2, <1>3 DEF Over, Settled
<1> QED
  BY <1>1, <1>4, <1>5 DEF Pool!End, i

\* Queues, workers and promises are a pool of wallets per chain: whatever the
\* interleaving of pipelines and workers, a call is served once, by one wallet of
\* its chain that serves no other meanwhile, no later call for the chain is served
\* before it, and its promise is settled once, by the end of its function.
THEOREM WorkersImplementPool == Spec => WorkersArePool
<1>1. Init => Pool!PInit
  BY DEF Init, Pool!PInit, Waiting, Over, Ids
<1>2. IInv /\ [Next]_vars => [Pool!PNext]_(Pool!pvars)
  <2> SUFFICES ASSUME IInv, [Next]_vars PROVE Pool!PNext \/ UNCHANGED Pool!pvars
    OBVIOUS
  <2>1. CASE InitializeWallets
    BY <2>1, SamePool DEF InitializeWallets
  <2>2. ASSUME NEW by \in Caller, NEW c \in Chain, Execute(by, c) PROVE Pool!PNext
    BY <2>2, ExecuteAsks DEF Pool!PNext
  <2>3. ASSUME NEW w \in Wallet, WorkerStep(w) PROVE Pool!PNext \/ UNCHANGED Pool!pvars
    <3>1. CASE WorkerStarts(w) \/ WorkerFails(w)
      BY <3>1, SamePool DEF WorkerStarts, WorkerFails
    <3>2. CASE Dequeue(w)
      BY <3>2, DequeueServes DEF Pool!PNext
    <3>3. ASSUME NEW r \in running, NEW end \in {"resolved", "rejected"}, Settle(r, end)
          PROVE  Pool!PNext
      BY <3>3, SettleEnds DEF Pool!PNext
    <3> QED
      BY <2>3, <3>1, <3>2, <3>3 DEF WorkerStep
  <2>4. CASE UNCHANGED vars
    BY <2>4, SamePool DEF vars
  <2> QED
    BY <2>1, <2>2, <2>3, <2>4 DEF Next
<1> QED
  BY <1>1, <1>2, InvariantWorkers, PTL DEF Spec, WorkersArePool, Pool!PSpec
=============================================================================
