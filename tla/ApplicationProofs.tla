-------------------------- MODULE ApplicationProofs --------------------------
(***************************************************************************)
(* Theorems about Application and Pipeline, for any number of deliveries,  *)
(* emitters, middlewares and calls.                                        *)
(***************************************************************************)
EXTENDS Application, TLAPS

-----------------------------------------------------------------------------
(* The route of what the spy sends.                                        *)

\* A key of a router: an address as the router looks it up, or one of a chain that
\* keeps it as it was written.
IsKey(k) ==
  \/ k = Hex(k.emitter, "lower")
  \/ chainOf[k.emitter] \in KeepsCase /\ k = Hex(k.emitter, "mixed")

\* Handlers have routers; before listen() there are no filters and the spy sent
\* nothing; what the spy sends its filters let through.
RoutesInv ==
  /\ \A k \in handlers : chainOf[k.emitter] \in chainRouters /\ IsKey(k)
  /\ filters \subseteq handlers
  /\ listening = "no" => filters = {} /\ fromSpy = {}
  /\ filters # {} => \A d \in fromSpy : \E k \in filters : k.emitter = emitterOf[d]

\* What is written is encoded to a key of its emitter.
LEMMA EncodedIsKey ==
  ASSUME NEW w \in Written
  PROVE  /\ IsKey(encodeEmitterAddress(w))
         /\ encodeEmitterAddress(w).emitter = w.emitter
BY ApplicationAssumption DEF encodeEmitterAddress, IsKey, Hex

LEMMA RoutesInitially == Init => RoutesInv
BY DEF Init, RoutesInv

LEMMA RoutesStep == RoutesInv /\ [Next]_vars => RoutesInv'
<1> SUFFICES ASSUME RoutesInv, [Next]_vars PROVE RoutesInv'
  OBVIOUS
<1>1. ASSUME NEW s \in BOOLEAN, NEW e \in BOOLEAN, NEW u \in BOOLEAN, SetUp(s, e, u)
      PROVE  RoutesInv'
  BY <1>1 DEF SetUp, RoutesInv, link, runs
<1>2. CASE Use
  BY <1>2 DEF Use, RoutesInv, link, runs
<1>3. ASSUME NEW ch \in Chain, chain(ch) PROVE RoutesInv'
  BY <1>3 DEF chain, RoutesInv, link, runs
<1>4. ASSUME NEW w \in Written, address(w) PROVE RoutesInv'
  BY <1>4, EncodedIsKey DEF address, RoutesInv, link, runs
<1>5. CASE Listen
  BY <1>5 DEF Listen, RoutesInv, spyFilters, runs
<1>6. CASE SpyLoop
  BY <1>6 DEF SpyLoop, Connected, Subscribed, ConnectionFails, SpyError, StreamEnds,
              Goto, Listening, RoutesInv, setup, runs
<1>7. CASE SpyServer
  BY <1>7 DEF SpyServer, RoutesInv, setup, link, runs
<1>8. ASSUME NEW d \in Delivery, SpySends(d) PROVE RoutesInv'
  BY <1>8 DEF SpySends, Received, RoutesInv, setup, link
<1>9. ASSUME NEW d \in Delivery, ApplicationCalls(d) PROVE RoutesInv'
  BY <1>9 DEF ApplicationCalls, Received, RoutesInv, setup, link
<1>10. ASSUME NEW d \in Delivery,
              \/ Skip(d) \/ AddVaaToQueue(d) \/ PushVaaThroughPipeline(d)
              \/ \E c \in DOMAIN calls[d] : CallStep(d, c)
              \/ Complete(d) \/ Fail(d) \/ ErrorPipelineEnds(d)
       PROVE  RoutesInv'
  BY <1>10 DEF Skip, AddVaaToQueue, PushVaaThroughPipeline, CallStep, Complete, Fail,
               ErrorPipelineEnds, RoutesInv, setup, link, runs
<1>11. CASE UNCHANGED vars
  BY <1>11 DEF RoutesInv, vars, setup, link, runs
<1> QED
  BY <1>1, <1>2, <1>3, <1>4, <1>5, <1>6, <1>7, <1>8, <1>9, <1>10, <1>11
  DEF Next, DeliveryStep

\* What the spy sends to an application that subscribed with filters has a router for
\* its chain and handlers for its emitter from then on, whatever was added meanwhile,
\* but for an emitter of Sui whose address was written with capitals.
THEOREM SpyDeliveriesAreRouted == Spec => []SubscribedIsRouted
<1>1. RoutesInv => SubscribedIsRouted
  <2> SUFFICES ASSUME RoutesInv, filters # {}, NEW d \in fromSpy
               PROVE  /\ HasRouter(d)
                      /\ HasHandler(d) \/ (/\ chainOf[emitterOf[d]] \in KeepsCase
                                          /\ Hex(emitterOf[d], "mixed") \in filters)
    BY DEF SubscribedIsRouted
  <2>1. PICK k \in filters : k.emitter = emitterOf[d]
    BY DEF RoutesInv
  <2>2. k \in handlers /\ chainOf[emitterOf[d]] \in chainRouters /\ IsKey(k)
    BY <2>1 DEF RoutesInv
  <2> QED
    BY <2>1, <2>2 DEF HasRouter, HasHandler, IsKey
<1> QED
  BY <1>1, RoutesInitially, RoutesStep, PTL DEF Spec

-----------------------------------------------------------------------------
(* The calls of one delivery: a sequence s of them.                        *)

CallState == {"running", "waiting", "returning", "rejecting"} \cup Ended
CallRecord == [at : Nat, by : Nat, awaited : BOOLEAN, state : CallState]

\* Call c has not ended.
Live(s, c) == c \in DOMAIN s /\ s[c].state \notin Ended

\* Calls are records, each made by an earlier one.
Made(s) == s \in Seq(CallRecord) /\ \A c \in DOMAIN s : s[c].by < c

\* The live calls are a chain: the call that made a live one is live, the others
\* before it wait and were made before that call, and the first one is live.
Chained(s) ==
  \A c \in DOMAIN s : Live(s, c) =>
    /\ c # 1 => Live(s, 1) /\ Live(s, s[c].by)
    /\ \A b \in 1..(c - 1) : Live(s, b) => b <= s[c].by /\ s[b].state = "waiting"

Awaited(s) == \A c \in DOMAIN s : s[c].awaited

Quiet(s) == \A c \in DOMAIN s : s[c].state \in Ended

LEMMA InAnotherState ==
  ASSUME NEW x \in CallRecord, NEW st \in CallState
  PROVE  /\ In(x, st) \in CallRecord /\ In(x, st).state = st
         /\ In(x, st).by = x.by /\ In(x, st).awaited = x.awaited
BY DEF In, CallRecord

\* A delivery that begins: one call, made by none.
LEMMA FirstCall ==
  ASSUME NEW x \in CallRecord, x.by = 0
  PROVE  Made(<<x>>) /\ Chained(<<x>>)
<1> DEFINE s == <<x>>
<1>1. s \in Seq(CallRecord)
  OBVIOUS
<1>2. DOMAIN s = 1..1 /\ s[1] = x
  OBVIOUS
<1> HIDE DEF s
<1>3. \A c \in DOMAIN s : c = 1 /\ 1..(c - 1) = {}
  BY <1>2
<1>4. Made(s)
  BY <1>1, <1>2, <1>3 DEF Made
<1>5. Chained(s)
  BY <1>3 DEF Chained
<1> QED
  BY <1>4, <1>5 DEF s

\* A call calls the one below: the new call is the last of the chain.
LEMMA Calling ==
  ASSUME NEW s, Made(s), Awaited(s) => Chained(s), NEW c \in DOMAIN s,
         s[c].state = "running", NEW await \in BOOLEAN, NEW t,
         t = Append([s EXCEPT ![c] = In(@, IF await THEN "waiting" ELSE "running")],
                    Call(s[c].at + 1, c, await))
  PROVE  Made(t) /\ (Awaited(t) => Awaited(s) /\ Chained(t))
<1> DEFINE st == IF await THEN "waiting" ELSE "running"
           r == [s EXCEPT ![c] = In(@, st)]
           new == Call(s[c].at + 1, c, await)
<1>1. /\ s \in Seq(CallRecord) /\ DOMAIN s = 1..Len(s) /\ Len(s) \in Nat
      /\ \A i \in 1..Len(s) : s[i] \in CallRecord /\ s[i].by < i
      /\ c \in 1..Len(s)
  BY DEF Made
<1>2. new \in CallRecord /\ new.by = c /\ new.awaited = await /\ new.state = "running"
  BY <1>1 DEF Call, CallRecord, CallState
<1>3. /\ r \in Seq(CallRecord) /\ Len(r) = Len(s)
      /\ \A i \in 1..Len(s) : /\ r[i].by = s[i].by /\ r[i].awaited = s[i].awaited
                              /\ i # c => r[i] = s[i]
      /\ r[c].state = IF await THEN "waiting" ELSE "running"
  <2>1. st \in CallState /\ s[c] \in CallRecord
    BY <1>1 DEF CallState
  <2>2. /\ In(s[c], st) \in CallRecord /\ In(s[c], st).state = st
        /\ In(s[c], st).by = s[c].by /\ In(s[c], st).awaited = s[c].awaited
    BY <2>1, InAnotherState
  <2>3. r = [i \in 1..Len(s) |-> IF i = c THEN In(s[c], st) ELSE s[i]]
    BY <1>1
  <2>4. r \in Seq(CallRecord) /\ Len(r) = Len(s)
    BY <1>1, <2>2, <2>3
  <2> QED
    BY <1>1, <2>2, <2>3, <2>4
<1>4. /\ t \in Seq(CallRecord) /\ Len(t) = Len(s) + 1 /\ DOMAIN t = 1..(Len(s) + 1)
      /\ \A i \in 1..Len(s) : t[i] = r[i]
      /\ t[Len(s) + 1] = new
  BY <1>1, <1>2, <1>3
<1>5. Made(t)
  BY <1>1, <1>2, <1>3, <1>4 DEF Made
<1>6. ASSUME Awaited(t) PROVE Awaited(s) /\ Chained(t)
  <2>1. Awaited(s) /\ await
    BY <1>1, <1>2, <1>3, <1>4, <1>6 DEF Awaited
  <2>2. Chained(s)
    BY <2>1
  <2>3. \A i \in 1..Len(s) : Live(t, i) <=> Live(s, i)
    BY <1>1, <1>3, <1>4 DEF Live, Ended
  <2>4. t[c].state = "waiting" /\ \A i \in 1..Len(s) : i # c => t[i].state = s[i].state
    BY <1>1, <1>3, <1>4, <2>1
  <2>5. Live(s, c)
    BY <1>1 DEF Live, Ended
  <2>6. \A b \in 1..Len(s) : Live(s, b) => b <= c /\ (b # c => s[b].state = "waiting")
    BY <1>1, <2>2, <2>5 DEF Chained
  <2>7. ASSUME NEW i \in 1..(Len(s) + 1), Live(t, i)
        PROVE  /\ i # 1 => Live(t, 1) /\ Live(t, t[i].by)
               /\ \A b \in 1..(i - 1) : Live(t, b) => b <= t[i].by /\ t[b].state = "waiting"
    <3>1. CASE i = Len(s) + 1
      <4>1. Live(s, 1)
        BY <1>1, <2>2, <2>5 DEF Chained
      <4>a. t[i].by = c
        BY <1>2, <1>4, <3>1
      <4>b. 1 \in 1..Len(s) /\ c \in 1..Len(s)
        BY <1>1
      <4>2. t[i].by = c /\ Live(t, c) /\ Live(t, 1)
        BY <2>3, <2>5, <4>1, <4>a, <4>b
      <4>3. ASSUME NEW b \in 1..(i - 1), Live(t, b)
            PROVE  b <= c /\ t[b].state = "waiting"
        <5>1. b \in 1..Len(s) /\ Live(s, b)
          BY <1>1, <2>3, <3>1, <4>3
        <5> QED
          BY <2>4, <2>6, <5>1
      <4> QED
        BY <4>2, <4>3
    <3>2. CASE i \in 1..Len(s)
      <4>1. Live(s, i) /\ t[i].by = s[i].by
        BY <1>3, <1>4, <2>3, <2>7, <3>2
      <4>2. /\ i # 1 => Live(s, 1) /\ Live(s, s[i].by)
            /\ \A b \in 1..(i - 1) : Live(s, b) => b <= s[i].by /\ s[b].state = "waiting"
        BY <1>1, <2>2, <3>2, <4>1 DEF Chained
      <4>3. i # 1 => s[i].by \in 1..Len(s) /\ 1 \in 1..Len(s)
        BY <1>1, <4>2 DEF Live
      <4>4. i # 1 => Live(t, 1) /\ Live(t, t[i].by)
        BY <2>3, <4>1, <4>2, <4>3
      <4>5. ASSUME NEW b \in 1..(i - 1), Live(t, b)
            PROVE  b <= t[i].by /\ t[b].state = "waiting"
        <5>1. b \in 1..Len(s) /\ Live(s, b)
          BY <1>1, <2>3, <3>2, <4>5
        <5> QED
          BY <2>4, <4>1, <4>2, <5>1
      <4> QED
        BY <4>4, <4>5
    <3>3. i = Len(s) + 1 \/ i \in 1..Len(s)
      BY <1>1
    <3> QED
      BY <3>1, <3>2, <3>3
  <2> QED
    BY <1>4, <2>1, <2>7 DEF Chained
<1> QED
  BY <1>5, <1>6
\* A call ends, and the call that awaits it goes on: it is the last of the chain now.
LEMMA Ending ==
  ASSUME NEW s, Made(s), Awaited(s) => Chained(s), NEW c \in DOMAIN s,
         s[c].state \in {"running", "returning", "rejecting"},
         NEW how \in {"returned", "threw"},
         NEW goesOn \in {"running", "returning", "rejecting"}, NEW t,
         t = [i \in DOMAIN s |-> IF i = c THEN In(s[i], how)
                                ELSE IF s[c].awaited /\ i = s[c].by
                                THEN In(s[i], goesOn) ELSE s[i]]
  PROVE  Made(t) /\ (Awaited(t) => Awaited(s) /\ Chained(t))
<1>1. /\ s \in Seq(CallRecord) /\ DOMAIN s = 1..Len(s) /\ Len(s) \in Nat
      /\ \A i \in 1..Len(s) : s[i] \in CallRecord /\ s[i].by \in Nat /\ s[i].by < i
      /\ c \in 1..Len(s)
  <2>1. /\ s \in Seq(CallRecord) /\ DOMAIN s = 1..Len(s) /\ Len(s) \in Nat
        /\ \A i \in 1..Len(s) : s[i] \in CallRecord /\ s[i].by < i
        /\ c \in 1..Len(s)
    BY DEF Made
  <2>2. \A x \in CallRecord : x.by \in Nat
    BY DEF CallRecord
  <2> QED
    BY <2>1, <2>2
<1>2. t = [i \in 1..Len(s) |-> IF i = c THEN In(s[i], how)
                                ELSE IF s[c].awaited /\ i = s[c].by
                                THEN In(s[i], goesOn) ELSE s[i]]
  BY <1>1
<1>3. c # s[c].by
  BY <1>1
<1>4. \A i \in 1..Len(s) : \A st \in {how, goesOn} :
        /\ In(s[i], st) \in CallRecord /\ In(s[i], st).state = st
        /\ In(s[i], st).by = s[i].by /\ In(s[i], st).awaited = s[i].awaited
  BY <1>1, InAnotherState DEF CallState, Ended
<1>5. t \in Seq(CallRecord) /\ DOMAIN t = 1..Len(s)
  <2>1. t \in [1..Len(s) -> CallRecord]
    BY <1>1, <1>2, <1>3, <1>4
  <2> QED
    BY <1>1, <2>1
<1>6. /\ \A i \in 1..Len(s) :
           /\ t[i].by = s[i].by /\ t[i].awaited = s[i].awaited
           /\ i # c /\ ~(s[c].awaited /\ i = s[c].by) => t[i].state = s[i].state
           /\ i # c /\ s[c].awaited /\ i = s[c].by => t[i].state = goesOn
      /\ t[c].state = how
  BY <1>1, <1>2, <1>3, <1>4
<1>7. Made(t)
  BY <1>1, <1>5, <1>6 DEF Made
<1>8. ASSUME Awaited(t) PROVE Awaited(s) /\ Chained(t)
  <2>1. Awaited(s)
    BY <1>1, <1>5, <1>6, <1>8 DEF Awaited
  <2>2. Chained(s) /\ Live(s, c) /\ s[c].awaited
    BY <1>1, <2>1 DEF Live, Ended, Awaited
  <2>3. c # 1 => Live(s, 1) /\ Live(s, s[c].by)
    BY <2>2 DEF Chained
  <2>4. ASSUME NEW i \in 1..Len(s)
        PROVE  Live(t, i) <=> (Live(s, i) /\ i # c)
    <3>1. CASE i = c
      BY <1>6, <3>1 DEF Live, Ended
    <3>2. CASE i # c /\ i = s[c].by
      <4>1. Live(s, i)
        BY <1>1, <2>3, <3>2
      <4> QED
        BY <1>5, <1>6, <2>2, <3>2, <4>1 DEF Live, Ended
    <3>3. CASE i # c /\ i # s[c].by
      BY <1>1, <1>5, <1>6, <3>3 DEF Live
    <3> QED
      BY <3>1, <3>2, <3>3
  <2>5. ASSUME NEW i \in 1..Len(s), Live(t, i) PROVE i < c /\ i <= s[c].by
    <3>1. Live(s, i) /\ i # c
      BY <2>4, <2>5
    <3>2. ~(c < i)
      <4>1. SUFFICES ASSUME c < i PROVE FALSE
        OBVIOUS
      <4>2. c \in 1..(i - 1)
        BY <1>1, <4>1
      <4>3. s[c].state = "waiting"
        BY <1>1, <2>2, <3>1, <4>2 DEF Chained
      <4> QED
        BY <4>3
    <3>3. i \in 1..(c - 1)
      BY <1>1, <3>1, <3>2
    <3> QED
      BY <1>1, <2>2, <3>1, <3>3 DEF Chained
  <2>6. ASSUME NEW i \in 1..Len(s), Live(t, i)
        PROVE  /\ i # 1 => Live(t, 1) /\ Live(t, t[i].by)
               /\ \A b \in 1..(i - 1) : Live(t, b) => b <= t[i].by /\ t[b].state = "waiting"
    <3>1. Live(s, i) /\ i < c /\ i <= s[c].by /\ t[i].by = s[i].by
      BY <1>6, <2>4, <2>5, <2>6
    <3>2. /\ i # 1 => Live(s, 1) /\ Live(s, s[i].by)
          /\ \A b \in 1..(i - 1) : Live(s, b) => b <= s[i].by /\ s[b].state = "waiting"
      BY <1>1, <2>2, <3>1 DEF Chained
    <3>3. i # 1 => Live(t, 1) /\ Live(t, t[i].by)
      <4>1. SUFFICES ASSUME i # 1 PROVE Live(t, 1) /\ Live(t, s[i].by)
        BY <3>1
      <4>2. s[i].by \in 1..Len(s) /\ s[i].by # c /\ 1 \in 1..Len(s) /\ 1 # c
        BY <1>1, <3>1, <3>2, <4>1 DEF Live
      <4> QED
        BY <2>4, <3>2, <4>1, <4>2
    <3>4. ASSUME NEW b \in 1..(i - 1), Live(t, b)
          PROVE  b <= t[i].by /\ t[b].state = "waiting"
      <4>1. b \in 1..Len(s) /\ b # c /\ b # s[c].by
        BY <1>1, <3>1
      <4>2. Live(s, b) /\ t[b].state = s[b].state
        BY <1>6, <2>4, <3>4, <4>1
      <4> QED
        BY <3>1, <3>2, <4>2
    <3> QED
      BY <3>3, <3>4
  <2> QED
    BY <1>5, <2>1, <2>6 DEF Chained
<1> QED
  BY <1>7, <1>8

\* A call catches: no call ends by it, and none starts.
LEMMA Catching ==
  ASSUME NEW s, Made(s), Awaited(s) => Chained(s), NEW c \in DOMAIN s,
         s[c].state = "rejecting", NEW t,
         t = [i \in DOMAIN s |->
                IF i = c THEN In(s[i], "running")
                ELSE IF s[i].by = c /\ s[i].awaited /\ s[i].state = "threw"
                THEN In(s[i], "caught") ELSE s[i]]
  PROVE  Made(t) /\ (Awaited(t) => Awaited(s) /\ Chained(t))
<1>1. /\ s \in Seq(CallRecord) /\ DOMAIN s = 1..Len(s) /\ Len(s) \in Nat
      /\ \A i \in 1..Len(s) : s[i] \in CallRecord /\ s[i].by \in Nat /\ s[i].by < i
      /\ c \in 1..Len(s)
  <2>1. /\ s \in Seq(CallRecord) /\ DOMAIN s = 1..Len(s) /\ Len(s) \in Nat
        /\ \A i \in 1..Len(s) : s[i] \in CallRecord /\ s[i].by < i
        /\ c \in 1..Len(s)
    BY DEF Made
  <2>2. \A x \in CallRecord : x.by \in Nat
    BY DEF CallRecord
  <2> QED
    BY <2>1, <2>2
<1>2. \A i \in 1..Len(s) : \A st \in {"running", "caught"} :
        /\ In(s[i], st) \in CallRecord /\ In(s[i], st).state = st
        /\ In(s[i], st).by = s[i].by /\ In(s[i], st).awaited = s[i].awaited
  BY <1>1, InAnotherState DEF CallState, Ended
<1>3. t = [i \in 1..Len(s) |->
             IF i = c THEN In(s[i], "running")
             ELSE IF s[i].by = c /\ s[i].awaited /\ s[i].state = "threw"
             THEN In(s[i], "caught") ELSE s[i]]
  BY <1>1
<1>4. t \in Seq(CallRecord) /\ DOMAIN t = 1..Len(s)
  BY <1>1, <1>2, <1>3
<1>5. \A i \in 1..Len(s) :
        /\ t[i].by = s[i].by /\ t[i].awaited = s[i].awaited
        /\ t[i].state \in Ended <=> s[i].state \in Ended
        /\ s[i].state = "waiting" => t[i].state = "waiting"
  BY <1>1, <1>2, <1>3 DEF Ended
<1>6. Made(t)
  BY <1>1, <1>4, <1>5 DEF Made
<1>7. ASSUME Awaited(t) PROVE Awaited(s) /\ Chained(t)
  <2>1. Awaited(s)
    BY <1>1, <1>4, <1>5, <1>7 DEF Awaited
  <2>2. \A i : Live(t, i) <=> Live(s, i)
    BY <1>1, <1>4, <1>5 DEF Live
  <2>3. ASSUME NEW i \in 1..Len(s), Live(t, i)
        PROVE  /\ i # 1 => Live(t, 1) /\ Live(t, t[i].by)
               /\ \A b \in 1..(i - 1) : Live(t, b) => b <= t[i].by /\ t[b].state = "waiting"
    <3>1. /\ i # 1 => Live(s, 1) /\ Live(s, s[i].by)
          /\ \A b \in 1..(i - 1) : Live(s, b) => b <= s[i].by /\ s[b].state = "waiting"
      BY <1>1, <2>1, <2>2, <2>3 DEF Chained
    <3> QED
      BY <1>1, <1>5, <2>2, <2>3, <3>1
  <2> QED
    BY <1>4, <2>1, <2>3 DEF Chained
<1> QED
  BY <1>6, <1>7
-----------------------------------------------------------------------------
(* Nothing runs after the outcome.                                         *)

Outcome == completed \cup failed

\* The calls of every delivery are well made; when all are awaited the live ones are a
\* chain, and there is none after the outcome, which no step of processVaa follows.
CallsInv ==
  /\ calls = [d \in Delivery |-> calls[d]]
  /\ delivery = [d \in Delivery |-> delivery[d]]
  /\ \A d \in Delivery : Made(calls[d]) /\ (Awaited(calls[d]) => Chained(calls[d]))
  /\ Outcome \subseteq Delivery
  /\ \A d \in Outcome : /\ delivery[d] \in {"done", "rejected"}
                        /\ Awaited(calls[d]) => Quiet(calls[d])

LEMMA CallsInitially == Init => CallsInv
<1>1. Made(<<>>) /\ Chained(<<>>)
  BY DEF Made, Chained
<1> QED
  BY <1>1 DEF Init, CallsInv, Outcome

\* What a step of a call does to the calls of its delivery.
LEMMA CallStepKeeps ==
  ASSUME CallsInv, NEW d \in Delivery, NEW c \in DOMAIN calls[d], CallStep(d, c)
  PROVE  /\ calls' = [calls EXCEPT ![d] = calls'[d]] /\ calls[d][c].state \notin Ended
         /\ Made(calls'[d])
         /\ Awaited(calls'[d]) => Awaited(calls[d]) /\ Chained(calls'[d])
<1>1. Made(calls[d]) /\ (Awaited(calls[d]) => Chained(calls[d]))
      /\ calls = [e \in Delivery |-> calls[e]]
  BY DEF CallsInv
<1>2. ASSUME NEW await \in BOOLEAN, calls[d][c].state = "running",
             calls' = Called(d, c, await)
      PROVE  /\ calls' = [calls EXCEPT ![d] = calls'[d]] /\ calls[d][c].state \notin Ended
             /\ Made(calls'[d])
             /\ Awaited(calls'[d]) => Awaited(calls[d]) /\ Chained(calls'[d])
  <2>1. /\ calls' = [calls EXCEPT ![d] = calls'[d]]
        /\ calls'[d] = Append([calls[d] EXCEPT ![c] = In(@, IF await THEN "waiting"
                                                           ELSE "running")],
                              Call(calls[d][c].at + 1, c, await))
    BY <1>1, <1>2 DEF Called
  <2>2. Made(calls'[d]) /\ (Awaited(calls'[d]) => Awaited(calls[d]) /\ Chained(calls'[d]))
    BY <1>1, <1>2, <2>1, Calling
  <2> QED
    BY <1>2, <2>1, <2>2 DEF Ended
<1>3. ASSUME NEW how \in {"returned", "threw"}, End(d, c, how),
             calls[d][c].state \in {"running", "returning", "rejecting"}
      PROVE  /\ calls' = [calls EXCEPT ![d] = calls'[d]] /\ calls[d][c].state \notin Ended
             /\ Made(calls'[d])
             /\ Awaited(calls'[d]) => Awaited(calls[d]) /\ Chained(calls'[d])
  <2> DEFINE goesOn == Resumed(d, calls[d][c].by, how)
  <2>1. goesOn \in {"running", "returning", "rejecting"}
    BY DEF Resumed
  <2>2. /\ calls' = [calls EXCEPT ![d] = calls'[d]]
        /\ calls'[d] = [i \in DOMAIN calls[d] |->
                          IF i = c THEN In(calls[d][i], how)
                          ELSE IF calls[d][c].awaited /\ i = calls[d][c].by
                          THEN In(calls[d][i], goesOn) ELSE calls[d][i]]
    BY <1>1, <1>3 DEF End, EndedCalls
  <2>3. Made(calls'[d]) /\ (Awaited(calls'[d]) => Awaited(calls[d]) /\ Chained(calls'[d]))
    <3> HIDE DEF goesOn
    <3> QED
      BY <1>1, <1>3, <2>1, <2>2, Ending
  <2> QED
    BY <1>3, <2>2, <2>3 DEF Ended
<1>4. CASE Catch(d, c)
  <2>1. /\ calls' = [calls EXCEPT ![d] = calls'[d]] /\ calls[d][c].state = "rejecting"
        /\ calls'[d] = [i \in DOMAIN calls[d] |->
             IF i = c THEN In(calls[d][i], "running")
             ELSE IF /\ calls[d][i].by = c /\ calls[d][i].awaited
                     /\ calls[d][i].state = "threw"
             THEN In(calls[d][i], "caught") ELSE calls[d][i]]
    BY <1>1, <1>4 DEF Catch, StateOf
  <2>2. Made(calls'[d]) /\ (Awaited(calls'[d]) => Awaited(calls[d]) /\ Chained(calls'[d]))
    BY <1>1, <2>1, Catching
  <2> QED
    BY <2>1, <2>2 DEF Ended
<1>5. ASSUME NEW await \in BOOLEAN, CallNext(d, c, await)
      PROVE  calls[d][c].state = "running" /\ calls' = Called(d, c, await)
  BY <1>5 DEF CallNext, StateOf
<1>6. CASE Return(d, c)
  BY <1>3, <1>6 DEF Return, StateOf
<1>7. CASE Throw(d, c)
  BY <1>3, <1>7 DEF Throw, StateOf
<1>8. CASE Route(d, c, HasRouter(d), HasHandler(d))
  BY <1>2, <1>3, <1>8 DEF Route, StateOf
<1> QED
  BY <1>2, <1>4, <1>5, <1>6, <1>7, <1>8 DEF CallStep

\* The first call ended and the live ones are a chain: there is none.
LEMMA EndOfFirst ==
  ASSUME NEW s, Made(s), Chained(s), ~Live(s, 1)
  PROVE  Quiet(s)
<1>1. SUFFICES ASSUME NEW c \in DOMAIN s, s[c].state \notin Ended PROVE FALSE
  BY DEF Quiet
<1>2. Live(s, c)
  BY <1>1 DEF Live
<1> QED
  BY <1>2 DEF Chained

LEMMA CallsStep == CallsInv /\ [Next]_vars => CallsInv'
<1> SUFFICES ASSUME CallsInv, [Next]_vars PROVE CallsInv'
  OBVIOUS
<1>1. CASE UNCHANGED <<calls, delivery, completed, failed>>
  BY <1>1 DEF CallsInv, Outcome
<1>2. ASSUME NEW d \in Delivery, d \notin Outcome,
             delivery' = [delivery EXCEPT ![d] = delivery'[d]],
             UNCHANGED <<calls, completed, failed>>
      PROVE  CallsInv'
  BY <1>2 DEF CallsInv, Outcome
<1>3. ASSUME NEW d \in Delivery, PushVaaThroughPipeline(d) PROVE CallsInv'
  <2>1. /\ d \notin Outcome /\ Outcome' = Outcome
        /\ calls' = [calls EXCEPT ![d] = calls'[d]] /\ calls'[d] \in {<<>>, <<Call(1, 0, TRUE)>>}
        /\ delivery' = [delivery EXCEPT ![d] = "running"]
    BY <1>3 DEF PushVaaThroughPipeline, Begin, CallsInv, Outcome, events
  <2>2. Made(<<>>) /\ Chained(<<>>)
    BY DEF Made, Chained
  <2>3. Call(1, 0, TRUE) \in CallRecord /\ Call(1, 0, TRUE).by = 0
    BY DEF Call, CallRecord, CallState
  <2>4. Made(<<Call(1, 0, TRUE)>>) /\ Chained(<<Call(1, 0, TRUE)>>)
    BY <2>3, FirstCall
  <2> QED
    BY <2>1, <2>2, <2>4 DEF CallsInv
<1>4. ASSUME NEW d \in Delivery, NEW c \in DOMAIN calls[d], CallStep(d, c) PROVE CallsInv'
  <2>1. /\ calls' = [calls EXCEPT ![d] = calls'[d]] /\ calls[d][c].state \notin Ended
        /\ Made(calls'[d])
        /\ Awaited(calls'[d]) => Awaited(calls[d]) /\ Chained(calls'[d])
    BY <1>4, CallStepKeeps
  <2>2. UNCHANGED <<delivery, Outcome>>
    BY <1>4 DEF CallStep, events, Outcome
  <2>3. d \in Outcome => ~Awaited(calls'[d])
    BY <2>1 DEF CallsInv, Quiet
  <2> QED
    BY <2>1, <2>2, <2>3 DEF CallsInv
<1>5. ASSUME NEW d \in Delivery, Complete(d) \/ Fail(d) PROVE CallsInv'
  <2>1. /\ Outcome' = Outcome \cup {d} /\ UNCHANGED calls
        /\ delivery' = [delivery EXCEPT ![d] = delivery'[d]]
        /\ delivery'[d] \in {"done", "rejected"}
        /\ Fulfilled(d) \/ Rejected(d)
    BY <1>5 DEF Complete, Fail, CallsInv, Outcome
  <2>2. ~Live(calls[d], 1)
    BY <2>1 DEF Fulfilled, Rejected, StateOf, Live, Ended
  <2>3. Awaited(calls[d]) => Quiet(calls[d])
    BY <2>2, EndOfFirst DEF CallsInv
  <2> QED
    BY <2>1, <2>3 DEF CallsInv
<1>6. ASSUME NEW d \in Delivery,
             SpySends(d) \/ ApplicationCalls(d) \/ Skip(d) \/ AddVaaToQueue(d)
      PROVE  CallsInv'
  <2>1. /\ d \notin Outcome /\ delivery' = [delivery EXCEPT ![d] = delivery'[d]]
        /\ UNCHANGED <<calls, completed, failed>>
    BY <1>6 DEF SpySends, ApplicationCalls, Received, Skip, AddVaaToQueue, CallsInv,
                Outcome, events
  <2> QED
    BY <1>2, <2>1
<1>7. ASSUME NEW d \in Delivery, ErrorPipelineEnds(d) PROVE CallsInv'
  BY <1>1, <1>7 DEF ErrorPipelineEnds, runs
<1>8. CASE Listen \/ SpyLoop \/ SpyServer
  BY <1>1, <1>8 DEF Listen, SpyLoop, Connected, Subscribed, ConnectionFails, SpyError,
                    StreamEnds, Goto, SpyServer, runs, events
<1>9. CASE \/ \E s, e, u \in BOOLEAN : SetUp(s, e, u)
           \/ Use \/ (\E ch \in Chain : chain(ch)) \/ (\E w \in Written : address(w))
  BY <1>1, <1>9 DEF SetUp, Use, chain, address, runs, events
<1>10. CASE UNCHANGED vars
  BY <1>1, <1>10 DEF vars, runs, events
<1> QED
  BY <1>3, <1>4, <1>5, <1>6, <1>7, <1>8, <1>9, <1>10 DEF Next, DeliveryStep

\* When every middleware awaits the calls of next it makes, every call of a delivery
\* ended before Completed or Failed is emitted, however often next was called.
THEOREM OutcomeComesLast == Spec => []NothingRunsAfterOutcome
<1>1. CallsInv => NothingRunsAfterOutcome
  BY DEF CallsInv, NothingRunsAfterOutcome, Outcome, AllAwaited, Awaited, Quiet, StateOf
<1> QED
  BY <1>1, CallsInitially, CallsStep, PTL DEF Spec

-----------------------------------------------------------------------------
(* Errors are told or caught.                                              *)

\* A call that awaits another waits for it, and for one at a time.
Linked(s) ==
  \A c \in DOMAIN s :
    /\ s[c].by = 0 <=> c = 1
    /\ c = 1 => s[c].awaited
    /\ Live(s, c) /\ s[c].awaited /\ c # 1 =>
         /\ s[s[c].by].state = "waiting"
         /\ \A b \in DOMAIN s : Live(s, b) /\ s[b].awaited /\ s[b].by = s[c].by => b = c

\* Every error reached the call that awaits it, and is there, on its way up or caught
\* above.
Told(s) ==
  \A c \in DOMAIN s : s[c].state = "threw" =>
    s[c].awaited /\ (c # 1 => s[s[c].by].state \in {"rejecting", "threw", "caught"})

\* The end of the first call is final.
FirstKept(s, t) ==
  /\ (\A c \in DOMAIN s : c = 1 => s[c].state = "returned") /\ s # <<>>
       => \A c \in DOMAIN t : c = 1 => t[c].state = "returned"
  /\ (\E c \in DOMAIN s : c = 1 /\ s[c].state = "threw")
       => \E c \in DOMAIN t : c = 1 /\ t[c].state = "threw"

LEMMA MadeFacts ==
  ASSUME NEW s, Made(s)
  PROVE  /\ s \in Seq(CallRecord) /\ DOMAIN s = 1..Len(s) /\ Len(s) \in Nat
         /\ \A i \in 1..Len(s) : s[i] \in CallRecord /\ s[i].by \in Nat /\ s[i].by < i
<1>1. s \in Seq(CallRecord) /\ DOMAIN s = 1..Len(s) /\ Len(s) \in Nat
      /\ \A i \in 1..Len(s) : s[i] \in CallRecord /\ s[i].by < i
  BY DEF Made
<1>2. \A x \in CallRecord : x.by \in Nat
  BY DEF CallRecord
<1> QED
  BY <1>1, <1>2

LEMMA CallingTells ==
  ASSUME NEW s, Made(s), Linked(s), Told(s), NEW c \in DOMAIN s,
         s[c].state = "running", NEW await \in BOOLEAN, NEW t,
         t = Append([s EXCEPT ![c] = In(@, IF await THEN "waiting" ELSE "running")],
                    Call(s[c].at + 1, c, await))
  PROVE  Linked(t) /\ Told(t) /\ FirstKept(s, t)
<1> DEFINE st == IF await THEN "waiting" ELSE "running"
           r == [s EXCEPT ![c] = In(@, st)]
           new == Call(s[c].at + 1, c, await)
<1>1. /\ s \in Seq(CallRecord) /\ DOMAIN s = 1..Len(s) /\ Len(s) \in Nat
      /\ \A i \in 1..Len(s) : s[i] \in CallRecord /\ s[i].by \in Nat /\ s[i].by < i
      /\ c \in 1..Len(s)
  BY MadeFacts
<1>2. new \in CallRecord /\ new.by = c /\ new.awaited = await /\ new.state = "running"
  BY <1>1 DEF Call, CallRecord, CallState
<1>3. /\ r \in Seq(CallRecord) /\ Len(r) = Len(s)
      /\ \A i \in 1..Len(s) : /\ r[i].by = s[i].by /\ r[i].awaited = s[i].awaited
                              /\ i # c => r[i] = s[i]
      /\ r[c].state = IF await THEN "waiting" ELSE "running"
  <2>1. st \in CallState /\ s[c] \in CallRecord
    BY <1>1 DEF CallState
  <2>2. /\ In(s[c], st) \in CallRecord /\ In(s[c], st).state = st
        /\ In(s[c], st).by = s[c].by /\ In(s[c], st).awaited = s[c].awaited
    BY <2>1, InAnotherState
  <2>3. r = [i \in 1..Len(s) |-> IF i = c THEN In(s[c], st) ELSE s[i]]
    BY <1>1
  <2>4. r \in Seq(CallRecord) /\ Len(r) = Len(s)
    BY <1>1, <2>2, <2>3
  <2> QED
    BY <1>1, <2>2, <2>3, <2>4
<1>4. /\ DOMAIN t = 1..(Len(s) + 1)
      /\ \A i \in 1..Len(s) : t[i] = r[i]
      /\ t[Len(s) + 1] = new
  BY <1>1, <1>2, <1>3
<1>5. /\ \A i \in 1..Len(s) : /\ t[i].by = s[i].by /\ t[i].awaited = s[i].awaited
                              /\ i # c => t[i].state = s[i].state
      /\ t[c].state = IF await THEN "waiting" ELSE "running"
  BY <1>1, <1>3, <1>4
<1>6. \A i \in 1..Len(s) : Live(t, i) <=> Live(s, i)
  BY <1>1, <1>4, <1>5 DEF Live, Ended
<1>7. ASSUME NEW i \in 1..Len(s), Live(s, i), s[i].awaited, i # 1  PROVE s[i].by # c
  BY <1>1, <1>7 DEF Linked
<1>8. Linked(t)
  <2>1. ASSUME NEW i \in 1..Len(s)
        PROVE  /\ t[i].by = 0 <=> i = 1
               /\ i = 1 => t[i].awaited
    BY <1>1, <1>5 DEF Linked
  <2>2. ASSUME NEW i \in 1..Len(s), Live(t, i), t[i].awaited, i # 1
        PROVE  /\ t[t[i].by].state = "waiting"
               /\ \A b \in 1..(Len(s) + 1) : Live(t, b) /\ t[b].awaited /\ t[b].by = t[i].by => b = i
    <3>1. /\ Live(s, i) /\ s[i].awaited /\ s[i].by # c /\ t[i].by = s[i].by
          /\ s[i].by \in 1..Len(s)
      BY <1>1, <1>5, <1>6, <1>7, <2>2 DEF Linked
    <3>2. t[t[i].by].state = "waiting"
      BY <1>1, <1>5, <2>2, <3>1 DEF Linked
    <3>3. ASSUME NEW b \in 1..Len(s), Live(t, b), t[b].awaited, t[b].by = t[i].by  PROVE b = i
      <4>1. Live(s, b) /\ s[b].awaited /\ s[b].by = s[i].by
        BY <1>5, <1>6, <3>1, <3>3
      <4> QED BY <1>1, <2>2, <3>1, <4>1 DEF Linked
    <3>4. t[Len(s) + 1].by # t[i].by
      BY <1>2, <1>4, <3>1
    <3>5. \A b \in 1..(Len(s) + 1) : b \in 1..Len(s) \/ b = Len(s) + 1
      BY <1>1
    <3> QED BY <3>2, <3>3, <3>4, <3>5
  <2>3. ASSUME NEW i, i = Len(s) + 1
        PROVE  /\ ~(t[i].by = 0) /\ i # 1
               /\ t[i].awaited => t[t[i].by].state = "waiting"
               /\ \A b \in 1..(Len(s) + 1) : Live(t, b) /\ t[b].awaited /\ t[b].by = t[i].by => b = i
    <3>1. t[i].by = c /\ t[i].awaited = await /\ c # 0 /\ i # 1
      BY <1>1, <1>2, <1>4, <2>3
    <3>2. t[i].awaited => t[t[i].by].state = "waiting"
      BY <1>5, <3>1
    <3>3. ASSUME NEW b \in 1..Len(s), Live(t, b), t[b].awaited, t[b].by = c  PROVE FALSE
      <4>1. Live(s, b) /\ s[b].awaited /\ s[b].by = c
        BY <1>5, <1>6, <3>3
      <4>2. b # 1
        BY <1>1, <3>1, <4>1 DEF Linked
      <4> QED BY <1>7, <4>1, <4>2
    <3>4. \A b \in 1..(Len(s) + 1) : b \in 1..Len(s) \/ b = Len(s) + 1
      BY <1>1
    <3> QED BY <2>3, <3>1, <3>2, <3>3, <3>4
  <2>4. \A b \in 1..(Len(s) + 1) : b \in 1..Len(s) \/ b = Len(s) + 1
    BY <1>1
  <2> SUFFICES ASSUME NEW i \in 1..(Len(s) + 1)
               PROVE  /\ t[i].by = 0 <=> i = 1
                      /\ i = 1 => t[i].awaited
                      /\ Live(t, i) /\ t[i].awaited /\ i # 1 =>
                           /\ t[t[i].by].state = "waiting"
                           /\ \A b \in 1..(Len(s) + 1) :
                                Live(t, b) /\ t[b].awaited /\ t[b].by = t[i].by => b = i
    BY <1>4 DEF Linked
  <2>5. CASE i \in 1..Len(s)
    BY <2>1, <2>2, <2>5
  <2>6. CASE i = Len(s) + 1
    BY <2>3, <2>6
  <2> QED BY <2>4, <2>5, <2>6
<1>9. Told(t)
  <2>1. ASSUME NEW i \in 1..Len(s), t[i].state = "threw"
        PROVE  t[i].awaited /\ (i # 1 => t[t[i].by].state \in {"rejecting", "threw", "caught"})
    <3>1. i # c
      BY <1>5, <2>1
    <3>2. s[i].state = "threw" /\ t[i].by = s[i].by /\ t[i].awaited = s[i].awaited
      BY <1>5, <2>1, <3>1
    <3>3. s[i].awaited /\ (i # 1 => s[s[i].by].state \in {"rejecting", "threw", "caught"})
      BY <1>1, <3>2 DEF Told
    <3>4. i # 1 => s[i].by \in 1..Len(s) /\ s[i].by # c
      BY <1>1, <3>3 DEF Linked
    <3> QED BY <1>5, <3>2, <3>3, <3>4
  <2>2. t[Len(s) + 1].state # "threw"
    BY <1>2, <1>4
  <2>3. \A b \in 1..(Len(s) + 1) : b \in 1..Len(s) \/ b = Len(s) + 1
    BY <1>1
  <2> QED BY <1>4, <2>1, <2>2, <2>3 DEF Told
<1>10. FirstKept(s, t)
  <2>1. 1 \in 1..Len(s)
    BY <1>1
  <2>2. s[1].state \in {"returned", "threw"} => t[1].state = s[1].state
    BY <1>1, <1>5, <2>1
  <2>3. 1 \in DOMAIN s /\ 1 \in DOMAIN t
    BY <1>1, <1>4, <2>1
  <2> QED BY <2>2, <2>3 DEF FirstKept
<1> QED BY <1>8, <1>9, <1>10

LEMMA EndingTells ==
  ASSUME NEW s, Made(s), Linked(s), Told(s), NEW c \in DOMAIN s,
         s[c].state \in {"running", "returning", "rejecting"},
         NEW how \in {"returned", "threw"},
         NEW goesOn \in {"running", "returning", "rejecting"},
         how = "threw" => goesOn = "rejecting",
         how = "returned" => s[c].state # "rejecting", NEW t,
         t = [i \in DOMAIN s |-> IF i = c THEN In(s[i], how)
                                ELSE IF s[c].awaited /\ i = s[c].by
                                THEN In(s[i], goesOn) ELSE s[i]]
  PROVE  /\ Linked(t) /\ FirstKept(s, t)
         /\ (how = "threw" => s[c].awaited) => Told(t)
<1>1. /\ DOMAIN s = 1..Len(s) /\ Len(s) \in Nat
      /\ \A i \in 1..Len(s) : s[i] \in CallRecord /\ s[i].by \in Nat /\ s[i].by < i
      /\ c \in 1..Len(s)
  BY MadeFacts
<1>2. t = [i \in 1..Len(s) |-> IF i = c THEN In(s[i], how)
                                ELSE IF s[c].awaited /\ i = s[c].by
                                THEN In(s[i], goesOn) ELSE s[i]]
  BY <1>1
<1>3. \A i \in 1..Len(s) : \A st \in {how, goesOn} :
        /\ In(s[i], st).state = st
        /\ In(s[i], st).by = s[i].by /\ In(s[i], st).awaited = s[i].awaited
  BY <1>1, InAnotherState DEF CallState, Ended
<1>4. /\ DOMAIN t = 1..Len(s)
      /\ \A i \in 1..Len(s) :
           /\ t[i].by = s[i].by /\ t[i].awaited = s[i].awaited
           /\ i # c /\ ~(s[c].awaited /\ i = s[c].by) => t[i].state = s[i].state
           /\ i # c /\ s[c].awaited /\ i = s[c].by => t[i].state = goesOn
      /\ t[c].state = how
  BY <1>1, <1>2, <1>3
<1>5. Live(s, c)
  BY <1>1 DEF Live, Ended
<1>6. c # 1 /\ s[c].awaited => s[c].by \in 1..Len(s) /\ s[s[c].by].state = "waiting"
  BY <1>1, <1>5 DEF Linked
<1>7. \A i \in 1..Len(s) : Live(t, i) => Live(s, i) /\ i # c
  <2> SUFFICES ASSUME NEW i \in 1..Len(s), Live(t, i)  PROVE Live(s, i) /\ i # c
    OBVIOUS
  <2>1. i # c
    BY <1>4 DEF Live, Ended
  <2>2. CASE s[c].awaited /\ i = s[c].by
    <3>1. c # 1
      BY <1>1, <2>2 DEF Linked
    <3> QED BY <1>1, <1>6, <2>1, <2>2, <3>1 DEF Live, Ended
  <2>3. CASE ~(s[c].awaited /\ i = s[c].by)
    BY <1>1, <1>4, <2>1, <2>3 DEF Live
  <2> QED BY <2>1, <2>2, <2>3
<1>8. Linked(t)
  <2>1. ASSUME NEW i \in 1..Len(s)
        PROVE  /\ t[i].by = 0 <=> i = 1
               /\ i = 1 => t[i].awaited
    BY <1>1, <1>4 DEF Linked
  <2>2. ASSUME NEW i \in 1..Len(s), Live(t, i), t[i].awaited, i # 1
        PROVE  /\ t[t[i].by].state = "waiting"
               /\ \A b \in 1..Len(s) : Live(t, b) /\ t[b].awaited /\ t[b].by = t[i].by => b = i
    <3>1. /\ Live(s, i) /\ i # c /\ s[i].awaited /\ t[i].by = s[i].by
          /\ s[i].by \in 1..Len(s) /\ s[s[i].by].state = "waiting"
          /\ \A b \in 1..Len(s) : Live(s, b) /\ s[b].awaited /\ s[b].by = s[i].by => b = i
      BY <1>1, <1>4, <1>7, <2>2 DEF Linked
    <3>2. s[i].by # c
      BY <3>1
    <3>3. ~(s[c].awaited /\ s[i].by = s[c].by)
      BY <1>1, <1>5, <3>1
    <3>4. t[t[i].by].state = "waiting"
      BY <1>4, <3>1, <3>2, <3>3
    <3> QED BY <1>4, <1>7, <3>1, <3>4
  <2> SUFFICES ASSUME NEW i \in 1..Len(s)
               PROVE  /\ t[i].by = 0 <=> i = 1
                      /\ i = 1 => t[i].awaited
                      /\ Live(t, i) /\ t[i].awaited /\ i # 1 =>
                           /\ t[t[i].by].state = "waiting"
                           /\ \A b \in 1..Len(s) :
                                Live(t, b) /\ t[b].awaited /\ t[b].by = t[i].by => b = i
    BY <1>4 DEF Linked
  <2> QED BY <2>1, <2>2
<1>9. ASSUME how = "threw" => s[c].awaited  PROVE Told(t)
  <2> SUFFICES ASSUME NEW i \in 1..Len(s), t[i].state = "threw"
               PROVE  /\ t[i].awaited
                      /\ i # 1 => t[t[i].by].state \in {"rejecting", "threw", "caught"}
    BY <1>4 DEF Told
  <2>1. CASE i = c
    <3>1. how = "threw" /\ goesOn = "rejecting" /\ s[c].awaited
      BY <1>4, <1>9, <2>1
    <3>2. c # 1 => t[s[c].by].state = goesOn
      BY <1>1, <1>4, <1>6, <3>1
    <3> QED BY <1>1, <1>4, <2>1, <3>1, <3>2
  <2>2. CASE i # c
    <3>1. s[i].state = "threw" /\ t[i].by = s[i].by /\ t[i].awaited = s[i].awaited
      BY <1>4, <2>2
    <3>2. s[i].awaited /\ (i # 1 => s[s[i].by].state \in {"rejecting", "threw", "caught"})
      BY <1>1, <3>1 DEF Told
    <3>3. i # 1 => s[i].by \in 1..Len(s) /\ ~(c # 1 /\ s[c].awaited /\ s[i].by = s[c].by)
      BY <1>1, <1>6, <3>2 DEF Linked
    <3>4. i # 1 /\ s[i].by = c => t[s[i].by].state = "threw"
      <4> SUFFICES ASSUME i # 1, s[i].by = c  PROVE t[c].state = "threw"
        OBVIOUS
      <4>1. s[c].state = "rejecting"
        BY <3>2
      <4> QED BY <1>4, <4>1
    <3>5. i # 1 /\ s[i].by # c => t[s[i].by].state = s[s[i].by].state
      <4> SUFFICES ASSUME i # 1, s[i].by # c  PROVE t[s[i].by].state = s[s[i].by].state
        OBVIOUS
      <4>1. ~(s[c].awaited /\ s[i].by = s[c].by)
        <5>1. c = 1 => s[c].by = 0
          BY <1>1 DEF Linked
        <5>2. s[i].by # 0
          BY <1>1 DEF Linked
        <5> QED BY <3>3, <5>1, <5>2
      <4> QED BY <1>4, <3>3, <4>1
    <3> QED BY <3>1, <3>2, <3>4, <3>5
  <2> QED BY <2>1, <2>2
<1>10. FirstKept(s, t)
  <2>1. 1 \in 1..Len(s)
    BY <1>1
  <2>2. s[1].state \in {"returned", "threw"} => t[1].state = s[1].state
    <3> SUFFICES ASSUME s[1].state \in {"returned", "threw"}  PROVE t[1].state = s[1].state
      OBVIOUS
    <3>1. c # 1
      OBVIOUS
    <3>2. ~(s[c].awaited /\ 1 = s[c].by)
      BY <1>6, <3>1
    <3> QED BY <1>4, <2>1, <3>1, <3>2
  <2>3. 1 \in DOMAIN s /\ 1 \in DOMAIN t
    BY <1>1, <1>4, <2>1
  <2> QED BY <2>2, <2>3 DEF FirstKept
<1> QED BY <1>8, <1>9, <1>10

LEMMA CatchingTells ==
  ASSUME NEW s, Made(s), Linked(s), Told(s), NEW c \in DOMAIN s,
         s[c].state = "rejecting", NEW t,
         t = [i \in DOMAIN s |->
                IF i = c THEN In(s[i], "running")
                ELSE IF s[i].by = c /\ s[i].awaited /\ s[i].state = "threw"
                THEN In(s[i], "caught") ELSE s[i]]
  PROVE  Linked(t) /\ Told(t) /\ FirstKept(s, t)
<1>1. /\ DOMAIN s = 1..Len(s) /\ Len(s) \in Nat
      /\ \A i \in 1..Len(s) : s[i] \in CallRecord /\ s[i].by \in Nat /\ s[i].by < i
      /\ c \in 1..Len(s)
  BY MadeFacts
<1>2. \A i \in 1..Len(s) : \A st \in {"running", "caught"} :
        /\ In(s[i], st).state = st
        /\ In(s[i], st).by = s[i].by /\ In(s[i], st).awaited = s[i].awaited
  BY <1>1, InAnotherState DEF CallState, Ended
<1>3. t = [i \in 1..Len(s) |->
             IF i = c THEN In(s[i], "running")
             ELSE IF s[i].by = c /\ s[i].awaited /\ s[i].state = "threw"
             THEN In(s[i], "caught") ELSE s[i]]
  BY <1>1
<1>4. /\ DOMAIN t = 1..Len(s)
      /\ \A i \in 1..Len(s) :
           /\ t[i].by = s[i].by /\ t[i].awaited = s[i].awaited
           /\ i # c /\ s[i].state = "threw" /\ s[i].by = c /\ s[i].awaited => t[i].state = "caught"
           /\ i # c /\ ~(s[i].state = "threw" /\ s[i].by = c /\ s[i].awaited)
                => t[i].state = s[i].state
      /\ t[c].state = "running"
  BY <1>1, <1>2, <1>3
<1>a. DOMAIN t = 1..Len(s)
  BY <1>4
<1>5. \A i \in 1..Len(s) : Live(t, i) <=> Live(s, i)
  BY <1>1, <1>4 DEF Live, Ended
<1>6. \A i \in 1..Len(s) : s[i].state = "waiting" => t[i].state = "waiting"
  BY <1>4
<1>7. Linked(t)
  <2> SUFFICES ASSUME NEW i \in 1..Len(s)
               PROVE  /\ t[i].by = 0 <=> i = 1
                      /\ i = 1 => t[i].awaited
                      /\ Live(t, i) /\ t[i].awaited /\ i # 1 =>
                           /\ t[t[i].by].state = "waiting"
                           /\ \A b \in 1..Len(s) :
                                Live(t, b) /\ t[b].awaited /\ t[b].by = t[i].by => b = i
    BY <1>a DEF Linked
  <2>1. (t[i].by = 0 <=> i = 1) /\ (i = 1 => t[i].awaited)
    BY <1>1, <1>4 DEF Linked
  <2>2. ASSUME Live(t, i), t[i].awaited, i # 1
        PROVE  /\ t[t[i].by].state = "waiting"
               /\ \A b \in 1..Len(s) : Live(t, b) /\ t[b].awaited /\ t[b].by = t[i].by => b = i
    <3>1. /\ t[i].by = s[i].by /\ s[i].by \in 1..Len(s) /\ s[s[i].by].state = "waiting"
          /\ \A b \in 1..Len(s) : Live(s, b) /\ s[b].awaited /\ s[b].by = s[i].by => b = i
      BY <1>1, <1>4, <1>5, <2>2 DEF Linked
    <3>2. t[t[i].by].state = "waiting"
      BY <1>6, <3>1
    <3>3. ASSUME NEW b \in 1..Len(s), Live(t, b), t[b].awaited, t[b].by = t[i].by  PROVE b = i
      <4>1. Live(s, b) /\ s[b].awaited /\ s[b].by = s[i].by
        BY <1>4, <1>5, <3>1, <3>3
      <4> QED BY <3>1, <4>1
    <3> QED BY <3>2, <3>3
  <2> QED BY <2>1, <2>2
<1>8. Told(t)
  <2> SUFFICES ASSUME NEW i \in 1..Len(s), t[i].state = "threw"
               PROVE  /\ t[i].awaited
                      /\ i # 1 => t[t[i].by].state \in {"rejecting", "threw", "caught"}
    BY <1>4 DEF Told
  <2>1. /\ s[i].state = "threw" /\ t[i].by = s[i].by /\ t[i].awaited = s[i].awaited
        /\ s[i].awaited /\ s[i].by # c
        /\ i # 1 => s[s[i].by].state \in {"rejecting", "threw", "caught"}
    BY <1>1, <1>4 DEF Told
  <2>2. i # 1 => s[i].by \in 1..Len(s)
    BY <1>1 DEF Linked
  <2>3. i # 1 => t[s[i].by].state \in {s[s[i].by].state, "caught"}
    BY <1>4, <2>1, <2>2
  <2> QED BY <2>1, <2>3
<1>9. FirstKept(s, t)
  <2>1. 1 \in 1..Len(s)
    BY <1>1
  <2>2. s[1].by # c
    BY <1>1, <2>1 DEF Linked
  <2>3. s[1].state \in {"returned", "threw"} => t[1].state = s[1].state
    BY <1>4, <2>1, <2>2
  <2>4. 1 \in DOMAIN s /\ 1 \in DOMAIN t
    BY <1>1, <1>4, <2>1
  <2> QED BY <2>3, <2>4 DEF FirstKept
<1> QED BY <1>7, <1>8, <1>9

\* In a process that did not end every error is told; the outcome of a delivery is that
\* of its first call.
ErrorsInv ==
  /\ CallsInv
  /\ \A d \in Delivery :
       /\ ~exited => Linked(calls[d]) /\ Told(calls[d])
       /\ ~exited /\ d \in completed => Fulfilled(d)
       /\ d \in failed \ completed => Rejected(d)

LEMMA ErrorsInitially == Init => ErrorsInv
<1>1. Linked(<<>>) /\ Told(<<>>)
  BY DEF Linked, Told
<1> QED BY <1>1, CallsInitially DEF Init, ErrorsInv

LEMMA CallStepTells ==
  ASSUME CallsInv, NEW d \in Delivery, NEW c \in DOMAIN calls[d], CallStep(d, c),
         Linked(calls[d]), Told(calls[d])
  PROVE  /\ Linked(calls'[d]) /\ FirstKept(calls[d], calls'[d])
         /\ ~exited' => Told(calls'[d])
<1>1. Made(calls[d]) /\ calls = [e \in Delivery |-> calls[e]]
  BY DEF CallsInv
<1>2. ASSUME NEW await \in BOOLEAN, calls[d][c].state = "running",
             calls' = Called(d, c, await)
      PROVE  /\ Linked(calls'[d]) /\ FirstKept(calls[d], calls'[d])
             /\ ~exited' => Told(calls'[d])
  <2>1. calls'[d] = Append([calls[d] EXCEPT ![c] = In(@, IF await THEN "waiting"
                                                         ELSE "running")],
                            Call(calls[d][c].at + 1, c, await))
    BY <1>1, <1>2 DEF Called
  <2> QED BY <1>1, <1>2, <2>1, CallingTells
<1>3. ASSUME NEW how \in {"returned", "threw"}, End(d, c, how),
             calls[d][c].state \in {"running", "returning", "rejecting"},
             how = "returned" => calls[d][c].state # "rejecting"
      PROVE  /\ Linked(calls'[d]) /\ FirstKept(calls[d], calls'[d])
             /\ ~exited' => Told(calls'[d])
  <2> DEFINE goesOn == Resumed(d, calls[d][c].by, how)
  <2>1. /\ goesOn \in {"running", "returning", "rejecting"}
        /\ how = "threw" => goesOn = "rejecting"
    BY DEF Resumed
  <2>2. calls'[d] = [i \in DOMAIN calls[d] |->
                       IF i = c THEN In(calls[d][i], how)
                       ELSE IF calls[d][c].awaited /\ i = calls[d][c].by
                       THEN In(calls[d][i], goesOn) ELSE calls[d][i]]
    BY <1>1, <1>3 DEF End, EndedCalls
  <2>3. ~exited' => (how = "threw" => calls[d][c].awaited)
    <3> SUFFICES ASSUME ~exited', how = "threw"  PROVE calls[d][c].awaited
      OBVIOUS
    <3>1. calls[d][c] \in CallRecord
      BY <1>1, MadeFacts
    <3>2. calls'[d][c].state = "threw"
      BY <2>2, <3>1, InAnotherState DEF CallState, Ended
    <3>3. ~(calls'[d][c].state = "threw" /\ ~calls[d][c].awaited)
      BY DEF CallStep, StateOf
    <3> QED BY <3>2, <3>3
  <2> HIDE DEF goesOn
  <2> QED BY <1>1, <1>3, <2>1, <2>2, <2>3, EndingTells
<1>4. CASE Catch(d, c)
  <2>1. /\ calls[d][c].state = "rejecting"
        /\ calls'[d] = [i \in DOMAIN calls[d] |->
             IF i = c THEN In(calls[d][i], "running")
             ELSE IF /\ calls[d][i].by = c /\ calls[d][i].awaited
                     /\ calls[d][i].state = "threw"
             THEN In(calls[d][i], "caught") ELSE calls[d][i]]
    BY <1>1, <1>4 DEF Catch, StateOf
  <2> QED BY <1>1, <2>1, CatchingTells
<1>5. ASSUME NEW await \in BOOLEAN, CallNext(d, c, await)
      PROVE  calls[d][c].state = "running" /\ calls' = Called(d, c, await)
  BY <1>5 DEF CallNext, StateOf
<1>6. CASE Return(d, c)
  BY <1>3, <1>6 DEF Return, StateOf
<1>7. CASE Throw(d, c)
  BY <1>3, <1>7 DEF Throw, StateOf
<1>8. CASE Route(d, c, HasRouter(d), HasHandler(d))
  BY <1>2, <1>3, <1>8 DEF Route, StateOf
<1> QED
  BY <1>2, <1>4, <1>5, <1>6, <1>7, <1>8 DEF CallStep

LEMMA ErrorsStep == ErrorsInv /\ [Next]_vars => ErrorsInv'
<1> SUFFICES ASSUME ErrorsInv, [Next]_vars PROVE ErrorsInv'
  OBVIOUS
<1>1. CallsInv'
  BY CallsStep DEF ErrorsInv
<1>2. ASSUME UNCHANGED <<calls, completed, failed>>, exited => exited'  PROVE ErrorsInv'
  BY <1>1, <1>2 DEF ErrorsInv, Fulfilled, Rejected, StateOf
<1>3. ASSUME NEW d \in Delivery, PushVaaThroughPipeline(d) PROVE ErrorsInv'
  <2>1. /\ d \notin Outcome /\ UNCHANGED <<completed, failed, exited>>
        /\ calls' = [calls EXCEPT ![d] = calls'[d]] /\ calls'[d] \in {<<>>, <<Call(1, 0, TRUE)>>}
    BY <1>3 DEF PushVaaThroughPipeline, Begin, ErrorsInv, CallsInv, Outcome, events
  <2>2. Linked(<<>>) /\ Told(<<>>)
    BY DEF Linked, Told
  <2>3. Linked(<<Call(1, 0, TRUE)>>) /\ Told(<<Call(1, 0, TRUE)>>)
    BY DEF Linked, Told, Call
  <2>4. \A e \in Delivery : e # d => calls'[e] = calls[e]
    BY <2>1 DEF ErrorsInv, CallsInv
  <2>5. d \notin completed /\ d \notin failed
    BY <2>1 DEF Outcome
  <2>6. \A e \in Delivery :
          e # d => (Fulfilled(e) => Fulfilled(e)') /\ (Rejected(e) => Rejected(e)')
    BY <2>4 DEF Fulfilled, Rejected, StateOf
  <2>7. Linked(calls'[d]) /\ Told(calls'[d])
    BY <2>1, <2>2, <2>3
  <2> QED
    BY <1>1, <2>1, <2>4, <2>5, <2>6, <2>7 DEF ErrorsInv
<1>4. ASSUME NEW d \in Delivery, NEW c \in DOMAIN calls[d], CallStep(d, c) PROVE ErrorsInv'
  <2>1. /\ ~exited /\ UNCHANGED <<completed, failed>>
        /\ calls' = [calls EXCEPT ![d] = calls'[d]]
    BY <1>4, CallStepKeeps DEF CallStep, Up, events, ErrorsInv
  <2>2. /\ Linked(calls'[d]) /\ FirstKept(calls[d], calls'[d])
        /\ ~exited' => Told(calls'[d])
    BY <1>4, <2>1, CallStepTells DEF ErrorsInv
  <2>3. calls[d] # <<>>
    BY <1>4
  <2>4. (Fulfilled(d) => Fulfilled(d)') /\ (Rejected(d) => Rejected(d)')
    BY <2>2, <2>3 DEF Fulfilled, Rejected, StateOf, FirstKept
  <2>5. \A e \in Delivery : e # d => calls'[e] = calls[e]
    BY <2>1 DEF ErrorsInv, CallsInv
  <2>6. \A e \in Delivery :
          e # d => (Fulfilled(e) => Fulfilled(e)') /\ (Rejected(e) => Rejected(e)')
    BY <2>5 DEF Fulfilled, Rejected, StateOf
  <2> QED
    BY <1>1, <2>1, <2>2, <2>4, <2>5, <2>6 DEF ErrorsInv
<1>5. ASSUME NEW d \in Delivery, Complete(d) \/ Fail(d) PROVE ErrorsInv'
  <2>1. /\ UNCHANGED calls /\ ~exited
        /\ completed \subseteq completed' /\ completed' \subseteq completed \cup {d}
        /\ failed' \subseteq failed \cup {d}
        /\ d \in completed' \ completed => Fulfilled(d)
        /\ d \in (failed' \ failed) \ completed' => Rejected(d)
    BY <1>5 DEF Complete, Fail, Up
  <2> QED BY <1>1, <2>1 DEF ErrorsInv, Fulfilled, Rejected, StateOf
<1>6. ASSUME NEW d \in Delivery,
             SpySends(d) \/ ApplicationCalls(d) \/ Skip(d) \/ AddVaaToQueue(d)
      PROVE  ErrorsInv'
  BY <1>2, <1>6 DEF SpySends, ApplicationCalls, Received, Skip, AddVaaToQueue, Up, events
<1>7. ASSUME NEW d \in Delivery, ErrorPipelineEnds(d) PROVE ErrorsInv'
  BY <1>2, <1>7 DEF ErrorPipelineEnds, Up, runs
<1>8. CASE Listen \/ SpyLoop \/ SpyServer
  BY <1>2, <1>8 DEF Listen, SpyLoop, Connected, Subscribed, ConnectionFails, SpyError,
                    StreamEnds, Goto, SpyServer, runs, events
<1>9. CASE \/ \E s, e, u \in BOOLEAN : SetUp(s, e, u)
           \/ Use \/ (\E ch \in Chain : chain(ch)) \/ (\E w \in Written : address(w))
  BY <1>2, <1>9 DEF SetUp, Use, chain, address, runs, events
<1>10. CASE UNCHANGED vars
  BY <1>2, <1>10 DEF vars, runs, events
<1> QED
  BY <1>3, <1>4, <1>5, <1>6, <1>7, <1>8, <1>9, <1>10 DEF Next, DeliveryStep

\* Completed hides no error (application.ts pushVaaThroughPipeline): each one was caught
\* by a middleware above, or is on its way up from a call nobody awaits, or ended the
\* process; and Failed without Completed tells of one, whatever the pipeline and however
\* often its middlewares call next.
THEOREM ErrorsAreAccountedFor == Spec => []ErrorsAreToldOrCaught
<1>1. ErrorsInv => ErrorsAreToldOrCaught
  <2> SUFFICES ASSUME ErrorsInv  PROVE ErrorsAreToldOrCaught
    OBVIOUS
  <2>1. completed \subseteq Delivery /\ failed \subseteq Delivery
    BY DEF ErrorsInv, CallsInv, Outcome
  <2>2. ASSUME NEW d \in completed, ~exited, NEW c \in DOMAIN calls[d], StateOf(d, c) = "threw"
        PROVE  /\ calls[d][c].by # 0
               /\ StateOf(d, calls[d][c].by) \in {"rejecting", "threw", "caught"}
    <3>1. Linked(calls[d]) /\ Told(calls[d]) /\ Fulfilled(d)
      BY <2>1, <2>2 DEF ErrorsInv
    <3>2. c # 1
      BY <2>2, <3>1 DEF Fulfilled
    <3> QED BY <2>2, <3>1, <3>2 DEF Linked, Told, StateOf
  <2> QED BY <2>1, <2>2 DEF ErrorsInv, ErrorsAreToldOrCaught
<1> QED BY <1>1, ErrorsInitially, ErrorsStep, PTL DEF Spec
=============================================================================
