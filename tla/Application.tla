----------------------------- MODULE Application -----------------------------
(***************************************************************************)
(* RelayerApp (src/relayer/application.ts) between the spy and the         *)
(* application's middleware: how it is set up, listen() and its connection *)
(* to the spy, processVaa and the pipeline it ends in.                     *)
(*                                                                         *)
(* With a storage a delivery waits in the queue for the worker, here a     *)
(* set: duplicates, retries and lost jobs are RelayQueue's.  Filters are a *)
(* free choice.  One process, that ends when a promise nobody handles is   *)
(* rejected (what Node does by default); it is not started again.          *)
(***************************************************************************)
EXTENDS Pipeline, FiniteSets

CONSTANTS
  Chain, Emitter,
  KeepsCase,  \* the chains whose addresses are hex already: Sui
  Written,    \* the addresses given to address(), as the application writes them
  chainOf,    \* the chain of each emitter
  emitterOf,  \* the emitter of the VAA of each delivery
  MaxUse,     \* bound: middlewares given to use()
  MaxAttempts \* bound: attempts is counted up to here

ASSUME ApplicationAssumption ==
  /\ KeepsCase \subseteq Chain
  /\ Written \subseteq [emitter : Emitter, digits : {"lower", "mixed"}]
  /\ chainOf \in [Emitter -> Chain] /\ emitterOf \in [Delivery -> Emitter]
  /\ MaxUse \in Nat /\ MaxAttempts \in Nat \ {0}

VARIABLES
  storage,       \* useStorage was called
  errorPipeline, \* an error middleware was given to use()
  spyUrl,        \* spy(url) was called
  stack,         \* the pipeline: "middleware" and "router", from the top
  chainRouters,  \* the chains with a router
  handlers,      \* the keys of _addressHandlers, of all routers: hex strings
  filters,       \* the spy filters, as such keys, from listen() on
  listening,     \* where listen() is
  attempts,
  spy,           \* the spy's server is up
  delivery,      \* per delivery: where processVaa is
  fromSpy,       \* the deliveries of the spy; the others are the application's calls
  completed, failed, \* the deliveries whose Completed, Failed was emitted
  errors,        \* the deliveries whose error pipeline runs
  exited         \* the process ended by an unhandled rejection

setup == <<storage, errorPipeline, spyUrl, stack, chainRouters, handlers>>
link == <<filters, listening, attempts>>
events == <<completed, failed, errors>>
runs == <<plan, calls, delivery, fromSpy>>
vars == <<setup, link, spy, runs, events, exited>>

\* Nothing runs in a process that ended, nor while a loop that awaits nothing spins.
Up == ~exited /\ listening # "spinning"

-----------------------------------------------------------------------------
(* Setting up: chain(), address() and use() at any time, the rest before   *)
(* listen().                                                               *)

SetUp(s, e, u) ==
  /\ Up /\ listening = "no"
  /\ storage' = (storage \/ s) /\ errorPipeline' = (errorPipeline \/ e)
  /\ spyUrl' = (spyUrl \/ u)
  /\ UNCHANGED <<stack, chainRouters, handlers, link, spy, runs, events, exited>>

\* Given after listen() a middleware is below the router.
Use ==
  /\ Up /\ Cardinality({i \in DOMAIN stack : stack[i] = "middleware"}) < MaxUse
  /\ stack' = Append(stack, "middleware")
  /\ UNCHANGED <<storage, errorPipeline, spyUrl, chainRouters, handlers, link, spy,
                 runs, events, exited>>

chain(ch) ==
  /\ Up
  /\ chainRouters' = chainRouters \cup {ch}
  /\ UNCHANGED <<storage, errorPipeline, spyUrl, stack, handlers, link, spy, runs,
                 events, exited>>

\* A hex string: whose address it is, and whether its digits are in lower case or some
\* are capitals.
Hex(e, digits) == [emitter |-> e, digits |-> digits]

\* An address is decoded and written again in lower case; one of Sui just loses its 0x.
encodeEmitterAddress(w) ==
  IF chainOf[w.emitter] \in KeepsCase THEN w ELSE Hex(w.emitter, "lower")

\* chain(..).address(..), which multiple and tokenBridge call in loops.
address(w) ==
  /\ Up
  /\ chainRouters' = chainRouters \cup {chainOf[w.emitter]}
  /\ handlers' = handlers \cup {encodeEmitterAddress(w)}
  /\ UNCHANGED <<storage, errorPipeline, spyUrl, stack, link, spy, runs, events, exited>>

-----------------------------------------------------------------------------
(* listen().                                                               *)

\* Mutant: a filter for each emitter of a chain with a router.
spyFiltersOfChains == {Hex(e, "lower") : e \in {f \in Emitter : chainOf[f] \in chainRouters}}

\* The keys, as they are.
spyFilters == {k \in handlers : chainOf[k.emitter] \in chainRouters}

\* Up to the first await of the loop.  Without spy url the client cannot be made: the
\* catch clause starts the loop again and nothing is ever awaited.
Listen ==
  /\ Up /\ listening = "no"
  /\ stack' = Append(stack, "router")
  /\ filters' = spyFilters
  /\ listening' = IF spyUrl THEN "connecting"
                  ELSE IF filters' # {} THEN "threw" ELSE "spinning"
  /\ UNCHANGED <<storage, errorPipeline, spyUrl, chainRouters, handlers, attempts, spy,
                 runs, events, exited>>

Listening == listening \in {"connecting", "subscribing", "streaming"}
Count(n) == IF n < MaxAttempts THEN n + 1 ELSE n

Goto(place) ==
  /\ listening' = place
  /\ UNCHANGED <<setup, filters, spy, runs, events, exited>>

\* waitForReady resolves.
Connected ==
  /\ Up /\ listening = "connecting" /\ spy
  /\ Goto("subscribing") /\ attempts' = 0

\* Mutant: the error leaves listen().
ErrorEndsListen ==
  /\ Up /\ Listening
  /\ Goto("threw") /\ attempts' = Count(attempts)

\* The catch clause: waitForReady timed out, subscribeSignedVAA or the stream failed.
SpyError ==
  /\ Up /\ Listening
  /\ Goto("connecting") /\ attempts' = Count(attempts)

\* A spy that is down refuses; one that is up may still break a stream.
ConnectionFails == (~spy \/ listening = "streaming") /\ SpyError

Subscribed ==
  /\ Up /\ listening = "subscribing" /\ spy
  /\ Goto("streaming") /\ UNCHANGED attempts

\* The stream ends without an error: the loop starts again.
StreamEnds ==
  /\ Up /\ listening = "streaming"
  /\ Goto("connecting") /\ UNCHANGED attempts

\* External: the spy's server is started and stopped.
SpyServer == spy' = ~spy /\ UNCHANGED <<setup, link, runs, events, exited>>

-----------------------------------------------------------------------------
(* processVaa.                                                             *)

\* A promise of a delivery is rejected: the spy loop awaits none of its own.
RejectsProcessVaa(d) == exited' = (d \in fromSpy)

\* Bytes that are no VAA, and listeners of Received that throw, reject processVaa.
Received(d, bySpy, throws) ==
  /\ Up /\ delivery[d] = "new"
  /\ fromSpy' = IF bySpy THEN fromSpy \cup {d} ELSE fromSpy
  /\ delivery' = [delivery EXCEPT ![d] = IF throws THEN "rejected" ELSE "filtering"]
  /\ exited' = (throws /\ bySpy)
  /\ UNCHANGED <<setup, link, spy, plan, calls, events>>

\* The spy sends what its filters let through; without filters, every VAA.  It decodes
\* the hex of a filter, capitals or not.
SpySends(d) ==
  /\ listening = "streaming" /\ spy
  /\ filters = {} \/ \E k \in filters : k.emitter = emitterOf[d]
  /\ \E throws \in BOOLEAN : Received(d, TRUE, throws)

ApplicationCalls(d) == \E throws \in BOOLEAN : Received(d, FALSE, throws)

\* Skipped is emitted; its listeners may throw.
Skip(d) ==
  /\ Up /\ delivery[d] = "filtering"
  /\ delivery' = [delivery EXCEPT ![d] = "skipped"]
  /\ RejectsProcessVaa(d) \/ exited' = FALSE
  /\ UNCHANGED <<setup, link, spy, plan, calls, fromSpy, events>>

\* addVaaToQueue; it, or a listener of Added after it, may throw.
AddVaaToQueue(d) ==
  /\ Up /\ delivery[d] = "filtering" /\ storage
  /\ \E added \in {"queued", "rejected"} : delivery' = [delivery EXCEPT ![d] = added]
  /\ \/ RejectsProcessVaa(d)
     \/ delivery'[d] = "queued" /\ exited' = FALSE
  /\ UNCHANGED <<setup, link, spy, plan, calls, fromSpy, events>>

\* pushVaaThroughPipeline, called by processVaa or by the worker listen() starts.  The
\* router is followed by the handlers it calls.
WithHandler(s) ==
  LET routers == {i \in DOMAIN s : s[i] = "router"}
      r == CHOOSE i \in routers : TRUE
  IN  IF routers = {} THEN s
      ELSE SubSeq(s, 1, r) \o <<"handler">> \o SubSeq(s, r + 1, Len(s))

PushVaaThroughPipeline(d) ==
  /\ Up
  /\ \/ delivery[d] = "filtering" /\ ~storage
     \/ delivery[d] = "queued" /\ Listening
  /\ Begin(d, WithHandler(stack))
  /\ delivery' = [delivery EXCEPT ![d] = "running"]
  /\ UNCHANGED <<setup, link, spy, fromSpy, events, exited>>

\* The route of a VAA: the router of its chain, and the handlers under the emitter as
\* toString("hex") writes it.
HasRouter(d) == chainOf[emitterOf[d]] \in chainRouters
HasHandler(d) == Hex(emitterOf[d], "lower") \in handlers

\* One step of a call; an error nobody awaits ends the process.
CallStep(d, c) ==
  /\ Up
  /\ \/ \E await \in BOOLEAN : CallNext(d, c, await)
     \/ Return(d, c) \/ Throw(d, c) \/ Catch(d, c)
     \/ Route(d, c, HasRouter(d), HasHandler(d))
  /\ exited' = (StateOf(d, c)' = "threw" /\ ~calls[d][c].awaited)
  /\ UNCHANGED <<setup, link, spy, delivery, fromSpy, events>>

Complete(d) ==
  /\ Up /\ delivery[d] = "running" /\ Fulfilled(d)
  /\ completed' = completed \cup {d}
  /\ delivery' = [delivery EXCEPT ![d] = "done"]
  /\ UNCHANGED <<setup, link, spy, plan, calls, fromSpy, failed, errors, exited>>

\* The catch clause: the error pipeline is called and not awaited, Failed is emitted
\* and the error thrown on, to processVaa or to the worker, which fails the job.  A
\* listener of Completed that throws ends here as well.
Fail(d) ==
  /\ Up /\ delivery[d] = "running"
  /\ \/ Rejected(d) /\ UNCHANGED completed
     \/ Fulfilled(d) /\ completed' = completed \cup {d}
  /\ failed' = failed \cup {d}
  /\ errors' = IF errorPipeline THEN errors \cup {d} ELSE errors
  /\ delivery' = [delivery EXCEPT ![d] = "rejected"]
  /\ IF storage THEN UNCHANGED exited ELSE RejectsProcessVaa(d)
  /\ UNCHANGED <<setup, link, spy, plan, calls, fromSpy>>

\* The error pipeline ends; its promise is nobody's.
ErrorPipelineEnds(d) ==
  /\ Up /\ d \in errors
  /\ errors' = errors \ {d}
  /\ exited' \in BOOLEAN
  /\ UNCHANGED <<setup, link, spy, runs, completed, failed>>

-----------------------------------------------------------------------------
Init ==
  /\ storage = FALSE /\ errorPipeline = FALSE /\ spyUrl = FALSE
  /\ stack = <<>> /\ chainRouters = {} /\ handlers = {}
  /\ filters = {} /\ listening = "no" /\ attempts = 0
  /\ spy \in BOOLEAN
  /\ plan = [d \in Delivery |-> <<>>] /\ calls = [d \in Delivery |-> <<>>]
  /\ delivery = [d \in Delivery |-> "new"] /\ fromSpy = {}
  /\ completed = {} /\ failed = {} /\ errors = {} /\ exited = FALSE

SpyLoop == Connected \/ Subscribed \/ ConnectionFails \/ StreamEnds

DeliveryStep(d) ==
  \/ SpySends(d) \/ ApplicationCalls(d)
  \/ Skip(d) \/ AddVaaToQueue(d) \/ PushVaaThroughPipeline(d)
  \/ \E c \in DOMAIN calls[d] : CallStep(d, c)
  \/ Complete(d) \/ Fail(d) \/ ErrorPipelineEnds(d)

Next ==
  \/ \E s, e, u \in BOOLEAN : SetUp(s, e, u)
  \/ Use \/ (\E ch \in Chain : chain(ch)) \/ (\E w \in Written : address(w))
  \/ Listen \/ SpyLoop \/ SpyServer
  \/ \E d \in Delivery : DeliveryStep(d)

Spec == Init /\ [][Next]_vars

\* The promises of the loop settle: a spy that is up answers, and waitForReady has a
\* deadline.  Nothing is assumed of the spy's server, nor of the middleware.
FairSpec == Spec /\ WF_vars(Connected \/ Subscribed \/ (~spy /\ ConnectionFails))

-----------------------------------------------------------------------------
(* Properties.                                                             *)

\* application.ts 467-493, 568-603: what the spy sends to an application that
\* subscribed with filters finds its route, although the filters are of the moment of
\* listen() and the routes those there are when the pipeline gets to the router, perhaps
\* a queue and several calls later.  The one exception is an address of Sui that was
\* written with capitals: the spy understands it, the router never finds it again.
SubscribedIsRouted ==
  \A d \in fromSpy : filters # {} =>
    /\ HasRouter(d)
    /\ HasHandler(d) \/ (/\ chainOf[emitterOf[d]] \in KeepsCase
                        /\ Hex(emitterOf[d], "mixed") \in filters)

\* compose.middleware.ts 14-29: when every middleware awaits its calls of next, all
\* the calls of a delivery ended before Completed or Failed is emitted.
NothingRunsAfterOutcome ==
  \A d \in completed \cup failed :
    AllAwaited(d) => \A c \in DOMAIN calls[d] : StateOf(d, c) \in Ended

\* application.ts 345-353: after Completed each error of the pipeline was caught by a
\* middleware above, or is on its way up from a call that was not awaited, or ended the
\* process; Failed without Completed means that an error came up to the top.
ErrorsAreToldOrCaught ==
  /\ \A d \in completed : ~exited => \A c \in DOMAIN calls[d] :
       StateOf(d, c) = "threw" =>
         /\ calls[d][c].by # 0
         /\ StateOf(d, calls[d][c].by) \in {"rejecting", "threw", "caught"}
  /\ \A d \in failed \ completed : Rejected(d)

\* application.ts 501-531: whatever happens to the connection, and however often, an
\* application that listens is subscribed again, unless the spy goes down or the
\* process ends.
Resubscribes == [](Listening => []<>(listening = "streaming" \/ ~spy \/ exited))

=============================================================================
