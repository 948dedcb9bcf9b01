------------------------------ MODULE Pipeline ------------------------------
(***************************************************************************)
(* The middleware pipeline (src/relayer/compose.middleware.ts) and the     *)
(* router in it (src/relayer/application.ts): what one delivery of a VAA   *)
(* runs.                                                                   *)
(*                                                                         *)
(* A pipeline is a stack of middlewares.  Each is called with `next`, which*)
(* calls the one below; it may call it never, once or several times, wait  *)
(* for it or not, catch what it throws or not.  compose nests; nested or   *)
(* flat, the calls are the same, so a stack is a sequence here.            *)
(* Application EXTENDS this module.                                        *)
(***************************************************************************)
EXTENDS Naturals, Sequences

CONSTANTS
  Delivery, \* deliveries of VAAs, each with its own context
  MaxCalls  \* bound: middleware calls in one delivery

ASSUME PipelineAssumption == MaxCalls \in Nat

VARIABLES
  plan,  \* per delivery: the stack it runs, from the top
  calls  \* per delivery: the calls made, in their order

\* What a middleware is: one given to use(), the router, or the composition of
\* those of an address, which only the router calls.
Kind == {"middleware", "router", "handler"}

\* A call of the middleware at a place of the stack, made by an earlier call that
\* awaits it or not.  A call that awaits another is waiting; it goes on with its
\* value (the router: returning) or with its error (rejecting).
Call(p, c, await) == [at |-> p, by |-> c, awaited |-> await, state |-> "running"]

\* A call in another state.
In(call, st) == [call EXCEPT !.state = st]

Ended == {"returned", "threw", "caught"}

KindOf(d, c) == plan[d][calls[d][c].at]
StateOf(d, c) == calls[d][c].state

-----------------------------------------------------------------------------
\* The pipeline is called: callNext(0), awaited by pushVaaThroughPipeline.
Begin(d, stack) ==
  /\ plan' = [plan EXCEPT ![d] = stack]
  /\ calls' = [calls EXCEPT ![d] = IF stack = <<>> THEN <<>> ELSE <<Call(1, 0, TRUE)>>]

\* Mutant: callNext does not return the promise of the middleware it calls.
CalledNotReturned(d, c, await) ==
  [calls EXCEPT ![d] = Append(@, Call(calls[d][c].at + 1, c, await))]

\* The calls after call c called the one below.
Called(d, c, await) ==
  [calls EXCEPT ![d] =
     Append([calls[d] EXCEPT ![c] = In(@, IF await THEN "waiting" ELSE "running")],
            Call(calls[d][c].at + 1, c, await))]

\* Mutant: what an awaited call throws is taken for a value.
ResumedAlways(d, c, how) == IF KindOf(d, c) = "router" THEN "returning" ELSE "running"

\* How call c goes on when the one it awaited ended.
Resumed(d, c, how) ==
  IF how = "threw" THEN "rejecting"
  ELSE IF KindOf(d, c) = "router" THEN "returning" ELSE "running"

\* The calls after call c ended: the call that awaits it goes on.
EndedCalls(d, c, how) ==
  LET by == calls[d][c].by
  IN  [calls EXCEPT ![d] = [i \in DOMAIN calls[d] |->
         IF i = c THEN In(calls[d][i], how)
         ELSE IF calls[d][c].awaited /\ i = by
         THEN In(calls[d][i], Resumed(d, by, how)) ELSE calls[d][i]]]

End(d, c, how) == calls' = EndedCalls(d, c, how) /\ UNCHANGED plan

\* A middleware calls next.  Below the last one `next` does nothing.
CallNext(d, c, await) ==
  /\ StateOf(d, c) = "running" /\ KindOf(d, c) # "router"
  /\ calls[d][c].at < Len(plan[d]) /\ Len(calls[d]) < MaxCalls
  /\ calls' = Called(d, c, await)
  /\ UNCHANGED plan

\* A middleware returns; the router returns what the handler did.
Return(d, c) ==
  /\ \/ StateOf(d, c) = "running" /\ KindOf(d, c) # "router"
     \/ StateOf(d, c) = "returning"
  /\ End(d, c, "returned")

\* A middleware throws, or does not catch what it awaited.
Throw(d, c) ==
  /\ \/ StateOf(d, c) = "running" /\ KindOf(d, c) # "router"
     \/ StateOf(d, c) = "rejecting"
  /\ End(d, c, "threw")

Catch(d, c) ==
  /\ StateOf(d, c) = "rejecting" /\ KindOf(d, c) # "router"
  /\ calls' = [calls EXCEPT ![d] = [i \in DOMAIN calls[d] |->
       IF i = c THEN In(calls[d][i], "running")
       ELSE IF calls[d][i].by = c /\ calls[d][i].awaited /\ calls[d][i].state = "threw"
       THEN In(calls[d][i], "caught") ELSE calls[d][i]]]
  /\ UNCHANGED plan

\* generateChainRoutes and ChainRouter.process: without a router for the chain the
\* pipeline ends there; without a handler for the address it throws.
Route(d, c, hasRouter, hasHandler) ==
  /\ StateOf(d, c) = "running" /\ KindOf(d, c) = "router"
  /\ \/ ~hasRouter /\ End(d, c, "returned")
     \/ hasRouter /\ ~hasHandler /\ End(d, c, "threw")
     \/ /\ hasRouter /\ hasHandler /\ Len(calls[d]) < MaxCalls
        /\ calls' = Called(d, c, TRUE)
        /\ UNCHANGED plan

-----------------------------------------------------------------------------
\* The promise of the pipeline; an application without middleware has none.
Fulfilled(d) == \A c \in DOMAIN calls[d] : c = 1 => StateOf(d, c) = "returned"
Rejected(d) == \E c \in DOMAIN calls[d] : c = 1 /\ StateOf(d, c) = "threw"

AllAwaited(d) == \A c \in DOMAIN calls[d] : calls[d][c].awaited
=============================================================================
