-------------------------- MODULE FailFastTransport --------------------------
(***************************************************************************)
(* One gRPC call over the transport of src/relayer/rpc/                    *)
(* fail-fast-grpc-transport.ts, as operators on how far it is.  The client *)
(* above it (grpc-web) goes on only when the transport calls onEnd: for    *)
(* the response's end event, or for an error event of the request.         *)
(*                                                                         *)
(*   sent       start and sendMessage have run                             *)
(*   headers    responseCallback has run                                   *)
(*   body       a chunk has been passed on                                 *)
(*   destroyed  the idle timer fired, the error event is still to come     *)
(*   cut        the peer closed in the middle of the response              *)
(*                                                                         *)
(* Node's events are modelled from the listeners the code installs.  A     *)
(* response that is cut ends without end event and without an error event  *)
(* of the request; nobody listens to the response's own events for it.     *)
(***************************************************************************)

CallAt == {"sent", "headers", "body", "destroyed", "cut"}

\* responseCallback, and the listener of data.
ResponseEvents(at) ==
  CASE at = "sent"    -> {"headers"}
    [] at = "headers" -> {"body"}
    [] OTHER          -> {}

\* Mutant: the timeout listener is left out.
OnTimeoutNever(at) == {}

\* The timeout listener: onTimeout destroys the request.
OnTimeout(at) == IF at \in {"sent", "headers", "body"} THEN {"destroyed"} ELSE {}

\* The peer closes the connection with the response incomplete.
CutOff(at) == IF at \in {"headers", "body"} THEN {"cut"} ELSE {}

\* The request's error event, the timeout's included: onEnd(err).
ErrorEnds(at) == at \in {"sent", "headers", "body", "destroyed"}

\* The response's end event: onEnd().
ResponseEnds(at) == at \in {"headers", "body"}
=============================================================================
