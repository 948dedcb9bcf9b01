---------------------------- MODULE MapConcurrent ----------------------------
(***************************************************************************)
(* mapConcurrent of src/relayer/utils.ts as operators on the state of one  *)
(* call: the arguments nobody has taken and, per lane (the promises that   *)
(* Promise.all waits for), the argument its fn is working on.  A lane that *)
(* finds no argument left ends and stays ended.                            *)
(*                                                                         *)
(* Neither of the two functions the repository passes in ever rejects, so  *)
(* that a rejecting fn is left out.                                        *)
(***************************************************************************)
EXTENDS Integers, Sequences

CONSTANT Ended  \* a lane whose promise has resolved

\* The lanes run up to their first await at once, each with an argument.
Started(arr, concurrency) ==
  [pendingArgs |-> SubSeq(arr, concurrency + 1, Len(arr)),
   lane |-> [l \in 1..concurrency |-> IF l <= Len(arr) THEN arr[l] ELSE Ended]]

\* Mutant: two lanes take the same argument.
FnReturnedPeek(m, l) ==
  IF m.pendingArgs = <<>> THEN [m EXCEPT !.lane[l] = Ended]
  ELSE [m EXCEPT !.lane[l] = Head(m.pendingArgs),
                 !.pendingArgs = IF l = 1 THEN Tail(@) ELSE @]

\* Mutant: a lane ends after its first argument.
FnReturnedOnce(m, l) == [m EXCEPT !.lane[l] = Ended]

\* fn has resolved in lane l: evaluateNext once more.
FnReturned(m, l) ==
  IF m.pendingArgs = <<>> THEN [m EXCEPT !.lane[l] = Ended]
  ELSE [m EXCEPT !.lane[l] = Head(m.pendingArgs), !.pendingArgs = Tail(@)]

\* Mutant: resolved as soon as one lane has ended.
ResolvedFirst(m) ==
  DOMAIN m.lane = {} \/ \E l \in DOMAIN m.lane : m.lane[l] = Ended

\* Promise.all: every lane has ended.  Without lanes that is at once.
Resolved(m) == \A l \in DOMAIN m.lane : m.lane[l] = Ended

InLanes(m) == {m.lane[l] : l \in {k \in DOMAIN m.lane : m.lane[k] # Ended}}
LaneOf(m, arg) == CHOOSE l \in DOMAIN m.lane : m.lane[l] = arg
Waiting(m) == {m.pendingArgs[i] : i \in DOMAIN m.pendingArgs}
=============================================================================
