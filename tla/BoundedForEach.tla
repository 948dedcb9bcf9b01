--------------------------- MODULE BoundedForEach ----------------------------
(***************************************************************************)
(* What a concurrent "for each" with a bound promises, for several of them *)
(* at once: a task leaves the waiting ones only to be worked on, is worked *)
(* on once, no more than Bound tasks of a group are worked on at a time,   *)
(* and no task waits while there is room.                                  *)
(***************************************************************************)
EXTENDS Naturals, FiniteSets

CONSTANTS Group, Task, Bound

VARIABLES todo, busy  \* per group: tasks that wait, tasks that are worked on

fvars == <<todo, busy>>

FInit == todo = [g \in Group |-> {}] /\ busy = [g \in Group |-> {}]

\* All of the work was accepted and as much as possible begun.
Full(waiting, working) ==
  /\ waiting \cap working = {}
  /\ Cardinality(working) <= Bound
  /\ waiting # {} => Cardinality(working) = Bound

Now(g, waiting, working) ==
  /\ Full(waiting, working)
  /\ todo' = [todo EXCEPT ![g] = waiting]
  /\ busy' = [busy EXCEPT ![g] = working]

Open(g) ==
  /\ todo[g] = {} /\ busy[g] = {}
  /\ \E tasks \in SUBSET Task : \E begun \in SUBSET tasks : Now(g, tasks \ begun, begun)

End(g, t) ==
  /\ t \in busy[g]
  /\ \E begun \in SUBSET todo[g] : Now(g, todo[g] \ begun, (busy[g] \ {t}) \cup begun)

FNext == \E g \in Group : Open(g) \/ \E t \in Task : End(g, t)

FSpec == FInit /\ [][FNext]_fvars
=============================================================================
