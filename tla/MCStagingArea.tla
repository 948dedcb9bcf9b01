---------------------------- MODULE MCStagingArea ---------------------------
(* Constant values for model checking StagingArea.                         *)
EXTENDS StagingArea, TLC
CONSTANTS j1, j2, j3, r1, r2, x, y, c1, c2, c3, c4
Jobs == {j1, j2, j3}
Conns == {r1, r2}
Keys == {x, y}
Ops == {c1, c2, c3, c4}
\* Job j1 makes two calls; j2 and j3 touch both keys.
JobOfOps == c1 :> j1 @@ c2 :> j1 @@ c3 :> j2 @@ c4 :> j3
KeysOfOps == c1 :> {x} @@ c2 :> {x} @@ c3 :> {x, y} @@ c4 :> {x, y}
=============================================================================
