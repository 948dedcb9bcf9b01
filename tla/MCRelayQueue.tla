---------------------------- MODULE MCRelayQueue ----------------------------
(* Constant values for model checking RelayQueue.                          *)
EXTENDS RelayQueue, TLC
CONSTANTS p1, p2, v1, v2, spy, user
Procs == {p1, p2}
OneProc == {p1}
Vaas == {v1, v2}
OneVaa == {v1}
Spy == {spy}
SpyAndUser == {spy, user}
User == {user}
Nobody == {}
VaaSymmetry == Permutations(Vaas)
=============================================================================
