------------------------------ MODULE WalletPool ------------------------------
(***************************************************************************)
(* What the wallets promise to those who hand them functions: a function   *)
(* for a chain waits for a wallet of that chain; a wallet that is free     *)
(* takes the one that has waited longest, and serves no other until that   *)
(* has ended; each is served once and ends for good, with a result or an   *)
(* error.  Calls are numbered as they come.                                *)
(***************************************************************************)
EXTENDS Naturals

CONSTANTS
  Chain, Supported,  \* all chains, and those for which calls are taken
  Wallet, ChainOf,   \* the wallets, each with its chain
  Call

VARIABLES
  waiting,  \* [call, chain]
  served,   \* [wallet, call]
  ended     \* [call, chain, state]: for good, resolved or rejected

pvars == <<waiting, served, ended>>

PInit == waiting = {} /\ served = {} /\ ended = {}

Known == {t.call : t \in waiting \cup served \cup ended}
IsNext(i) == \A j \in Known : j < i

Ask(i, c) ==
  /\ IsNext(i) /\ c \in Supported
  /\ waiting' = waiting \cup {[call |-> i, chain |-> c]}
  /\ UNCHANGED <<served, ended>>

Refuse(i, c) ==
  /\ IsNext(i) /\ c \notin Supported
  /\ ended' = ended \cup {[call |-> i, chain |-> c, state |-> "rejected"]}
  /\ UNCHANGED <<waiting, served>>

IsFree(w) == \A s \in served : s.wallet # w
IsFirst(t) == \A u \in waiting : u.chain = t.chain => t.call <= u.call

Serve(w, t) ==
  /\ IsFree(w) /\ t.chain = ChainOf[w] /\ IsFirst(t)
  /\ waiting' = waiting \ {t}
  /\ served' = served \cup {[wallet |-> w, call |-> t.call]}
  /\ UNCHANGED ended

End(s, state) ==
  /\ served' = served \ {s}
  /\ ended' = ended \cup {[call |-> s.call, chain |-> ChainOf[s.wallet], state |-> state]}
  /\ UNCHANGED waiting

PNext ==
  \/ \E i \in Call, c \in Chain : Ask(i, c) \/ Refuse(i, c)
  \/ \E w \in Wallet, t \in waiting : Serve(w, t)
  \/ \E s \in served, state \in {"resolved", "rejected"} : End(s, state)

PSpec == PInit /\ [][PNext]_pvars
=============================================================================
