--------------------------- MODULE OptimisticStore ---------------------------
(***************************************************************************)
(* What a store of counters promises to transactions that each count up a  *)
(* set of keys: however they run into each other, a commit reads, computes *)
(* and writes all of its keys in one step, and no transaction commits that *)
(* another has disturbed.  One is aborted only because it was disturbed,   *)
(* or because it was opened at a bad moment.                               *)
(***************************************************************************)
EXTENDS Naturals

CONSTANTS Txn, Key, KeysOf

VARIABLES
  store,      \* the value of each key
  txn,        \* new, open, committed, aborted or failed
  disturbed,  \* transactions that were open when another wrote one of their keys
  early       \* transactions that were opened before the store was ready for them

ovars == <<store, txn, disturbed, early>>

OInit ==
  /\ store = [k \in Key |-> 0]
  /\ txn = [t \in Txn |-> "new"]
  /\ disturbed = {} /\ early = {}

Becomes(t, from, to) == txn[t] = from /\ txn' = [txn EXCEPT ![t] = to]

OpenTxn(t) ==
  /\ Becomes(t, "new", "open")
  /\ early' \in {early, early \cup {t}}
  /\ UNCHANGED <<store, disturbed>>

Commit(t) ==
  /\ Becomes(t, "open", "committed")
  /\ t \notin disturbed
  /\ store' = [k \in Key |-> IF k \in KeysOf[t] THEN store[k] + 1 ELSE store[k]]
  /\ disturbed' = disturbed \cup
       {u \in Txn \ {t} : txn[u] = "open" /\ KeysOf[u] \cap KeysOf[t] # {}}
  /\ UNCHANGED early

Abort(t) ==
  /\ Becomes(t, "open", "aborted")
  /\ t \in disturbed \cup early
  /\ UNCHANGED <<store, disturbed, early>>

\* The application gives up.
GiveUp(t) ==
  /\ Becomes(t, "open", "failed")
  /\ UNCHANGED <<store, disturbed, early>>

ONext == \E t \in Txn : OpenTxn(t) \/ Commit(t) \/ Abort(t) \/ GiveUp(t)

OSpec == OInit /\ [][ONext]_ovars
=============================================================================
