--------------------------- MODULE RelayContract ----------------------------
(***************************************************************************)
(* What the relayer promises for a VAA it has put in its queue, whatever   *)
(* processes crash, stall or stop: it is either relayed, after its         *)
(* middleware pipeline ran to the end at least once, or given up after a   *)
(* bounded number of tries; it is never dropped in between.  Only a        *)
(* finished VAA is forgotten, and may then be accepted anew.               *)
(***************************************************************************)
EXTENDS Naturals

CONSTANTS Vaa, MaxTries

VARIABLES
  status,  \* unknown, queued, running, relayed or dead
  tries,   \* pipeline runs begun since the VAA was accepted
  ran      \* VAAs whose pipeline has run to the end

cvars == <<status, tries, ran>>

Status == {"unknown", "queued", "running", "relayed", "dead"}

CInit ==
  /\ status = [v \in Vaa |-> "unknown"]
  /\ tries = [v \in Vaa |-> 0]
  /\ ran = {}

Accept(v) ==
  /\ status[v] = "unknown"
  /\ status' = [status EXCEPT ![v] = "queued"]
  /\ tries' = [tries EXCEPT ![v] = 0]
  /\ ran' = ran \ {v}

Begin(v) ==
  /\ status[v] = "queued" /\ tries[v] < MaxTries
  /\ status' = [status EXCEPT ![v] = "running"]
  /\ tries' = [tries EXCEPT ![v] = @ + 1]
  /\ UNCHANGED ran

\* A pipeline may reach its end even after its try was written off.
RunToEnd(v) ==
  /\ ran' = ran \cup {v}
  /\ UNCHANGED <<status, tries>>

Retry(v) ==
  /\ status[v] = "running"
  /\ status' = [status EXCEPT ![v] = "queued"]
  /\ UNCHANGED <<tries, ran>>

\* Finished VAAs are kept up to a limit: one that finishes may push out others,
\* or not be kept itself.
Finish(v, end, forgotten) ==
  /\ status[v] = "running"
  /\ end = "relayed" => v \in ran
  /\ \A w \in forgotten \ {v} : status[w] \in {"relayed", "dead"}
  /\ status' = [w \in Vaa |-> IF w \in forgotten THEN "unknown"
                              ELSE IF w = v THEN end ELSE status[w]]
  /\ UNCHANGED <<tries, ran>>

CNext ==
  \E v \in Vaa :
    \/ Accept(v) \/ Begin(v) \/ RunToEnd(v) \/ Retry(v)
    \/ \E end \in {"relayed", "dead"}, forgotten \in SUBSET Vaa : Finish(v, end, forgotten)

CSpec == CInit /\ [][CNext]_cvars
=============================================================================
