----------------------------- MODULE MissedVaas -----------------------------
(***************************************************************************)
(* The missed-VAA worker (src/relayer/middleware/missedVaasV3/) for one    *)
(* filter, that is one emitter (chain, address), of one relayer process.   *)
(*                                                                         *)
(* The worker keeps three keys per emitter in Redis: the sorted set "seen" *)
(* of the sequences the relayer has taken in, the sorted set "failed" of   *)
(* those it could not fetch, and the number "safe".  Every run reads safe  *)
(* and the seen sequences from there on, fetches and processes the         *)
(* sequences missing between them, looks ahead of the last one, writes     *)
(* failed and seen back and moves safe.  Meanwhile the spy delivers VAAs,  *)
(* whose Added and Skipped events mark them seen in listeners nobody       *)
(* awaits.                                                                 *)
(*                                                                         *)
(* Runs of different filters share no key and no in-memory state, so one   *)
(* filter is enough.                                                       *)
(***************************************************************************)
EXTENDS Integers, FiniteSets, FiniteSetsExt

CONSTANTS
  MaxSeq,         \* bound: highest sequence the emitter uses
  Filtered,       \* VAAs the app's filters reject: Skipped instead of Added
  PageSize,       \* opts.maxLookAhead, the page size of listVaas
  StartSeqs,      \* values opts.startingSequenceConfig may have for this chain, or None
  HasPrefix,      \* opts.storagePrefix is set: reindex seen from the queue
  ForceReindex,   \* values opts.forceSeenKeysReindex may have at a start
  MaxFaults,      \* bound: failures of Redis, of the RPCs, and crashes
  None            \* undefined / null

Sequence == 0..MaxSeq   \* Wormhole counts an emitter's VAAs from 0

ASSUME ConstantsAssumption ==
  /\ MaxSeq \in Nat
  /\ Filtered \subseteq Sequence
  /\ PageSize \in Nat \ {0} /\ MaxFaults \in Nat
  /\ None \notin Int
  /\ StartSeqs \subseteq Sequence \cup {None}
  /\ HasPrefix \in BOOLEAN /\ ForceReindex \subseteq BOOLEAN

VARIABLES
  startSeq, \* opts.startingSequenceConfig for this chain
  signed,   \* VAAs the guardian RPCs and wormholescan can serve
  handled,  \* VAAs processVaa put in the queue or skipped
  seen, failed, safe,   \* the three Redis keys
  marking,  \* markVaaSeen listeners that have not reached Redis yet
  pc,       \* what the worker does next
  run,      \* the locals of the current run
  faults,   \* failures so far
  threw,    \* history: VAAs whose processVaa rejected inside a run
  lost,     \* history: sequences the keys in Redis lost track of
  base      \* history: where the scans of this index began

redis == <<seen, failed, safe>>
history == <<threw, lost, base>>
vars == <<startSeq, signed, handled, redis, marking, pc, run, faults, history>>

Phase == {"down", "boot", "reindex", "register", "idle", "rank", "range",
          "recover", "ahead", "markFailed", "markSeen", "unmarkFailed", "save"}

\* Locals of a run before it starts.
NoRun == [prevSafe |-> None, start |-> 0, scan |-> {}, missing |-> {},
          todo |-> {}, processed |-> {}, failedToRecover |-> {},
          failedToReprocess |-> {}, page |-> {}, ahead |-> {}, last |-> None]

RunType == [prevSafe : Sequence \cup {None}, start : 0..Cardinality(Sequence),
            scan : SUBSET Sequence, missing : SUBSET Sequence, todo : SUBSET Sequence,
            processed : SUBSET Sequence, failedToRecover : SUBSET Sequence,
            failedToReprocess : SUBSET Sequence, page : SUBSET Sequence,
            ahead : SUBSET Sequence, last : Sequence \cup {None}]

-----------------------------------------------------------------------------
(* What a run computes from what it read.                                  *)

\* zrank: position of a member in the sorted set, null when it is absent;
\* the null becomes the lower bound "0".
RankIn(S, m) == IF m \in S THEN Cardinality({s \in S : s < m}) ELSE 0

\* zrange from a position.
FromRank(S, i) == {s \in S : Cardinality({t \in S : t < s}) >= i}

\* getAllProcessedSeqsInOrder: 0n is falsy, so startSeq = 0 changes nothing.
FromStartSeq(S) ==
  IF startSeq \notin {None, 0} /\ S # {} /\ startSeq > Min(S)
  THEN LET higher == {s \in S : s >= startSeq}
       IN  IF higher # {} /\ Min(higher) > startSeq
           THEN higher \cup {startSeq - 1}
           ELSE higher
  ELSE S

\* The stored safe sequence counts as seen when it lies below all others.
WithPrevSafe(S, prevSafe) ==
  IF S # {} /\ prevSafe # None /\ prevSafe < Min(S) THEN S \cup {prevSafe} ELSE S

\* scanForSequenceLeaps
Leaps(S) == IF S = {} THEN {} ELSE {s \in Min(S)..Max(S) : s \notin S}

\* Mutant: looking ahead skips the sequence after the last.
LookAheadPastNext(S) ==
  IF S = {} THEN startSeq
  ELSE IF startSeq # None THEN Max({Max(S) + 1, startSeq})
  ELSE IF Max(S) = 0 THEN None
  ELSE Max(S) + 1

\* lookAheadSequence: lastSeq = 0n is falsy and falls through to startSeq.
LookAheadFrom(S) ==
  IF S = {} THEN startSeq
  ELSE IF startSeq # None THEN Max({Max(S), startSeq})
  ELSE IF Max(S) = 0 THEN None
  ELSE Max(S)

\* listVaas: the latest PageSize VAAs of the emitter.
Latest(S) == {s \in S : Cardinality({t \in S : t > s}) < PageSize}

\* Mutant: stores the sequence to look for next.
LastSafePlusOne(r, knownFailed) ==
  IF knownFailed # {} THEN Min(knownFailed)
  ELSE IF r.scan # {} THEN Max(r.scan \cup r.ahead) + 1
  ELSE 0

\* calculateLastSafeSequence; knownFailed is {} when reading it failed.
LastSafe(r, knownFailed) ==
  IF knownFailed # {} THEN Min(knownFailed) - 1
  ELSE IF r.missing # {} /\ r.failedToRecover \cup r.failedToReprocess # {}
  THEN Min(r.missing) - 1
  ELSE IF r.ahead # {} THEN Max(r.ahead)
  ELSE IF r.scan # {} THEN Max(r.scan)
  ELSE IF r.prevSafe # None THEN r.prevSafe
  ELSE 0

-----------------------------------------------------------------------------
(* Steps shared by the handlers.                                           *)

Fault == faults < MaxFaults /\ faults' = faults + 1
NoFault == faults' = faults

\* processVaa(s) that returned: the job is in the queue, or a filter rejected
\* it; either way its event starts a markVaaSeen listener.
Take(s) ==
  /\ handled' = handled \cup {s}
  /\ marking' = marking \cup {s}

\* processVaa(s) that rejected: addVaaToQueue threw before or after the job
\* reached Redis, and no event was emitted.
Reject(s) ==
  /\ threw' = threw \cup {s}
  /\ handled' \in {handled} \cup
       IF s \in Filtered THEN {} ELSE {handled \cup {s}}
  /\ UNCHANGED marking

EndRun == pc' = "idle" /\ run' = NoRun

-----------------------------------------------------------------------------
(* The guardians and the spy.                                              *)

\* The guardians sign a VAA: from now on the RPCs return it.  Not every VAA
\* gets its signatures in the order of the sequences.
Sign(s) ==
  /\ s \in Sequence \ signed
  /\ signed' = signed \cup {s}
  /\ UNCHANGED <<startSeq, handled, redis, marking, pc, run, faults, history>>

\* listen() hands a VAA of the spy stream to processVaa.  The stream may lose
\* a VAA or deliver it late; what is already seen changes nothing when it is
\* delivered again, so only unseen ones are.  Until the worker has registered
\* its listeners nobody hears the event.
SpyDeliver(s) ==
  /\ pc # "down" /\ s \in signed \ (seen \cup marking)
  /\ IF pc \in {"boot", "reindex", "register"}
     THEN s \notin handled /\ handled' = handled \cup {s} /\ UNCHANGED marking
     ELSE Take(s)
  /\ UNCHANGED <<startSeq, signed, redis, pc, run, faults, history>>

\* markVaaSeen: zadd, or an error that is logged and swallowed.
MarkVaaSeen(s) ==
  /\ s \in marking
  /\ marking' = marking \ {s}
  /\ \/ seen' = seen \cup {s} /\ NoFault
     \/ seen' = seen /\ Fault
  /\ UNCHANGED <<startSeq, signed, handled, failed, safe, pc, run, history>>

-----------------------------------------------------------------------------
(* Start of the process: spawnMissedVaaWorker once app.filters is there.   *)

Crash ==
  /\ pc # "down" /\ Fault
  /\ pc' = "down" /\ run' = NoRun /\ marking' = {}
  /\ UNCHANGED <<startSeq, signed, handled, redis, history>>

Start ==
  /\ pc = "down"
  /\ pc' = IF HasPrefix THEN "boot" ELSE "register"
  /\ UNCHANGED <<startSeq, signed, handled, redis, marking, run, faults, history>>

\* deleteExistingSeenVAAsData: a pipeline of three dels.  It resolves with the
\* errors of its commands, and nobody looks at them: keys may be kept.  A kept
\* failed set without the seen one is where the next safe sequence comes from,
\* and the next scan begins above what lies below it.
DropIndex ==
  /\ pc = "boot" /\ pc' = "reindex"
  /\ \/ /\ TRUE \in ForceReindex
        /\ \E kept \in SUBSET {"seen", "failed", "safe"} :
            /\ IF kept = {} THEN NoFault ELSE Fault
            /\ seen' = IF "seen" \in kept THEN seen ELSE {}
            /\ failed' = IF "failed" \in kept THEN failed ELSE {}
            /\ safe' = IF "safe" \in kept THEN safe ELSE None
            /\ base' = None
            /\ lost' = IF "failed" \in kept /\ "seen" \notin kept
                       THEN lost \cup UNION {0..(s - 1) : s \in failed} ELSE lost
     \/ FALSE \in ForceReindex /\ UNCHANGED <<redis, faults, base, lost>>
  /\ UNCHANGED <<startSeq, signed, handled, marking, run, threw>>

\* updateSeenSequences: every job the queue still has is seen.  Skipped VAAs
\* left no job, and of the finished ones only the latest are kept.
UpdateSeenSequences ==
  /\ pc = "reindex" /\ pc' = "register"
  /\ \E found \in SUBSET (handled \ Filtered) : seen' = seen \cup found
  /\ UNCHANGED <<startSeq, signed, handled, failed, safe, marking, run, faults, history>>

RegisterEventListeners ==
  /\ pc = "register" /\ pc' = "idle"
  /\ UNCHANGED <<startSeq, signed, handled, redis, marking, run, faults, history>>

-----------------------------------------------------------------------------
(* One run: runMissedVaaCheck and the checkForMissedVaas it awaits.        *)

\* tryGetLastSafeSequence: an error reads as undefined.
ReadSafe ==
  /\ pc = "idle" /\ pc' = "rank"
  /\ \/ run' = [NoRun EXCEPT !.prevSafe = safe] /\ NoFault
     \/ run' = NoRun /\ safe # None /\ Fault
  /\ UNCHANGED <<startSeq, signed, handled, redis, marking, history>>

\* calculateStartingIndex
ReadRank ==
  /\ pc = "rank" /\ pc' = "range"
  /\ run' = [run EXCEPT !.start =
               IF run.prevSafe = None THEN 0 ELSE RankIn(seen, run.prevSafe)]
  /\ UNCHANGED <<startSeq, signed, handled, redis, marking, faults, history>>

\* getAllProcessedSeqsInOrder.  VAAs marked since the rank was read may have
\* moved the position.  Without the safe sequence the scan begins at the first
\* seen one, wherever that is.
ReadSeen ==
  /\ pc = "range" /\ pc' = "recover"
  /\ LET scan == WithPrevSafe(FromStartSeq(FromRank(seen, run.start)), run.prevSafe)
     IN  /\ run' = [run EXCEPT !.scan = scan, !.missing = Leaps(scan), !.todo = Leaps(scan)]
         /\ lost' = IF run.prevSafe = None /\ safe # None /\ scan # {}
                    THEN lost \cup (safe + 1)..(Min(scan) - 1) ELSE lost
  /\ UNCHANGED <<startSeq, signed, handled, redis, marking, faults, threw, base>>

\* One missing sequence: tryFetchVaa finds it and processVaa returns.
RecoverMissing(s) ==
  /\ pc = "recover" /\ s \in run.todo /\ s \in signed
  /\ Take(s)
  /\ run' = [run EXCEPT !.todo = @ \ {s}, !.processed = @ \cup {s}]
  /\ UNCHANGED <<startSeq, signed, redis, pc, faults, history>>

\* The RPCs do not have it, or they fail.
FetchMissingFails(s) ==
  /\ pc = "recover" /\ s \in run.todo
  /\ IF s \in signed THEN Fault ELSE NoFault
  /\ run' = [run EXCEPT !.todo = @ \ {s}, !.failedToRecover = @ \cup {s}]
  /\ UNCHANGED <<startSeq, signed, handled, redis, marking, pc, history>>

ReprocessMissingFails(s) ==
  /\ pc = "recover" /\ s \in run.todo /\ s \in signed /\ Fault
  /\ Reject(s)
  /\ run' = [run EXCEPT !.todo = @ \ {s}, !.failedToReprocess = @ \cup {s}]
  /\ UNCHANGED <<startSeq, signed, redis, pc, lost, base>>

\* lookAhead: no request when there is no sequence to look ahead of.
ListAhead ==
  /\ pc = "recover" /\ run.todo = {}
  /\ LET from == LookAheadFrom(run.scan)
     IN  IF from = None
         THEN pc' = "markFailed" /\ UNCHANGED run
         ELSE /\ pc' = "ahead"
              /\ run' = [run EXCEPT !.page = {s \in Latest(signed) : s > from},
                                    !.last = from]
  /\ UNCHANGED <<startSeq, signed, handled, redis, marking, faults, history>>

\* The loop over the VAAs listed, in the order of their sequences: a gap
\* before one counts as failed to recover.
Visit(s) ==
  /\ pc = "ahead" /\ run.page # {} /\ s = Min(run.page)

\* Mutant: a gap between two VAAs listed is not recorded.
VisitedSkippingGaps(s) ==
  [run EXCEPT !.page = @ \ {s}, !.ahead = @ \cup {s}, !.last = s]

Visited(s) ==
  [run EXCEPT !.page = @ \ {s}, !.ahead = @ \cup {s}, !.last = s,
              !.failedToRecover = @ \cup (run.last + 1)..(s - 1)]

ProcessAhead(s) ==
  /\ Visit(s) /\ Take(s)
  /\ run' = [Visited(s) EXCEPT !.processed = @ \cup {s}]
  /\ UNCHANGED <<startSeq, signed, redis, pc, faults, history>>

\* The error is logged; the VAA joins neither list.
ProcessAheadFails(s) ==
  /\ Visit(s) /\ Fault /\ Reject(s)
  /\ run' = Visited(s)
  /\ UNCHANGED <<startSeq, signed, redis, pc, lost, base>>

EndAhead ==
  /\ pc = "ahead" /\ run.page = {} /\ pc' = "markFailed"
  /\ UNCHANGED <<startSeq, signed, handled, redis, marking, run, faults, history>>

\* batchMarkAsFailedToRecover: a pipeline resolves with the errors of its
\* commands and nobody looks at them, so a lost write goes unnoticed.
MarkFailed ==
  /\ pc = "markFailed" /\ pc' = "markSeen"
  /\ \/ failed' = failed \cup run.failedToRecover /\ NoFault /\ UNCHANGED lost
     \/ /\ run.failedToRecover # {} /\ Fault
        /\ failed' = failed
        /\ lost' = lost \cup run.failedToRecover
  /\ UNCHANGED <<startSeq, signed, handled, seen, safe, marking, run, threw, base>>

\* Mutant: what failed is marked as failed and seen.
MarkSeenAll ==
  /\ pc = "markSeen" /\ pc' = "unmarkFailed"
  /\ seen' = seen \cup run.processed \cup run.failedToRecover
  /\ NoFault
  /\ UNCHANGED <<startSeq, signed, handled, failed, safe, marking, run, history>>

\* batchMarkAsSeen, its first pipeline
MarkSeen ==
  /\ pc = "markSeen" /\ pc' = "unmarkFailed"
  /\ \/ seen' = seen \cup run.processed /\ NoFault
     \/ run.processed # {} /\ seen' = seen /\ Fault
  /\ UNCHANGED <<startSeq, signed, handled, failed, safe, marking, run, history>>

\* Mutant: every missing sequence of the run leaves the failed set.
UnmarkAllMissing ==
  /\ pc = "unmarkFailed" /\ pc' = "save"
  /\ failed' = failed \ run.missing /\ NoFault
  /\ UNCHANGED <<startSeq, signed, handled, seen, safe, marking, run, history>>

\* ... and its second
UnmarkFailed ==
  /\ pc = "unmarkFailed" /\ pc' = "save"
  /\ \/ failed' = failed \ run.processed /\ NoFault
     \/ failed \cap run.processed # {} /\ failed' = failed /\ Fault
  /\ UNCHANGED <<startSeq, signed, handled, seen, safe, marking, run, history>>

\* tryGetExistingFailedSequences, calculateLastSafeSequence and
\* trySetLastSafeSequence.  Only this worker writes failed and safe.
SaveSafe ==
  /\ pc = "save" /\ EndRun
  /\ \/ /\ \/ safe' = LastSafe(run, failed) /\ NoFault
           \/ failed # {} /\ safe' = LastSafe(run, {}) /\ Fault
        /\ base' = IF base # None THEN base
                   ELSE IF run.scan # {} THEN Min(run.scan)
                   ELSE IF run.ahead # {} THEN startSeq
                   ELSE None
     \/ Fault /\ UNCHANGED <<safe, base>>
  /\ UNCHANGED <<startSeq, signed, handled, seen, failed, marking, threw, lost>>

\* A call that throws ends the run: the reads of the rank and the range, and
\* listVaas.  The worker counts a failed run and starts over.
AbortRun ==
  /\ \/ pc \in {"rank", "range"}
     \/ pc = "recover" /\ run.todo = {} /\ LookAheadFrom(run.scan) # None
  /\ Fault /\ EndRun
  /\ UNCHANGED <<startSeq, signed, handled, redis, marking, history>>

-----------------------------------------------------------------------------
Init ==
  /\ startSeq \in StartSeqs
  /\ signed = {} /\ handled = {}
  /\ seen = {} /\ failed = {} /\ safe = None
  /\ marking = {} /\ pc = "down" /\ run = NoRun /\ faults = 0
  /\ threw = {} /\ lost = {} /\ base = None

Worker ==
  \/ Start \/ DropIndex \/ UpdateSeenSequences \/ RegisterEventListeners
  \/ ReadSafe \/ ReadRank \/ ReadSeen
  \/ \E s \in Sequence : RecoverMissing(s) \/ FetchMissingFails(s) \/ ReprocessMissingFails(s)
  \/ ListAhead
  \/ \E s \in Sequence : ProcessAhead(s) \/ ProcessAheadFails(s)
  \/ EndAhead \/ MarkFailed \/ MarkSeen \/ UnmarkFailed \/ SaveSafe \/ AbortRun

Next ==
  \/ \E s \in Sequence : Sign(s) \/ SpyDeliver(s) \/ MarkVaaSeen(s)
  \/ Crash
  \/ Worker

Spec == Init /\ [][Next]_vars

\* The event loop runs every step that is due, listeners included.  Neither
\* the guardians nor the spy owe anything.  Faults and crashes are bounded.
FairSpec ==
  /\ Spec
  /\ WF_vars(Worker)
  /\ \A s \in Sequence : WF_vars(MarkVaaSeen(s))

-----------------------------------------------------------------------------
TypeOK ==
  /\ startSeq \in Sequence \cup {None}
  /\ signed \subseteq Sequence /\ handled \subseteq Sequence
  /\ seen \subseteq Sequence /\ failed \subseteq Sequence /\ safe \in Sequence \cup {None}
  /\ marking \subseteq Sequence
  /\ pc \in Phase /\ run \in RunType /\ faults \in 0..MaxFaults
  /\ threw \subseteq Sequence /\ lost \subseteq Sequence
  /\ base \in Sequence \cup {None}

\* A sequence is marked seen only once its VAA is in the queue or skipped,
\* whatever order listeners, runs, crashes and reindexing take.  A sequence
\* seen too early is never looked for again.
SeenIsHandled == seen \subseteq handled

\* Below the safe sequence nothing is forgotten, except what Redis errors that
\* nobody looks at hide from the scans (a lost mark of a failed fetch, a safe
\* sequence that could not be read, a failed set kept when the index was dropped)
\* and what processVaa rejected inside a run.
SafeCovers ==
  base # None =>
    \A s \in Sequence :
      base < s /\ s <= safe /\ (startSeq = None \/ startSeq < s)
        => s \in handled \cup failed \cup threw \cup lost

\* A sequence that could not be fetched leaves the failed set only after its
\* VAA was taken in, or when the index is dropped on purpose.
FailedUntilHandled ==
  [][\A s \in failed \ failed' : s \in handled \/ pc = "boot"]_vars

\* Liveness: once the relayer has seen a VAA above sequence 0, a signed VAA of
\* the scanned range is eventually taken in, although the spy never delivers
\* it, and through failures that end; excepted are the ways SafeCovers names.
MissedRecovered ==
  \A s \in Sequence :
    /\ s \in signed /\ base # None /\ base < s
    /\ seen # {} /\ Max(seen) > 0
    ~> s \in handled \cup threw \cup lost

-----------------------------------------------------------------------------
(* What the repository says of the worker and the code does not do.        *)

\* metrics.ts:74, the help of missed_vaas_last_safe_sequence: "The max sequence
\* we know that has all VAAs with previous sequences processed".
AllBelowSafeProcessed ==
  base # None => \A s \in Sequence : base < s /\ s <= safe => s \in handled
=============================================================================
