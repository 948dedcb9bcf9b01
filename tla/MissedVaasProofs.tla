-------------------------- MODULE MissedVaasProofs --------------------------
(***************************************************************************)
(* Theorems about the missed-VAA worker, for every number of sequences,    *)
(* page size, starting sequence and number of failures.                    *)
(***************************************************************************)
EXTENDS MissedVaas, FiniteSetTheorems, WellFoundedInduction, TLAPS

-----------------------------------------------------------------------------
(* Sets of sequences.                                                      *)

\* Redis returns a sorted set in order: its first member is its least.
LEMMA MinOfSeqs ==
  ASSUME NEW S \in SUBSET Sequence, S # {}
  PROVE  Min(S) \in S /\ \A x \in S : Min(S) <= x
<1>1. S \subseteq Nat
  BY ConstantsAssumption DEF Sequence
<1>2. PICK x \in S : \A y \in S : <<y, x>> \notin OpToRel(<, Nat)
  BY <1>1, NatLessThanWellFounded, WFMin
<1>3. \A y \in S : x <= y
  <2> SUFFICES ASSUME NEW y \in S  PROVE x <= y
    OBVIOUS
  <2>1. x \in Nat /\ y \in Nat
    BY <1>1
  <2>2. ~(y < x)
    BY <1>2, <2>1 DEF OpToRel
  <2> QED BY <2>1, <2>2
<1> QED BY <1>3 DEF Min

\* ... and its last the greatest.
LEMMA MaxOfSeqs ==
  ASSUME NEW S \in SUBSET Sequence, S # {}
  PROVE  Max(S) \in S /\ \A x \in S : x <= Max(S)
<1> DEFINE R == {MaxSeq - x : x \in S}
<1>1. R \in SUBSET Sequence /\ R # {}
  <2>1. \A x \in S : MaxSeq - x \in Sequence
    BY ConstantsAssumption DEF Sequence
  <2>2. R \in SUBSET Sequence
    BY <2>1
  <2>3. PICK x \in S : TRUE
    OBVIOUS
  <2> QED BY <2>2, <2>3
<1>2. Min(R) \in R /\ \A y \in R : Min(R) <= y
  BY <1>1, MinOfSeqs
<1>3. PICK x \in S : Min(R) = MaxSeq - x
  BY <1>2
<1>4. \A y \in S : x >= y
  <2> SUFFICES ASSUME NEW y \in S  PROVE x >= y
    OBVIOUS
  <2>1. MaxSeq - x <= MaxSeq - y
    BY <1>2, <1>3
  <2> QED BY <2>1, ConstantsAssumption DEF Sequence
<1> QED BY <1>4, ConstantsAssumption DEF Max, Sequence

LEMMA RankType ==
  ASSUME NEW S \in SUBSET Sequence, NEW m
  PROVE  RankIn(S, m) \in 0..Cardinality(Sequence)
<1> DEFINE T == {s \in S : s < m}
<1>1. IsFiniteSet(Sequence)
  BY FS_Interval, ConstantsAssumption DEF Sequence
<1>2. T \in SUBSET Sequence
  OBVIOUS
<1>3. Cardinality(Sequence) \in Nat
  BY <1>1, FS_CardinalityType
<1>4. Cardinality(T) \in Nat /\ Cardinality(T) <= Cardinality(Sequence)
  BY <1>1, <1>2, FS_Subset, FS_CardinalityType
<1> QED BY <1>3, <1>4 DEF RankIn

-----------------------------------------------------------------------------
(* What a run computes.                                                    *)

Later == 1..MaxSeq   \* sequences that can be missing: those after the first

LEMMA LeapsType ==
  ASSUME NEW S \in SUBSET Sequence
  PROVE  Leaps(S) \in SUBSET Later
<1>1. CASE S = {}
  BY <1>1 DEF Leaps
<1>2. CASE S # {}
  <2>1. Min(S) \in Sequence /\ Max(S) \in Sequence
    BY <1>2, MinOfSeqs, MaxOfSeqs
  <2>2. Min(S) \in S
    BY <1>2, MinOfSeqs
  <2> SUFFICES ASSUME NEW s \in Min(S)..Max(S), s \notin S  PROVE s \in Later
    BY <1>2 DEF Leaps
  <2> QED BY <2>1, <2>2, ConstantsAssumption DEF Sequence, Later
<1> QED BY <1>1, <1>2

LEMMA ScanType ==
  ASSUME NEW S \in SUBSET Sequence, NEW i, NEW p \in Sequence \cup {None},
         startSeq \in Sequence \cup {None}
  PROVE  WithPrevSafe(FromStartSeq(FromRank(S, i)), p) \in SUBSET Sequence
<1> DEFINE R == FromRank(S, i)
<1>1. R \in SUBSET Sequence
  BY DEF FromRank
<1> HIDE DEF R
<1>2. FromStartSeq(R) \in SUBSET Sequence
  <2>1. CASE startSeq \in {None, 0}
    BY <1>1, <2>1 DEF FromStartSeq
  <2>2. CASE startSeq \notin {None, 0}
    <3>1. startSeq - 1 \in Sequence
      BY <2>2, ConstantsAssumption DEF Sequence
    <3> QED BY <1>1, <3>1 DEF FromStartSeq
  <2> QED BY <2>1, <2>2
<1> QED BY <1>2 DEF R, WithPrevSafe

LEMMA LookAheadFromType ==
  ASSUME NEW S \in SUBSET Sequence, startSeq \in Sequence \cup {None}
  PROVE  LookAheadFrom(S) \in Sequence \cup {None}
<1>1. CASE S = {}
  BY <1>1, ConstantsAssumption DEF LookAheadFrom
<1>2. CASE S # {}
  <2>1. Max(S) \in Sequence
    BY <1>2, MaxOfSeqs
  <2>2. startSeq # None => Max({Max(S), startSeq}) \in Sequence
    <3> SUFFICES ASSUME startSeq # None  PROVE Max({Max(S), startSeq}) \in Sequence
      OBVIOUS
    <3>1. {Max(S), startSeq} \in SUBSET Sequence /\ {Max(S), startSeq} # {}
      BY <2>1, ConstantsAssumption
    <3> QED BY <3>1, MaxOfSeqs
  <2> QED BY <1>2, <2>1, <2>2 DEF LookAheadFrom
<1> QED BY <1>1, <1>2

\* The safe sequence never becomes negative, although it is often computed as
\* one less than another.
LEMMA LastSafeType ==
  ASSUME NEW r \in RunType, NEW F \in SUBSET Later, r.missing \subseteq Later
  PROVE  LastSafe(r, F) \in Sequence
<1>1. \A S \in SUBSET Later : S # {} => Min(S) - 1 \in Sequence
  <2> SUFFICES ASSUME NEW S \in SUBSET Later, S # {}  PROVE Min(S) - 1 \in Sequence
    OBVIOUS
  <2>1. S \in SUBSET Sequence
    BY ConstantsAssumption DEF Sequence, Later
  <2>2. Min(S) \in S
    BY <2>1, MinOfSeqs
  <2>3. Min(S) \in Later
    BY <2>2
  <2> QED BY <2>3, ConstantsAssumption DEF Sequence, Later
<1>2. F # {} => Min(F) - 1 \in Sequence
  BY <1>1
<1>3. r.missing # {} => Min(r.missing) - 1 \in Sequence
  BY <1>1
<1>4. r.ahead # {} => Max(r.ahead) \in Sequence
  BY MaxOfSeqs DEF RunType
<1>5. r.scan # {} => Max(r.scan) \in Sequence
  BY MaxOfSeqs DEF RunType
<1>6. r.prevSafe \in Sequence \cup {None} /\ 0 \in Sequence
  BY ConstantsAssumption DEF RunType, Sequence
<1> QED BY <1>2, <1>3, <1>4, <1>5, <1>6 DEF LastSafe

LEMMA NoRunType == NoRun \in RunType
<1>1. Cardinality(Sequence) \in Nat
  BY FS_Interval, FS_CardinalityType, ConstantsAssumption DEF Sequence
<1> QED BY <1>1 DEF NoRun, RunType

-----------------------------------------------------------------------------
(* Types.                                                                  *)

\* TypeOK is not inductive: safe stays a sequence because what is missing or
\* failed lies above a seen one, and a visit knows the sequence before it.
TypeInv ==
  /\ TypeOK
  /\ failed \subseteq Later
  /\ run.missing \subseteq Later /\ run.todo \subseteq Later
  /\ run.failedToRecover \subseteq Later
  /\ pc = "ahead" => run.last \in Sequence

LEMMA TypeStep == TypeInv /\ [Next]_vars => TypeInv'
<1> SUFFICES ASSUME TypeInv, [Next]_vars  PROVE TypeInv'
  OBVIOUS
<1> USE DEF redis, history, Fault, NoFault, Phase
<1>1. Later \subseteq Sequence /\ MaxFaults \in Nat
  BY ConstantsAssumption DEF Later, Sequence
<1>2. /\ NoRun \in RunType
      /\ NoRun.missing = {} /\ NoRun.todo = {} /\ NoRun.failedToRecover = {}
  BY NoRunType DEF NoRun
<1>3. ASSUME NEW s \in Sequence, Sign(s) \/ SpyDeliver(s) \/ MarkVaaSeen(s)
      PROVE  TypeInv'
  BY <1>1, <1>3 DEF TypeInv, TypeOK, Sign, SpyDeliver, MarkVaaSeen, Take
<1>4. ASSUME Crash \/ Start \/ RegisterEventListeners  PROVE TypeInv'
  BY <1>1, <1>2, <1>4 DEF TypeInv, TypeOK, Crash, Start, RegisterEventListeners
<1>5. ASSUME DropIndex \/ UpdateSeenSequences  PROVE TypeInv'
  <2>1. CASE DropIndex
    <3>1. /\ seen' \in {seen, {}} /\ failed' \in {failed, {}} /\ safe' \in {safe, None}
          /\ base' \in {base, None}
          /\ faults' = faults \/ (faults < MaxFaults /\ faults' = faults + 1)
      BY <2>1 DEF DropIndex
    <3>2. /\ pc' = "reindex"
          /\ UNCHANGED <<startSeq, signed, handled, marking, run, threw>>
      BY <2>1 DEF DropIndex
    <3>3. UNION {0..(s - 1) : s \in failed} \subseteq Sequence
      BY <1>1, ConstantsAssumption DEF TypeInv, Sequence, Later
    <3>4. lost' \subseteq Sequence
      BY <2>1, <3>3 DEF DropIndex, TypeInv, TypeOK
    <3> QED BY <1>1, <3>1, <3>2, <3>4 DEF TypeInv, TypeOK
  <2>2. CASE UpdateSeenSequences
    BY <2>2 DEF TypeInv, TypeOK, UpdateSeenSequences
  <2> QED BY <1>5, <2>1, <2>2
<1>6. CASE ReadSafe
  <2>1. \A p \in Sequence \cup {None} :
          LET r == [NoRun EXCEPT !.prevSafe = p]
          IN  /\ r \in RunType
              /\ r.missing = {} /\ r.todo = {} /\ r.failedToRecover = {}
    BY <1>2 DEF RunType
  <2>2. \E p \in Sequence \cup {None} : run' = [NoRun EXCEPT !.prevSafe = p]
    <3>1. run' = [NoRun EXCEPT !.prevSafe = safe] \/ run' = NoRun
      BY <1>6 DEF ReadSafe
    <3>2. NoRun = [NoRun EXCEPT !.prevSafe = None]
      BY DEF NoRun
    <3> QED BY <3>1, <3>2 DEF TypeInv, TypeOK
  <2>3. /\ run' \in RunType
        /\ run'.missing = {} /\ run'.todo = {} /\ run'.failedToRecover = {}
    BY <2>1, <2>2
  <2> QED BY <1>1, <1>6, <2>3 DEF TypeInv, TypeOK, ReadSafe
<1>7. CASE ReadRank
  <2>1. run'.start \in 0..Cardinality(Sequence)
    BY <1>2, <1>7, RankType DEF TypeInv, TypeOK, ReadRank, RunType, NoRun
  <2> QED BY <1>7, <2>1 DEF TypeInv, TypeOK, ReadRank, RunType
<1>8. CASE ReadSeen
  <2> DEFINE scan == WithPrevSafe(FromStartSeq(FromRank(seen, run.start)), run.prevSafe)
  <2>1. scan \in SUBSET Sequence
    BY ScanType DEF TypeInv, TypeOK, RunType
  <2>2. Leaps(scan) \in SUBSET Later
    BY <2>1, LeapsType
  <2>3. run' = [run EXCEPT !.scan = scan, !.missing = Leaps(scan), !.todo = Leaps(scan)]
    BY <1>8 DEF ReadSeen
  <2>5. lost' \subseteq Sequence
    <3>1. lost' = lost \/ (/\ safe # None /\ scan # {}
                          /\ lost' = lost \cup (safe + 1)..(Min(scan) - 1))
      BY <1>8 DEF ReadSeen
    <3> HIDE DEF scan
    <3>2. ASSUME safe # None, scan # {}
          PROVE  (safe + 1)..(Min(scan) - 1) \subseteq Sequence
      <4>1. safe \in Sequence /\ Min(scan) \in Sequence
        BY <2>1, <3>2, MinOfSeqs DEF TypeInv, TypeOK
      <4> QED BY <4>1, ConstantsAssumption DEF Sequence
    <3> QED BY <3>1, <3>2 DEF TypeInv, TypeOK
  <2> HIDE DEF scan
  <2>4. /\ run' \in RunType
        /\ run'.missing = Leaps(scan) /\ run'.todo = Leaps(scan)
        /\ run'.failedToRecover = run.failedToRecover
    BY <1>1, <2>1, <2>2, <2>3 DEF TypeInv, TypeOK, RunType
  <2> QED BY <1>1, <1>8, <2>2, <2>4, <2>5 DEF TypeInv, TypeOK, ReadSeen
<1>9. ASSUME NEW s \in Sequence,
             RecoverMissing(s) \/ FetchMissingFails(s) \/ ReprocessMissingFails(s)
      PROVE  TypeInv'
  <2>1. CASE RecoverMissing(s)
    BY <2>1 DEF TypeInv, TypeOK, RecoverMissing, Take, RunType
  <2>2. CASE FetchMissingFails(s)
    <3>1. s \in Later /\ pc' = pc /\ faults' \in 0..MaxFaults
      BY <1>1, <2>2 DEF TypeInv, TypeOK, FetchMissingFails
    <3>2. /\ run' \in RunType
          /\ run'.missing = run.missing /\ run'.todo = run.todo \ {s}
          /\ run'.failedToRecover = run.failedToRecover \cup {s}
          /\ run'.last = run.last
      BY <2>2 DEF TypeInv, TypeOK, FetchMissingFails, RunType
    <3> QED BY <2>2, <3>1, <3>2 DEF TypeInv, TypeOK, FetchMissingFails
  <2>3. CASE ReprocessMissingFails(s)
    <3>1. pc' = pc /\ faults' \in 0..MaxFaults
      BY <1>1, <2>3 DEF TypeInv, TypeOK, ReprocessMissingFails
    <3>2. /\ run' \in RunType
          /\ run'.missing = run.missing /\ run'.todo = run.todo \ {s}
          /\ run'.failedToRecover = run.failedToRecover
          /\ run'.last = run.last
      BY <2>3 DEF TypeInv, TypeOK, ReprocessMissingFails, RunType
    <3>3. handled' \subseteq Sequence /\ threw' \subseteq Sequence
      BY <2>3 DEF TypeInv, TypeOK, ReprocessMissingFails, Reject
    <3> QED BY <2>3, <3>1, <3>2, <3>3 DEF TypeInv, TypeOK, ReprocessMissingFails, Reject
  <2> QED BY <1>9, <2>1, <2>2, <2>3
<1>10. CASE ListAhead
  <2> DEFINE from == LookAheadFrom(run.scan)
  <2>1. from \in Sequence \cup {None}
    BY LookAheadFromType DEF TypeInv, TypeOK, RunType
  <2>2. {s \in Latest(signed) : s > from} \in SUBSET Sequence
    BY DEF TypeInv, TypeOK, Latest
  <2> DEFINE page == {s \in Latest(signed) : s > from}
  <2>3. \/ pc' = "markFailed" /\ UNCHANGED run
        \/ /\ pc' = "ahead" /\ from # None
           /\ run' = [run EXCEPT !.page = page, !.last = from]
    BY <1>10 DEF ListAhead
  <2> HIDE DEF from, page
  <2>4. page \in SUBSET Sequence
    BY <2>2 DEF page, from
  <2> QED BY <1>10, <2>1, <2>3, <2>4 DEF TypeInv, TypeOK, ListAhead, RunType
<1>11. ASSUME NEW s \in Sequence, ProcessAhead(s) \/ ProcessAheadFails(s)
       PROVE  TypeInv'
  <2>1. /\ pc = "ahead" /\ pc' = pc /\ run.last \in Sequence
        /\ run' = Visited(s) \/ run' = [Visited(s) EXCEPT !.processed = @ \cup {s}]
    BY <1>11 DEF TypeInv, ProcessAhead, ProcessAheadFails, Visit
  <2>2. (run.last + 1)..(s - 1) \subseteq Later
    BY <2>1, ConstantsAssumption DEF Sequence, Later
  <2>3. /\ run' \in RunType
        /\ run'.missing = run.missing /\ run'.todo = run.todo
        /\ run'.failedToRecover = run.failedToRecover \cup (run.last + 1)..(s - 1)
        /\ run'.last = s
    <3> DEFINE gap == run.failedToRecover \cup (run.last + 1)..(s - 1)
    <3>1. gap \in SUBSET Sequence
      BY <1>1, <2>2 DEF TypeInv, TypeOK, RunType
    <3>2. Visited(s) = [run EXCEPT !.page = @ \ {s}, !.ahead = @ \cup {s}, !.last = s,
                                   !.failedToRecover = gap]
      BY DEF Visited
    <3> HIDE DEF gap
    <3>3. /\ Visited(s) \in RunType
          /\ Visited(s).missing = run.missing /\ Visited(s).todo = run.todo
          /\ Visited(s).failedToRecover = gap /\ Visited(s).last = s
      <4> DEFINE page == run.page \ {s}
                 ahead == run.ahead \cup {s}
                 v == [run EXCEPT !.page = page, !.ahead = ahead, !.last = s,
                                  !.failedToRecover = gap]
      <4>1. run \in RunType /\ page \in SUBSET Sequence /\ ahead \in SUBSET Sequence
        BY DEF TypeInv, TypeOK, RunType
      <4>2. Visited(s) = v
        BY <3>2
      <4> HIDE DEF page, ahead
      <4>3. /\ v \in RunType
            /\ v.missing = run.missing /\ v.todo = run.todo
            /\ v.failedToRecover = gap /\ v.last = s
        BY <3>1, <4>1 DEF RunType
      <4> QED BY <4>2, <4>3
    <3> QED BY <2>1, <3>3 DEF gap, RunType
  <2> QED BY <1>1, <1>11, <2>1, <2>2, <2>3
      DEF TypeInv, TypeOK, ProcessAhead, ProcessAheadFails, Take, Reject
<1>12. CASE EndAhead
  BY <1>12 DEF TypeInv, TypeOK, EndAhead
<1>13. ASSUME MarkFailed \/ MarkSeen \/ UnmarkFailed  PROVE TypeInv'
  BY <1>1, <1>13 DEF TypeInv, TypeOK, RunType, MarkFailed, MarkSeen, UnmarkFailed
<1>14. CASE SaveSafe
  <2>1. LastSafe(run, failed) \in Sequence /\ LastSafe(run, {}) \in Sequence
    BY LastSafeType DEF TypeInv, TypeOK
  <2>2. run.scan # {} => Min(run.scan) \in Sequence
    BY MinOfSeqs DEF TypeInv, TypeOK, RunType
  <2>3. startSeq \in Sequence \cup {None} /\ run.failedToReprocess \in SUBSET Sequence
    BY DEF TypeInv, TypeOK, RunType
  <2>4. safe' \in Sequence \cup {None} /\ base' \in Sequence \cup {None}
    BY <1>14, <2>1, <2>2, <2>3 DEF TypeInv, TypeOK, SaveSafe
  <2> QED BY <1>1, <1>2, <1>14, <2>3, <2>4 DEF TypeInv, TypeOK, SaveSafe, EndRun
<1>15. CASE AbortRun
  BY <1>1, <1>2, <1>15 DEF TypeInv, TypeOK, AbortRun, EndRun
<1>16. CASE UNCHANGED vars
  BY <1>16 DEF TypeInv, TypeOK, vars
<1> QED
  BY <1>3, <1>4, <1>5, <1>6, <1>7, <1>8, <1>9, <1>10, <1>11, <1>12, <1>13,
     <1>14, <1>15, <1>16 DEF Next, Worker

\* Type correctness; in particular the safe sequence, which the code computes
\* by subtracting one, is never negative (helpers.ts calculateLastSafeSequence).
THEOREM TypeCorrect == Spec => []TypeOK
<1>1. Init => TypeInv
  BY NoRunType, ConstantsAssumption DEF Init, TypeInv, TypeOK, NoRun, Phase
<1>2. TypeInv => TypeOK
  BY DEF TypeInv
<1> QED BY <1>1, <1>2, TypeStep, PTL DEF Spec

-----------------------------------------------------------------------------
(* Nothing is marked as seen before it was taken in.                       *)

\* The marks on their way, of listeners and of a run, are backed as well.
SeenInv ==
  /\ TypeOK
  /\ seen \subseteq handled /\ marking \subseteq handled
  /\ run.processed \subseteq handled

LEMMA SeenStep == SeenInv /\ TypeOK' /\ [Next]_vars => SeenInv'
<1> SUFFICES ASSUME SeenInv, TypeOK', [Next]_vars  PROVE SeenInv'
  OBVIOUS
<1> USE DEF redis, history
<1>1. handled \subseteq handled'
  BY DEF Next, Worker, vars, Sign, SpyDeliver, MarkVaaSeen, Crash, Start, DropIndex,
         UpdateSeenSequences, RegisterEventListeners, ReadSafe, ReadRank, ReadSeen,
         RecoverMissing, FetchMissingFails, ReprocessMissingFails, ListAhead,
         ProcessAhead, ProcessAheadFails, EndAhead, MarkFailed, MarkSeen, UnmarkFailed,
         SaveSafe, AbortRun, Take, Reject
<1>2. ASSUME NEW s \in Sequence, SpyDeliver(s) \/ MarkVaaSeen(s)  PROVE SeenInv'
  BY <1>1, <1>2 DEF SeenInv, SpyDeliver, MarkVaaSeen, Take
<1>3. ASSUME DropIndex \/ UpdateSeenSequences \/ MarkSeen  PROVE SeenInv'
  BY <1>3 DEF SeenInv, DropIndex, UpdateSeenSequences, MarkSeen
<1>4. ASSUME Crash \/ SaveSafe \/ AbortRun  PROVE SeenInv'
  BY <1>4 DEF SeenInv, Crash, SaveSafe, AbortRun, EndRun, NoRun
<1>5. CASE ReadSafe
  <2>1. NoRun \in RunType /\ NoRun.processed = {}
    BY NoRunType DEF NoRun
  <2>2. run'.processed = {}
    BY <1>5, <2>1 DEF ReadSafe, RunType
  <2> QED BY <1>5, <2>2 DEF SeenInv, ReadSafe
<1>6. ASSUME NEW s \in Sequence, RecoverMissing(s) \/ ProcessAhead(s)  PROVE SeenInv'
  <2>1. run'.processed = run.processed \cup {s}
    BY <1>6 DEF SeenInv, TypeOK, RunType, RecoverMissing, ProcessAhead, Visited
  <2> QED BY <1>6, <2>1 DEF SeenInv, RecoverMissing, ProcessAhead, Take
<1>7. ASSUME NEW s \in Sequence, FetchMissingFails(s) \/ ReprocessMissingFails(s)
      PROVE  SeenInv'
  <2>1. run'.processed = run.processed
    BY <1>7 DEF SeenInv, TypeOK, RunType, FetchMissingFails, ReprocessMissingFails
  <2> QED BY <1>1, <1>7, <2>1 DEF SeenInv, FetchMissingFails, ReprocessMissingFails, Reject
<1>8. ASSUME NEW s \in Sequence, ProcessAheadFails(s)  PROVE SeenInv'
  <2>1. run'.processed = run.processed
    BY <1>8 DEF SeenInv, TypeOK, RunType, ProcessAheadFails, Visited
  <2> QED BY <1>1, <1>8, <2>1 DEF SeenInv, ProcessAheadFails, Reject
<1>9. ASSUME ReadRank \/ ReadSeen \/ ListAhead  PROVE SeenInv'
  <2>1. run'.processed = run.processed
    BY <1>9 DEF SeenInv, TypeOK, RunType, ReadRank, ReadSeen, ListAhead
  <2> QED BY <1>9, <2>1 DEF SeenInv, ReadRank, ReadSeen, ListAhead
<1>10. ASSUME \/ \E s \in Sequence : Sign(s)
              \/ Start \/ RegisterEventListeners
              \/ EndAhead \/ MarkFailed \/ UnmarkFailed \/ UNCHANGED vars
       PROVE  SeenInv'
  BY <1>10 DEF SeenInv, Sign, Start, RegisterEventListeners, EndAhead, MarkFailed,
               UnmarkFailed, vars
<1> QED
  BY <1>2, <1>3, <1>4, <1>5, <1>6, <1>7, <1>8, <1>9, <1>10 DEF Next, Worker

LEMMA SeenInvariant == Spec => []SeenInv
<1>1. Init => SeenInv
  BY NoRunType, ConstantsAssumption DEF Init, SeenInv, TypeOK, NoRun, Phase
<1> QED BY <1>1, SeenStep, TypeCorrect, PTL DEF Spec

\* The worker never believes a VAA seen that is neither in the queue nor
\* skipped: a mark (storage.ts markVaaAsSeen, batchMarkAsSeen,
\* updateSeenSequences) always comes after processVaa, whatever is lost,
\* delayed or restarted in between.
THEOREM SeenIsBacked == Spec => []SeenIsHandled
<1>1. SeenInv => SeenIsHandled
  BY DEF SeenInv, SeenIsHandled
<1> QED BY <1>1, SeenInvariant, PTL

\* What was recorded as failed stays recorded until its VAA is taken in, in
\* every run and after every restart (storage.ts batchMarkAsSeen).
THEOREM FailedStaysUntilHandled == Spec => FailedUntilHandled
<1> DEFINE Kept == \A s \in failed \ failed' : s \in handled \/ pc = "boot"
<1>1. SeenInv /\ [Next]_vars => [Kept]_vars
  <2> SUFFICES ASSUME SeenInv, Next  PROVE Kept
    BY DEF vars
  <2> USE DEF redis, history
  <2>1. CASE DropIndex
    BY <2>1 DEF DropIndex
  <2>2. CASE UnmarkFailed
    BY <2>2 DEF UnmarkFailed, SeenInv
  <2>3. CASE MarkFailed
    BY <2>3 DEF MarkFailed
  <2>4. ~DropIndex /\ ~UnmarkFailed /\ ~MarkFailed => failed' = failed
    BY DEF Next, Worker, Sign, SpyDeliver, MarkVaaSeen, Crash, Start,
           UpdateSeenSequences, RegisterEventListeners, ReadSafe, ReadRank, ReadSeen,
           RecoverMissing, FetchMissingFails, ReprocessMissingFails, ListAhead,
           ProcessAhead, ProcessAheadFails, EndAhead, MarkSeen, SaveSafe, AbortRun
  <2> QED BY <2>1, <2>2, <2>3, <2>4
<1> QED BY <1>1, SeenInvariant, PTL DEF Spec, FailedUntilHandled

-----------------------------------------------------------------------------
(* Nothing is forgotten below the safe sequence.                           *)

Scanned == {"recover", "ahead", "markFailed", "markSeen", "unmarkFailed", "save"}
Looked == Scanned \ {"recover"}
Marked == {"markSeen", "unmarkFailed", "save"}

Known == handled \cup failed \cup threw \cup lost

InRange(s) == startSeq = None \/ startSeq < s

Covered(a, b) == \A s \in Sequence : a < s /\ s <= b /\ InRange(s) => s \in Known

\* Why a failed sequence lies below the sequences known in the end: all below it
\* are lost, or a look-ahead will come as far as a signed one above it.
LostBelow(f) == \A s \in Sequence : s < f => s \in lost

Looks == startSeq # None \/ \E x \in seen : x > 0

Overtaken(f) == \E m \in signed : f < m

From == LookAheadFrom(run.scan)

\* The sequences the run is through with.
Done == handled \cup threw \cup run.failedToRecover

KeysInv ==
  /\ handled \subseteq signed
  /\ \A f \in failed : LostBelow(f) \/ (Looks /\ Overtaken(f))
  /\ base # None => safe # None /\ Covered(base, safe)
  /\ base # None => \A f \in failed : Covered(base, f)

PrevInv == pc \in Scanned \cup {"rank", "range"} => run.prevSafe \in {None, safe}

\* The scan will reach the greatest sequence seen.
RankInv ==
  pc = "range" =>
    run.start = 0 \/ \E p \in seen : run.start <= Cardinality({t \in seen : t < p})

\* A run begins with nothing in hand.
FreshInv ==
  pc \in {"rank", "range"} =>
    run.last = None /\ run.ahead = {} /\ run.page = {} /\ run.failedToRecover = {}

ScanInv ==
  pc \in Scanned =>
    /\ run.missing = Leaps(run.scan)
    /\ run.scan # {} =>
         /\ Max(run.scan) \in seen
         /\ base # None => Covered(base, Min(run.scan))
         /\ \A s \in run.scan :
              s \in seen \/ s = Min(run.scan) \/ (startSeq # None /\ s < startSeq)

TodoInv ==
  pc \in Scanned =>
    /\ run.missing \subseteq run.todo \cup Done
    /\ run.todo \subseteq run.missing
    /\ pc \in Looked => run.todo = {}
    /\ \A f \in run.failedToRecover : Looks /\ Overtaken(f)

RecoverInv ==
  pc = "recover" =>
    /\ run.last = None /\ run.ahead = {} /\ run.page = {}
    /\ run.failedToRecover \subseteq run.missing
    /\ \A f \in failed : LostBelow(f) \/ (From # None /\ Overtaken(f))

AheadInv ==
  pc \in Looked =>
    /\ pc = "ahead" => run.last # None
    /\ pc # "ahead" => run.page = {}
    /\ run.last = None => run.ahead = {} /\ run.failedToRecover = {} /\ From = None
    /\ run.last # None =>
         /\ From # None /\ From <= run.last
         /\ \A s \in Sequence : From < s /\ s <= run.last => s \in Done
         /\ \A a \in run.ahead : a <= run.last
         /\ \A p \in run.page : p > run.last /\ p \in signed
         /\ \A f \in run.failedToRecover : f <= run.last
    /\ \A f \in failed :
         LostBelow(f) \/ (run.last # None /\ (f <= run.last \/ \E p \in run.page : f <= p))

MarkInv == pc \in Marked => run.failedToRecover \subseteq failed \cup lost \cup handled

RunInv ==
  PrevInv /\ RankInv /\ FreshInv /\ ScanInv /\ TodoInv /\ RecoverInv /\ AheadInv /\ MarkInv

\* What no step takes back.
Grows ==
  /\ startSeq' = startSeq /\ signed \subseteq signed' /\ handled \subseteq handled'
  /\ threw \subseteq threw' /\ lost \subseteq lost'

SameKeys == failed' = failed /\ safe' = safe /\ base' = base /\ seen \subseteq seen'

LEMMA StepGrows ==
  ASSUME [Next]_vars, TypeOK, handled \subseteq signed,
         pc = "ahead" => run.page \subseteq signed
  PROVE  Grows /\ handled' \subseteq signed'
<1> USE DEF Grows, redis, history
<1>1. ASSUME NEW s \in Sequence, Sign(s) \/ SpyDeliver(s) \/ MarkVaaSeen(s)
      PROVE  Grows /\ handled' \subseteq signed'
  BY <1>1 DEF Sign, SpyDeliver, MarkVaaSeen, Take
<1>2. ASSUME NEW s \in Sequence,
             RecoverMissing(s) \/ FetchMissingFails(s) \/ ReprocessMissingFails(s)
      PROVE  Grows /\ handled' \subseteq signed'
  BY <1>2 DEF RecoverMissing, FetchMissingFails, ReprocessMissingFails, Take, Reject
<1>3. ASSUME NEW s \in Sequence, ProcessAhead(s) \/ ProcessAheadFails(s)
      PROVE  Grows /\ handled' \subseteq signed'
  <2>1. pc = "ahead" /\ run.page # {} /\ s = Min(run.page) /\ run.page \in SUBSET Sequence
    BY <1>3 DEF ProcessAhead, ProcessAheadFails, Visit, TypeOK, RunType
  <2>2. s \in signed
    BY <2>1, MinOfSeqs
  <2> QED BY <1>3, <2>2 DEF ProcessAhead, ProcessAheadFails, Take, Reject
<1>4. ASSUME Crash \/ Start \/ DropIndex \/ UpdateSeenSequences \/ RegisterEventListeners
      PROVE  Grows /\ handled' \subseteq signed'
  BY <1>4 DEF Crash, Start, DropIndex, UpdateSeenSequences, RegisterEventListeners
<1>5. ASSUME ReadSafe \/ ReadRank \/ ReadSeen \/ ListAhead \/ EndAhead
      PROVE  Grows /\ handled' \subseteq signed'
  BY <1>5 DEF ReadSafe, ReadRank, ReadSeen, ListAhead, EndAhead
<1>6. ASSUME MarkFailed \/ MarkSeen \/ UnmarkFailed \/ SaveSafe \/ AbortRun
      PROVE  Grows /\ handled' \subseteq signed'
  BY <1>6 DEF MarkFailed, MarkSeen, UnmarkFailed, SaveSafe, AbortRun
<1>7. CASE UNCHANGED vars
  BY <1>7 DEF vars
<1> QED BY <1>1, <1>2, <1>3, <1>4, <1>5, <1>6, <1>7 DEF Next, Worker

LEMMA KeysKept ==
  ASSUME KeysInv, Grows, SameKeys, handled' \subseteq signed'
  PROVE  KeysInv'
<1> USE DEF Grows, SameKeys
<1>1. Known \subseteq Known'
  BY DEF Known
<1>2. \A a, b : Covered(a, b) => Covered(a, b)'
  BY <1>1 DEF Covered, InRange
<1>3. \A f : LostBelow(f) => LostBelow(f)'
  BY DEF LostBelow
<1>4. (Looks => Looks') /\ \A f : Overtaken(f) => Overtaken(f)'
  BY DEF Looks, Overtaken
<1>5. base # None => safe # None /\ Covered(base, safe)'
  BY <1>2 DEF KeysInv
<1>6. base # None => \A f \in failed : Covered(base, f)'
  BY <1>2 DEF KeysInv
<1> QED BY <1>3, <1>4, <1>5, <1>6 DEF KeysInv, Covered

\* What a run knows stays true while others act.
LEMMA RunKept ==
  ASSUME TypeOK, TypeOK', KeysInv, RunInv, Grows, SameKeys, run' = run, pc' = pc
  PROVE  RunInv'
<1> USE DEF Grows, SameKeys
<1>1. Known \subseteq Known' /\ Done \subseteq Done' /\ From' = From
  BY DEF Known, Done, From, LookAheadFrom
<1>2. \A a, b : Covered(a, b) => Covered(a, b)'
  BY <1>1 DEF Covered, InRange
<1>3. \A f : LostBelow(f) => LostBelow(f)'
  BY DEF LostBelow
<1>4. (Looks => Looks') /\ \A f : Overtaken(f) => Overtaken(f)'
  BY DEF Looks, Overtaken
<1>5. PrevInv'
  BY DEF RunInv, PrevInv
<1>6. RankInv'
  <2> SUFFICES ASSUME pc = "range", NEW p \in seen,
                      run.start <= Cardinality({t \in seen : t < p})
               PROVE  \E q \in seen' : run.start <= Cardinality({t \in seen' : t < q})
    BY DEF RunInv, RankInv
  <2> DEFINE T == {t \in seen : t < p}
             U == {t \in seen' : t < p}
  <2>1. IsFiniteSet(Sequence)
    BY FS_Interval, ConstantsAssumption DEF Sequence
  <2>2. U \in SUBSET Sequence /\ T \in SUBSET U
    BY DEF TypeOK
  <2> HIDE DEF U, T
  <2>3. IsFiniteSet(U) /\ Cardinality(T) <= Cardinality(U) /\ IsFiniteSet(T)
    BY <2>1, <2>2, FS_Subset
  <2>4. Cardinality(T) \in Nat /\ Cardinality(U) \in Nat
    BY <2>3, FS_CardinalityType
  <2>5. run.start \in Nat
    <3>1. Cardinality(Sequence) \in Nat
      BY <2>1, FS_CardinalityType
    <3> QED BY <3>1 DEF TypeOK, RunType
  <2>6. run.start <= Cardinality(U)
    BY <2>3, <2>4, <2>5 DEF T
  <2> QED BY <2>6 DEF U
<1>7. ScanInv'
  BY <1>2 DEF RunInv, ScanInv, Leaps
<1>8. TodoInv'
  BY <1>1, <1>4 DEF RunInv, TodoInv
<1>9. RecoverInv'
  BY <1>1, <1>3, <1>4 DEF RunInv, RecoverInv
<1>10. AheadInv'
  BY <1>1, <1>3 DEF RunInv, AheadInv
<1>11. MarkInv' /\ FreshInv'
  BY DEF RunInv, MarkInv, FreshInv
<1> QED BY <1>5, <1>6, <1>7, <1>8, <1>9, <1>10, <1>11 DEF RunInv

-----------------------------------------------------------------------------
LEMMA SeqInt == \A x \in Sequence : x \in Int /\ x >= 0
BY ConstantsAssumption DEF Sequence

LEMMA FromStartFacts ==
  ASSUME NEW R \in SUBSET Sequence, startSeq \in Sequence \cup {None}, FromStartSeq(R) # {}
  PROVE  /\ FromStartSeq(R) \in SUBSET Sequence
         /\ Max(FromStartSeq(R)) \in R
         /\ \A s \in FromStartSeq(R) : s \in R \/ (startSeq # None /\ s < startSeq)
         /\ startSeq = None => FromStartSeq(R) = R
<1> DEFINE T == FromStartSeq(R)
           higher == {s \in R : s >= startSeq}
<1>1. CASE T = R
  BY <1>1, MaxOfSeqs
<1>2. CASE startSeq \notin {None, 0} /\ (T = higher \/ (higher # {} /\ T = higher \cup {startSeq - 1}))
  <2>1. startSeq \in Int /\ startSeq - 1 \in Sequence
    BY <1>2, ConstantsAssumption DEF Sequence
  <2>2. T \in SUBSET Sequence /\ higher # {} /\ higher \subseteq R
    BY <1>2, <2>1
  <2>3. Max(T) \in T /\ \A x \in T : x <= Max(T)
    BY <2>2, MaxOfSeqs
  <2>4. PICK h \in higher : TRUE
    BY <2>2
  <2>5. h \in T /\ h >= startSeq
    BY <1>2, <2>4
  <2>6. Max(T) >= startSeq
    <3> HIDE DEF T, higher
    <3>1. Max(T) \in Int /\ h \in Int /\ startSeq \in Int /\ h <= Max(T)
      <4>1. Max(T) \in Sequence /\ h \in Sequence /\ h <= Max(T)
        BY <2>2, <2>3, <2>5
      <4> QED BY <2>1, <4>1, SeqInt
    <3> QED BY <3>1, <2>5
  <2>7. Max(T) \in higher
    <3>1. Max(T) # startSeq - 1
      BY <2>1, <2>6
    <3> HIDE DEF higher
    <3> QED BY <1>2, <2>3, <3>1
  <2>8. \A s \in T : s \in R \/ s < startSeq
    BY <1>2, <2>1
  <2> QED BY <1>2, <2>2, <2>7, <2>8
<1>3. T = R \/ (startSeq \notin {None, 0} /\
                  (T = higher \/ (higher # {} /\ T = higher \cup {startSeq - 1})))
  BY DEF FromStartSeq
<1> QED BY <1>1, <1>2, <1>3

\* What getAllProcessedSeqsInOrder and the safe sequence make of the seen set.
LEMMA ScanFacts ==
  ASSUME NEW R \in SUBSET Sequence, startSeq \in Sequence \cup {None},
         NEW p \in Sequence \cup {None}, NEW scan,
         scan = WithPrevSafe(FromStartSeq(R), p), scan # {}
  PROVE  /\ scan \in SUBSET Sequence
         /\ Max(scan) \in R
         /\ p # None => Min(scan) <= p
         /\ \A s \in scan : s \in R \/ s = Min(scan) \/ (startSeq # None /\ s < startSeq)
         /\ startSeq = None => R \subseteq scan
<1> DEFINE T == FromStartSeq(R)
<1>1. T # {}
  BY DEF WithPrevSafe
<1>2. /\ T \in SUBSET Sequence /\ Max(T) \in R
      /\ \A s \in T : s \in R \/ (startSeq # None /\ s < startSeq)
      /\ startSeq = None => T = R
  BY <1>1, FromStartFacts
<1>3. scan = WithPrevSafe(T, p)
  OBVIOUS
<1> HIDE DEF T
<1>4. Min(T) \in T /\ \A x \in T : Min(T) <= x
  BY <1>1, <1>2, MinOfSeqs
<1>5. CASE scan = T /\ ~(p # None /\ p < Min(T))
  <2>1. p # None => Min(scan) <= p
    BY <1>2, <1>4, <1>5, SeqInt
  <2> QED BY <1>2, <1>5, <2>1
<1>6. CASE p # None /\ p < Min(T) /\ scan = T \cup {p}
  <2>1. scan \in SUBSET Sequence
    BY <1>2, <1>6
  <2>2. /\ Min(scan) \in scan /\ \A x \in scan : Min(scan) <= x
        /\ Max(scan) \in scan /\ \A x \in scan : x <= Max(scan)
    BY <1>6, <2>1, MinOfSeqs, MaxOfSeqs
  <2>3. \A x \in T : p < x
    <3> SUFFICES ASSUME NEW x \in T  PROVE p < x
      OBVIOUS
    <3>1. Min(T) \in Int /\ x \in Int /\ p \in Int /\ Min(T) <= x /\ p < Min(T)
      BY <1>2, <1>4, <1>6, SeqInt
    <3> QED BY <3>1
  <2>4. Min(scan) = p
    <3>1. Min(scan) <= p /\ Min(scan) \in Int /\ p \in Int
      BY <1>6, <2>1, <2>2, SeqInt
    <3>2. Min(scan) \in T => p < Min(scan)
      BY <2>3
    <3> QED BY <1>6, <2>2, <3>1, <3>2
  <2>5. Max(scan) = Max(T)
    <3>1. Max(T) \in T /\ \A x \in T : x <= Max(T)
      BY <1>1, <1>2, MaxOfSeqs
    <3>2. Max(T) \in Int /\ Max(scan) \in Int /\ Max(T) <= Max(scan) /\ p < Max(T)
      BY <1>2, <1>6, <2>1, <2>2, <2>3, <3>1, SeqInt
    <3>3. Max(scan) # p
      BY <1>6, <3>2, ConstantsAssumption DEF Sequence
    <3>4. Max(scan) \in T
      BY <1>6, <2>2, <3>3
    <3> QED BY <3>1, <3>2, <3>4
  <2>6. p \in Int
    BY <1>6, ConstantsAssumption DEF Sequence
  <2> QED BY <1>2, <1>6, <2>1, <2>4, <2>5, <2>6
<1> QED BY <1>1, <1>3, <1>5, <1>6 DEF WithPrevSafe

\* Where looking ahead begins: not below the scan, and above it only to skip
\* what lies before the starting sequence.
LEMMA FromFacts ==
  ASSUME NEW S \in SUBSET Sequence, startSeq \in Sequence \cup {None}
  PROVE  LET from == LookAheadFrom(S)
         IN  /\ from # None => from \in Sequence
             /\ from # None /\ S # {} => Max(S) <= from
             /\ from # None => (S # {} /\ from = Max(S)) \/ from = startSeq
             /\ startSeq # None \/ (S # {} /\ Max(S) > 0) => from # None
             /\ from = None => startSeq = None /\ (S # {} => Max(S) = 0)
<1> DEFINE from == LookAheadFrom(S)
<1>1. CASE S = {}
  BY <1>1 DEF LookAheadFrom
<1>2. CASE S # {}
  <2>1. Max(S) \in Sequence /\ Max(S) \in Nat
    BY <1>2, MaxOfSeqs, SeqInt
  <2>2. CASE startSeq # None
    <3> DEFINE P == {Max(S), startSeq}
    <3>1. P \in SUBSET Sequence /\ P # {}
      BY <2>1, <2>2
    <3>2. Max(P) \in P /\ \A x \in P : x <= Max(P)
      BY <3>1, MaxOfSeqs
    <3>3. from = Max(P)
      BY <1>2, <2>2 DEF LookAheadFrom
    <3>4. Max(S) <= Max(P) /\ Max(P) \in Sequence /\ (Max(P) = Max(S) \/ Max(P) = startSeq)
      BY <3>1, <3>2
    <3> QED BY <1>2, <2>1, <2>2, <3>3, <3>4, ConstantsAssumption DEF Sequence
  <2>3. CASE startSeq = None /\ Max(S) = 0
    BY <1>2, <2>1, <2>3 DEF LookAheadFrom
  <2>4. CASE startSeq = None /\ Max(S) # 0
    <3>1. from = Max(S)
      BY <1>2, <2>4 DEF LookAheadFrom
    <3> QED BY <1>2, <2>1, <2>4, <3>1, ConstantsAssumption DEF Sequence
  <2> QED BY <2>2, <2>3, <2>4
<1> QED BY <1>1, <1>2

\* The scan comes as far as the seen set.
LEMMA RangeReach ==
  ASSUME TypeOK, RankInv, pc = "range", NEW x \in seen
  PROVE  \E y \in FromRank(seen, run.start) : x <= y
<1> DEFINE m == Max(seen)
<1>1. m \in seen /\ \A y \in seen : y <= m
  BY MaxOfSeqs DEF TypeOK
<1>2. IsFiniteSet(Sequence) /\ seen \in SUBSET Sequence
  BY FS_Interval, ConstantsAssumption DEF Sequence, TypeOK
<1>3. run.start \in Nat
  BY <1>2, FS_CardinalityType DEF TypeOK, RunType
<1> HIDE DEF m
<1> DEFINE B == {t \in seen : t < m}
<1>4. IsFiniteSet(B) /\ Cardinality(B) \in Nat
  BY <1>2, FS_Subset, FS_CardinalityType
<1>5. Cardinality(B) >= run.start
  <2>1. CASE run.start = 0
    BY <1>4, <2>1
  <2>2. ASSUME NEW p \in seen, run.start <= Cardinality({t \in seen : t < p})
        PROVE  Cardinality(B) >= run.start
    <3> DEFINE A == {t \in seen : t < p}
    <3>1. p <= m /\ p \in Int /\ m \in Int /\ \A t \in seen : t \in Int
      BY <1>1, <1>2, ConstantsAssumption DEF Sequence
    <3>2. A \in SUBSET B
      <4> SUFFICES ASSUME NEW t \in seen, t < p  PROVE t < m
        OBVIOUS
      <4>1. t \in Int
        BY <3>1
      <4> QED BY <3>1, <4>1
    <3>3. Cardinality(A) <= Cardinality(B) /\ Cardinality(A) \in Nat
      BY <1>4, <3>2, FS_Subset, FS_CardinalityType
    <3>4. run.start <= Cardinality(A)
      BY <2>2
    <3> HIDE DEF A, B
    <3> QED BY <1>3, <1>4, <3>3, <3>4
  <2> QED BY <2>1, <2>2 DEF RankInv
<1>6. m \in FromRank(seen, run.start)
  BY <1>1, <1>5 DEF FromRank
<1> QED BY <1>1, <1>6

\* A run that has looked ahead is through with all sequences up to its last.
Reached(s) ==
  /\ run.scan # {} => Min(run.scan) < s
  /\ \/ run.last # None /\ s <= run.last
     \/ run.scan # {} /\ s <= Max(run.scan)

LEMMA RunCovers ==
  ASSUME TypeOK, SeenInv, ScanInv, TodoInv, AheadInv, pc \in Looked,
         NEW s \in Sequence, InRange(s), Reached(s)
  PROVE  s \in Done
<1> DEFINE scan == run.scan
<1>1. scan \in SUBSET Sequence /\ startSeq \in Sequence \cup {None}
  BY DEF TypeOK, RunType
<1>2. run.last \in Sequence \cup {None}
  BY DEF TypeOK, RunType
<1>3. CASE scan # {} /\ s <= Max(scan)
  <2>1. Min(scan) \in Sequence /\ Max(scan) \in Sequence /\ Min(scan) < s
    BY <1>1, <1>3, MinOfSeqs, MaxOfSeqs DEF Reached
  <2>2. CASE s \in scan
    <3>1. s # Min(scan) /\ ~(startSeq # None /\ s < startSeq)
      BY <1>1, <2>1, SeqInt DEF InRange
    <3>2. s \in seen
      BY <1>3, <2>2, <3>1 DEF ScanInv, Looked
    <3> QED BY <3>2 DEF SeenInv, Done
  <2>3. CASE s \notin scan
    <3>1. s \in Leaps(scan)
      BY <1>3, <2>1, <2>3, SeqInt DEF Leaps
    <3>2. s \in run.missing /\ run.todo = {}
      BY <3>1 DEF ScanInv, TodoInv, Looked
    <3> QED BY <3>2 DEF TodoInv, Looked
  <2> QED BY <2>2, <2>3
<1>4. CASE run.last # None /\ s <= run.last /\ (scan # {} => s > Max(scan))
  <2>1. From # None /\ \A t \in Sequence : From < t /\ t <= run.last => t \in Done
    BY <1>4 DEF AheadInv
  <2>2. From \in Sequence /\ ((scan # {} /\ From = Max(scan)) \/ From = startSeq)
    BY <1>1, <2>1, FromFacts DEF From
  <2>3. From < s
    BY <1>1, <1>4, <2>1, <2>2, SeqInt DEF InRange
  <2> QED BY <1>4, <2>1, <2>3
<1>5. scan # {} => Max(scan) \in Sequence
  BY <1>1, MaxOfSeqs
<1> QED BY <1>2, <1>3, <1>4, <1>5, SeqInt DEF Reached

-----------------------------------------------------------------------------
(* The steps.                                                              *)

CoverInv == TypeInv /\ SeenInv /\ KeysInv /\ RunInv

Elsewhere == pc' \notin Scanned \cup {"rank", "range"}

LEMMA ElsewhereRunInv == Elsewhere => RunInv'
BY DEF Elsewhere, RunInv, PrevInv, RankInv, FreshInv, ScanInv, TodoInv, RecoverInv, AheadInv,
       MarkInv, Scanned, Looked, Marked

LEMMA OutsideKeepsCover ==
  ASSUME CoverInv, TypeInv', SeenInv', Grows, handled' \subseteq signed',
         (\E s \in Sequence : Sign(s) \/ SpyDeliver(s) \/ MarkVaaSeen(s)) \/ UNCHANGED vars
  PROVE  CoverInv'
<1> USE DEF redis, history
<1>1. SameKeys /\ run' = run /\ pc' = pc
  BY DEF SameKeys, Sign, SpyDeliver, MarkVaaSeen, vars
<1> QED BY <1>1, KeysKept, RunKept DEF CoverInv, TypeInv

LEMMA StartKeepsCover ==
  ASSUME CoverInv, TypeInv', SeenInv', Grows, handled' \subseteq signed',
         Crash \/ Start \/ UpdateSeenSequences \/ RegisterEventListeners \/ AbortRun
  PROVE  CoverInv'
<1> USE DEF redis, history
<1>1. SameKeys /\ Elsewhere
  BY DEF SameKeys, Elsewhere, Scanned, Crash, Start, UpdateSeenSequences,
         RegisterEventListeners, AbortRun, EndRun
<1> QED BY <1>1, KeysKept, ElsewhereRunInv DEF CoverInv

LEMMA DropIndexKeepsCover ==
  ASSUME CoverInv, TypeInv', SeenInv', Grows, handled' \subseteq signed', DropIndex
  PROVE  CoverInv'
<1> USE DEF redis, history
<1>1. Elsewhere
  BY DEF DropIndex, Elsewhere, Scanned
<1>2. CASE failed' = failed /\ safe' = safe /\ base' = base /\ seen' = seen
  BY <1>1, <1>2, KeysKept, ElsewhereRunInv DEF CoverInv, SameKeys
<1>3. ASSUME base' = None, NEW kept \in SUBSET {"seen", "failed", "safe"},
             seen' = (IF "seen" \in kept THEN seen ELSE {}),
             failed' = (IF "failed" \in kept THEN failed ELSE {}),
             lost' = IF "failed" \in kept /\ "seen" \notin kept
                     THEN lost \cup UNION {0..(s - 1) : s \in failed} ELSE lost
      PROVE  KeysInv'
  <2>1. ASSUME NEW f \in failed'  PROVE (LostBelow(f) \/ (Looks /\ Overtaken(f)))'
    <3>1. f \in failed /\ "failed" \in kept
      BY <1>3, <2>1
    <3>2. CASE "seen" \notin kept
      <4>1. f \in Sequence
        BY <3>1 DEF CoverInv, TypeInv, TypeOK
      <4>2. \A s \in Sequence : s < f => s \in 0..(f - 1)
        BY <4>1, SeqInt
      <4>3. \A s \in Sequence : s < f => s \in lost'
        BY <1>3, <3>1, <3>2, <4>2
      <4> QED BY <4>3 DEF LostBelow
    <3>3. CASE "seen" \in kept
      <4>1. seen' = seen
        BY <1>3, <3>3
      <4>2. (LostBelow(f) => LostBelow(f)') /\ (Looks => Looks') /\ (Overtaken(f) => Overtaken(f)')
        BY <4>1 DEF LostBelow, Looks, Overtaken, Grows
      <4> QED BY <3>1, <4>2 DEF CoverInv, KeysInv
    <3> QED BY <3>2, <3>3
  <2> QED BY <1>3, <2>1 DEF KeysInv
<1>4. KeysInv' => CoverInv'
  BY <1>1, ElsewhereRunInv DEF CoverInv
<1> QED BY <1>2, <1>3, <1>4 DEF DropIndex

LEMMA ReadKeepsCover ==
  ASSUME CoverInv, TypeInv', SeenInv', Grows, handled' \subseteq signed', ReadSafe \/ ReadRank
  PROVE  CoverInv'
<1> USE DEF redis, history
<1>1. SameKeys
  BY DEF SameKeys, ReadSafe, ReadRank
<1>2. KeysInv'
  BY <1>1, KeysKept DEF CoverInv
<1>3. CASE ReadSafe
  <2>1. run'.prevSafe \in {None, safe}
    <3>1. NoRun \in RunType /\ NoRun.prevSafe = None
      BY NoRunType DEF NoRun
    <3> QED BY <1>3, <3>1 DEF ReadSafe, RunType
  <2>2. PrevInv' /\ RankInv'
    BY <1>1, <1>3, <2>1 DEF PrevInv, RankInv, ReadSafe, SameKeys
  <2>4. FreshInv'
    <3>1. /\ NoRun \in RunType /\ NoRun.last = None /\ NoRun.ahead = {}
          /\ NoRun.page = {} /\ NoRun.failedToRecover = {}
      BY NoRunType DEF NoRun
    <3>2. \A p : LET r == [NoRun EXCEPT !.prevSafe = p]
                 IN  r.last = None /\ r.ahead = {} /\ r.page = {} /\ r.failedToRecover = {}
      BY <3>1 DEF RunType
    <3> QED BY <1>3, <3>1, <3>2 DEF ReadSafe, FreshInv
  <2>3. RunInv'
    BY <1>3, <2>2, <2>4 DEF RunInv, ScanInv, TodoInv, RecoverInv, AheadInv, MarkInv, ReadSafe,
                      Scanned, Looked, Marked
  <2> QED BY <1>2, <2>3 DEF CoverInv
<1>4. CASE ReadRank
  <2>1. /\ run'.prevSafe = run.prevSafe
        /\ run'.start = IF run.prevSafe = None THEN 0 ELSE RankIn(seen, run.prevSafe)
    BY <1>4 DEF ReadRank, CoverInv, TypeInv, TypeOK, RunType
  <2>2. PrevInv'
    BY <1>4, <1>1, <2>1 DEF PrevInv, ReadRank, SameKeys, CoverInv, RunInv
  <2>3. RankInv'
    <3>1. seen' = seen
      BY <1>4 DEF ReadRank
    <3>2. run'.start = 0 \/ (/\ run.prevSafe \in seen
                            /\ run'.start = Cardinality({s \in seen : s < run.prevSafe}))
      BY <2>1 DEF RankIn
    <3>3. IsFiniteSet({s \in seen : s < run.prevSafe})
      <4>1. IsFiniteSet(Sequence)
        BY FS_Interval, ConstantsAssumption DEF Sequence
      <4>2. {s \in seen : s < run.prevSafe} \in SUBSET Sequence
        BY DEF CoverInv, TypeInv, TypeOK
      <4> QED BY <4>1, <4>2, FS_Subset
    <3>4. run'.start <= run'.start
      <4>1. Cardinality({s \in seen : s < run.prevSafe}) \in Nat
        BY <3>3, FS_CardinalityType
      <4> QED BY <3>2, <4>1
    <3> QED BY <3>1, <3>2, <3>4 DEF RankInv
  <2>5. FreshInv'
    <3>1. /\ run'.last = run.last /\ run'.ahead = run.ahead /\ run'.page = run.page
          /\ run'.failedToRecover = run.failedToRecover
      BY <1>4 DEF ReadRank, CoverInv, TypeInv, TypeOK, RunType
    <3> QED BY <1>4, <3>1 DEF FreshInv, ReadRank, CoverInv, RunInv
  <2>4. RunInv'
    BY <1>4, <2>2, <2>3, <2>5 DEF RunInv, ScanInv, TodoInv, RecoverInv, AheadInv, MarkInv, ReadRank,
                      Scanned, Looked, Marked
  <2> QED BY <1>2, <2>4 DEF CoverInv
<1> QED BY <1>3, <1>4

LEMMA ReadSeenKeepsCover ==
  ASSUME CoverInv, TypeInv', SeenInv', Grows, handled' \subseteq signed', ReadSeen
  PROVE  CoverInv'
<1> USE DEF redis
<1> DEFINE R == FromRank(seen, run.start)
           scan == WithPrevSafe(FromStartSeq(R), run.prevSafe)
<1>1. /\ pc = "range" /\ pc' = "recover"
      /\ run' = [run EXCEPT !.scan = scan, !.missing = Leaps(scan), !.todo = Leaps(scan)]
      /\ lost' = IF run.prevSafe = None /\ safe # None /\ scan # {}
                 THEN lost \cup (safe + 1)..(Min(scan) - 1) ELSE lost
      /\ UNCHANGED <<startSeq, signed, handled, seen, failed, safe, marking, faults, threw, base>>
  BY DEF ReadSeen
<1>2. /\ TypeOK /\ seen \subseteq handled /\ seen \in SUBSET Sequence
      /\ startSeq \in Sequence \cup {None} /\ run \in RunType
      /\ safe \in Sequence \cup {None} /\ failed \in SUBSET Sequence
  BY DEF CoverInv, TypeInv, TypeOK, SeenInv
<1>3. SameKeys
  BY <1>1 DEF SameKeys
<1>4. KeysInv'
  BY <1>3, KeysKept DEF CoverInv
<1>5. run.prevSafe \in {None, safe}
  BY <1>1 DEF CoverInv, RunInv, PrevInv
<1>6. R \in SUBSET Sequence /\ R \subseteq seen
  BY <1>2 DEF FromRank
<1>7. scan # {} =>
        /\ scan \in SUBSET Sequence
        /\ Max(scan) \in R
        /\ run.prevSafe # None => Min(scan) <= run.prevSafe
        /\ \A s \in scan : s \in R \/ s = Min(scan) \/ (startSeq # None /\ s < startSeq)
        /\ startSeq = None => R \subseteq scan
  <2> HIDE DEF R
  <2>1. run.prevSafe \in Sequence \cup {None}
    BY <1>2, <1>5
  <2> QED BY <1>2, <1>6, <2>1, ScanFacts
<1>8. scan \in SUBSET Sequence
  BY <1>7
<1>9. (\E x \in seen : x > 0) /\ startSeq = None => scan # {} /\ Max(scan) > 0
  <2> SUFFICES ASSUME NEW x \in seen, x > 0, startSeq = None  PROVE scan # {} /\ Max(scan) > 0
    OBVIOUS
  <2>1. PICK y \in R : x <= y
    BY <1>1, RangeReach DEF CoverInv, TypeInv, RunInv
  <2>2. scan # {}
    <3>1. FromStartSeq(R) = R /\ R # {}
      BY <2>1 DEF FromStartSeq
    <3> HIDE DEF R
    <3> QED BY <3>1 DEF WithPrevSafe
  <2>3. y \in scan
    BY <1>7, <2>1, <2>2
  <2> HIDE DEF scan, R
  <2>4. y <= Max(scan) /\ Max(scan) \in scan
    BY <1>8, <2>3, MaxOfSeqs
  <2>5. x \in Int /\ y \in Int /\ Max(scan) \in Int
    BY <1>2, <1>8, <2>3, <2>4, SeqInt
  <2> QED BY <2>1, <2>2, <2>4, <2>5
<1> HIDE DEF scan, R
<1>10. /\ run'.scan = scan /\ run'.missing = Leaps(scan) /\ run'.todo = Leaps(scan)
       /\ run'.prevSafe = run.prevSafe
       /\ run'.last = run.last /\ run'.ahead = run.ahead /\ run'.page = run.page
       /\ run'.failedToRecover = run.failedToRecover
  BY <1>1, <1>2 DEF RunType
<1>11. ASSUME base # None, scan # {}, NEW s \in Sequence,
              base < s, s <= Min(scan), InRange(s)
       PROVE  s \in Known'
  <2>1. safe # None /\ safe \in Sequence /\ Covered(base, safe)
    BY <1>2, <1>11 DEF CoverInv, KeysInv
  <2>2. Min(scan) \in scan /\ Min(scan) \in Sequence
    BY <1>8, <1>11, MinOfSeqs
  <2>3. Known \subseteq Known'
    BY <1>1 DEF Known
  <2>4. CASE s <= safe
    BY <1>11, <2>1, <2>3, <2>4 DEF Covered
  <2>5. CASE safe < s /\ s < Min(scan)
    <3>1. run.prevSafe = None
      BY <1>5, <1>7, <1>11, <2>1, <2>2, <2>5, SeqInt
    <3>2. s \in (safe + 1)..(Min(scan) - 1)
      BY <2>1, <2>2, <2>5, SeqInt
    <3>3. s \in lost'
      BY <1>1, <1>11, <2>1, <3>1, <3>2
    <3> QED BY <3>3 DEF Known
  <2>6. CASE safe < s /\ s = Min(scan)
    <3>1. run.prevSafe = None
      BY <1>5, <1>7, <1>11, <2>1, <2>2, <2>6, SeqInt
    <3>2. Min(scan) \in seen \/ ~InRange(s)
      <4>3. scan = FromStartSeq(R)
        BY <3>1 DEF WithPrevSafe, scan
      <4>2. \A t \in scan : t \in R \/ (startSeq # None /\ t < startSeq)
        BY <1>2, <1>6, <1>11, <4>3, FromStartFacts
      <4>4. Min(scan) \in R \/ (startSeq # None /\ s < startSeq)
        BY <2>2, <2>6, <4>2
      <4> QED BY <1>2, <1>6, <4>4, SeqInt DEF InRange
    <3>3. s \in handled
      BY <1>2, <1>11, <2>6, <3>2
    <3> QED BY <2>3, <3>3 DEF Known
  <2> QED BY <1>11, <2>1, <2>2, <2>4, <2>5, <2>6, SeqInt
<1>12. PrevInv' /\ RankInv' /\ FreshInv'
  BY <1>1, <1>5, <1>10 DEF PrevInv, RankInv, FreshInv
<1>13. ScanInv'
  <2>1. scan # {} => \A s \in scan : s \in seen' \/ s = Min(scan) \/ (startSeq' # None /\ s < startSeq')
    BY <1>1, <1>6, <1>7
  <2>2. scan # {} => Max(scan) \in seen'
    BY <1>1, <1>6, <1>7
  <2>3. base' # None /\ scan # {} =>
          \A s \in Sequence : base' < s /\ s <= Min(scan) /\ InRange(s)' => s \in Known'
    BY <1>1, <1>11 DEF InRange
  <2>4. base' # None /\ run'.scan # {} => Covered(base, Min(run.scan))'
    BY <1>10, <2>3 DEF Covered
  <2> QED BY <1>10, <2>1, <2>2, <2>4 DEF ScanInv, Leaps
<1>14. /\ run.last = None /\ run.ahead = {} /\ run.page = {} /\ run.failedToRecover = {}
  BY <1>1 DEF CoverInv, RunInv, FreshInv
<1>15. TodoInv'
  BY <1>1, <1>10, <1>14 DEF TodoInv, Looked
<1>16. Looks => From' # None
  <2>1. From' = LookAheadFrom(scan)
    BY <1>1, <1>10 DEF LookAheadFrom, From
  <2> QED BY <1>2, <1>8, <1>9, <2>1, FromFacts DEF Looks
<1>17. RecoverInv'
  <2>1. ASSUME NEW f \in failed  PROVE (LostBelow(f) \/ (From # None /\ Overtaken(f)))'
    <3>1. LostBelow(f) \/ (Looks /\ Overtaken(f))
      BY DEF CoverInv, KeysInv
    <3>2. (LostBelow(f) => LostBelow(f)') /\ (Overtaken(f) => Overtaken(f)')
      BY DEF LostBelow, Overtaken, Grows
    <3> QED BY <1>16, <3>1, <3>2
  <2> QED BY <1>1, <1>10, <1>14, <2>1 DEF RecoverInv
<1>18. AheadInv' /\ MarkInv'
  BY <1>1 DEF AheadInv, MarkInv, Looked, Marked
<1> QED BY <1>4, <1>12, <1>13, <1>15, <1>17, <1>18 DEF CoverInv, RunInv

LEMMA RecoverKeepsCover ==
  ASSUME CoverInv, TypeInv', SeenInv', Grows, handled' \subseteq signed', NEW s \in Sequence,
         RecoverMissing(s) \/ FetchMissingFails(s) \/ ReprocessMissingFails(s)
  PROVE  CoverInv'
<1> USE DEF redis, history
<1>1. SameKeys
  BY DEF SameKeys, RecoverMissing, FetchMissingFails, ReprocessMissingFails
<1>2. KeysInv'
  BY <1>1, KeysKept DEF CoverInv
<1>3. /\ pc = "recover" /\ pc' = "recover" /\ s \in run.todo /\ run \in RunType
      /\ startSeq' = startSeq /\ failed' = failed /\ seen' = seen
      /\ safe' = safe /\ base' = base
  BY DEF RecoverMissing, FetchMissingFails, ReprocessMissingFails, CoverInv, TypeInv, TypeOK
<1>4. /\ run'.prevSafe = run.prevSafe /\ run'.scan = run.scan /\ run'.missing = run.missing
      /\ run'.todo = run.todo \ {s} /\ run'.page = run.page /\ run'.ahead = run.ahead
      /\ run'.last = run.last
      /\ \/ run'.failedToRecover = run.failedToRecover /\ s \in handled' \cup threw'
         \/ run'.failedToRecover = run.failedToRecover \cup {s}
  <2>1. CASE RecoverMissing(s)
    BY <1>3, <2>1 DEF RecoverMissing, RunType, Take
  <2>2. CASE FetchMissingFails(s)
    BY <1>3, <2>2 DEF FetchMissingFails, RunType
  <2>3. CASE ReprocessMissingFails(s)
    BY <1>3, <2>3 DEF ReprocessMissingFails, RunType, Reject
  <2> QED BY <2>1, <2>2, <2>3
<1>5. Known \subseteq Known' /\ Done \cup {s} \subseteq Done' /\ From' = From
  BY <1>3, <1>4 DEF Known, Done, From, LookAheadFrom, Grows
<1>6. PrevInv' /\ RankInv' /\ FreshInv' /\ AheadInv' /\ MarkInv'
  BY <1>3, <1>4 DEF CoverInv, RunInv, PrevInv, RankInv, FreshInv, AheadInv, MarkInv, Looked, Marked, Scanned
<1>7. ScanInv'
  <2>1. \A a, b : Covered(a, b) => Covered(a, b)'
    BY <1>3, <1>5 DEF Covered, InRange
  <2> QED BY <1>3, <1>4, <2>1 DEF CoverInv, RunInv, ScanInv, Leaps
<1>8. Looks /\ Overtaken(s)
  <2> DEFINE scan == run.scan
  <2>1. s \in Leaps(scan) /\ scan \in SUBSET Sequence
    BY <1>3 DEF CoverInv, RunInv, ScanInv, TodoInv, Scanned, RunType
  <2>2. scan # {} /\ s \in Min(scan)..Max(scan) /\ s \notin scan
    BY <2>1 DEF Leaps
  <2>3. Max(scan) \in scan /\ Max(scan) \in seen
    BY <1>3, <2>1, <2>2, MaxOfSeqs DEF CoverInv, RunInv, ScanInv, Scanned
  <2>4. s < Max(scan) /\ Max(scan) > 0
    <3>1. Max(scan) \in Sequence /\ s # Max(scan) /\ s <= Max(scan)
      BY <2>1, <2>2, <2>3
    <3> QED BY <3>1, SeqInt
  <2>5. Max(scan) \in signed
    BY <2>3 DEF CoverInv, SeenInv, KeysInv
  <2> QED BY <2>3, <2>4, <2>5 DEF Looks, Overtaken
<1>9. (Looks => Looks') /\ \A f : Overtaken(f) => Overtaken(f)'
  BY <1>1 DEF Looks, Overtaken, Grows, SameKeys
<1>10. TodoInv'
  <2>1. \A f \in run'.failedToRecover : Looks' /\ Overtaken(f)'
    BY <1>3, <1>4, <1>8, <1>9 DEF CoverInv, RunInv, TodoInv, Scanned
  <2> QED BY <1>3, <1>4, <1>5, <2>1 DEF CoverInv, RunInv, TodoInv, Scanned, Looked
<1>11. RecoverInv'
  <2>1. \A f : LostBelow(f) => LostBelow(f)'
    BY DEF LostBelow, Grows
  <2>2. s \in run.missing
    BY <1>3 DEF CoverInv, RunInv, TodoInv, Scanned
  <2> QED BY <1>3, <1>4, <1>5, <1>9, <2>1, <2>2 DEF CoverInv, RunInv, RecoverInv
<1> QED BY <1>2, <1>6, <1>7, <1>10, <1>11 DEF CoverInv, RunInv

\* The page holds the last signed sequence.
LEMMA LatestHasLast ==
  ASSUME NEW S \in SUBSET Sequence, NEW m \in S
  PROVE  Max(S) \in Latest(S) /\ m <= Max(S)
<1>1. Max(S) \in S /\ \A x \in S : x <= Max(S)
  BY MaxOfSeqs
<1> DEFINE T == {t \in S : t > Max(S)}
<1>2. T = {}
  <2> SUFFICES ASSUME NEW t \in S, t > Max(S)  PROVE FALSE
    OBVIOUS
  <2>1. t <= Max(S) /\ t \in Int /\ Max(S) \in Int
    BY <1>1, SeqInt
  <2> QED BY <2>1
<1>3. Cardinality(T) = 0
  BY <1>2, FS_EmptySet
<1>4. Cardinality(T) < PageSize
  BY <1>3, ConstantsAssumption
<1> QED BY <1>1, <1>4 DEF Latest

LEMMA ListAheadKeepsCover ==
  ASSUME CoverInv, TypeInv', SeenInv', Grows, handled' \subseteq signed', ListAhead
  PROVE  CoverInv'
<1> USE DEF redis, history
<1> DEFINE page == {s \in Latest(signed) : s > From}
<1>1. /\ pc = "recover" /\ run.todo = {} /\ run \in RunType
      /\ startSeq' = startSeq /\ failed' = failed /\ seen' = seen /\ signed' = signed
      /\ safe' = safe /\ base' = base /\ handled' = handled /\ threw' = threw /\ lost' = lost
      /\ failed \in SUBSET Sequence /\ signed \in SUBSET Sequence
      /\ startSeq \in Sequence \cup {None} /\ run.scan \in SUBSET Sequence
  BY DEF ListAhead, CoverInv, TypeInv, TypeOK, RunType
<1>2. SameKeys /\ KeysInv'
  BY <1>1, KeysKept DEF CoverInv, SameKeys
<1>3. \/ From = None /\ pc' = "markFailed" /\ run' = run
      \/ From # None /\ pc' = "ahead" /\ run' = [run EXCEPT !.page = page, !.last = From]
  BY DEF ListAhead, From
<1>4. /\ From # None => From \in Sequence
      /\ From # None /\ run.scan # {} => Max(run.scan) <= From
      /\ From = None => startSeq = None /\ (run.scan # {} => Max(run.scan) = 0)
  BY <1>1, FromFacts DEF From
<1> HIDE DEF page
<1>5. /\ run'.prevSafe = run.prevSafe /\ run'.scan = run.scan /\ run'.missing = run.missing
      /\ run'.todo = run.todo /\ run'.ahead = run.ahead
      /\ run'.failedToRecover = run.failedToRecover
      /\ From = None => run'.page = run.page /\ run'.last = run.last
      /\ From # None => run'.page = page /\ run'.last = From
  BY <1>1, <1>3 DEF RunType
<1>6. Known' = Known /\ Done' = Done /\ From' = From
  BY <1>1, <1>5 DEF Known, Done, From, LookAheadFrom
<1>7. /\ run.last = None /\ run.ahead = {} /\ run.page = {}
      /\ run.failedToRecover \subseteq run.missing
      /\ \A f \in failed : LostBelow(f) \/ (From # None /\ Overtaken(f))
      /\ run.missing = Leaps(run.scan) /\ run.missing \subseteq run.todo \cup Done
      /\ \A f \in run.failedToRecover : Looks /\ Overtaken(f)
  BY <1>1 DEF CoverInv, RunInv, RecoverInv, ScanInv, TodoInv, Scanned
<1>8. \A s \in run.missing : From # None /\ s <= From
  <2> SUFFICES ASSUME NEW s \in run.missing  PROVE From # None /\ s <= From
    OBVIOUS
  <2>1. run.scan # {} /\ s \in Min(run.scan)..Max(run.scan) /\ s \notin run.scan
    BY <1>7 DEF Leaps
  <2>2. Min(run.scan) \in run.scan /\ Max(run.scan) \in Sequence /\ Min(run.scan) \in Sequence
    BY <1>1, <2>1, MinOfSeqs, MaxOfSeqs
  <2>3. s \in Int /\ s <= Max(run.scan) /\ Max(run.scan) > 0 /\ Max(run.scan) \in Int
    BY <2>1, <2>2, SeqInt
  <2>4. From # None
    BY <1>4, <2>1, <2>3
  <2>5. From \in Int /\ Max(run.scan) <= From
    BY <1>4, <2>1, <2>4, SeqInt
  <2> QED BY <2>3, <2>4, <2>5
<1>9. PrevInv' /\ RankInv' /\ FreshInv' /\ RecoverInv' /\ MarkInv'
  BY <1>1, <1>3, <1>5 DEF CoverInv, RunInv, PrevInv, RankInv, FreshInv, RecoverInv, MarkInv,
                          Scanned, Marked
<1>10. ScanInv'
  <2>1. \A a, b : Covered(a, b) => Covered(a, b)'
    BY <1>1, <1>6 DEF Covered, InRange
  <2> QED BY <1>1, <1>3, <1>5, <2>1 DEF CoverInv, RunInv, ScanInv, Leaps, Scanned
<1>11. TodoInv'
  <2>1. \A f \in run'.failedToRecover : Looks' /\ Overtaken(f)'
    BY <1>1, <1>5, <1>7 DEF Looks, Overtaken
  <2> QED BY <1>1, <1>5, <1>6, <1>7, <2>1 DEF TodoInv, CoverInv, RunInv, Scanned, Looked
<1>12. AheadInv'
  <2>1. ASSUME NEW f \in failed
        PROVE  LostBelow(f)' \/ (From # None /\ (f <= From \/ \E p \in page : f <= p))
    <3>1. LostBelow(f) => LostBelow(f)'
      BY DEF LostBelow, Grows
    <3>2. ASSUME From # None, NEW m \in signed, f < m
          PROVE  f <= From \/ \E p \in page : f <= p
      <4>1. Max(signed) \in Latest(signed) /\ m <= Max(signed) /\ Max(signed) \in Sequence
        BY <1>1, LatestHasLast DEF Latest
      <4>2. f <= Max(signed)
        <5>1. f \in Int /\ m \in Int /\ Max(signed) \in Int
          BY <1>1, <4>1, SeqInt
        <5> QED BY <3>2, <4>1, <5>1
      <4>3. CASE Max(signed) > From
        BY <4>1, <4>2, <4>3 DEF page
      <4>4. CASE ~(Max(signed) > From)
        <5>1. f \in Int /\ From \in Int /\ Max(signed) \in Int
          BY <1>1, <1>4, <3>2, <4>1, SeqInt
        <5> QED BY <4>2, <4>4, <5>1
      <4> QED BY <4>3, <4>4
    <3> QED BY <1>7, <3>1, <3>2 DEF Overtaken
  <2>2. \A p \in page : p > From /\ p \in signed
    BY DEF page, Latest
  <2>3. CASE From = None
    <3>1. run.failedToRecover = {}
      BY <1>7, <1>8, <2>3
    <3> QED BY <1>1, <1>3, <1>5, <1>6, <1>7, <2>1, <2>3, <3>1 DEF AheadInv
  <2>4. CASE From # None
    <3>1. \A f \in run.failedToRecover : f <= From
      BY <1>7, <1>8
    <3>2. From <= From /\ \A s \in Sequence : ~(From < s /\ s <= From)
      BY <1>4, <2>4, SeqInt
    <3> QED BY <1>1, <1>3, <1>5, <1>6, <1>7, <2>1, <2>2, <2>4, <3>1, <3>2 DEF AheadInv
  <2> QED BY <2>3, <2>4
<1> QED BY <1>2, <1>9, <1>10, <1>11, <1>12 DEF CoverInv, RunInv

LEMMA AheadKeepsCover ==
  ASSUME CoverInv, TypeInv', SeenInv', Grows, handled' \subseteq signed', NEW s \in Sequence,
         ProcessAhead(s) \/ ProcessAheadFails(s)
  PROVE  CoverInv'
<1> USE DEF redis, history
<1>1. /\ pc = "ahead" /\ pc' = "ahead" /\ run.page # {} /\ s = Min(run.page) /\ run \in RunType
      /\ startSeq' = startSeq /\ failed' = failed /\ seen' = seen
      /\ safe' = safe /\ base' = base /\ signed' = signed
      /\ failed \in SUBSET Sequence /\ run.page \in SUBSET Sequence
      /\ run.scan \in SUBSET Sequence /\ startSeq \in Sequence \cup {None}
  BY DEF ProcessAhead, ProcessAheadFails, Visit, CoverInv, TypeInv, TypeOK, RunType
<1>2. SameKeys /\ KeysInv'
  BY <1>1, KeysKept DEF CoverInv, SameKeys
<1>3. run.last \in Sequence /\ s \in run.page /\ \A p \in run.page : s <= p
  BY <1>1, MinOfSeqs DEF CoverInv, TypeInv
<1> DEFINE gap == (run.last + 1)..(s - 1)
<1>4. /\ run'.prevSafe = run.prevSafe /\ run'.scan = run.scan /\ run'.missing = run.missing
      /\ run'.todo = run.todo /\ run'.page = run.page \ {s} /\ run'.ahead = run.ahead \cup {s}
      /\ run'.last = s /\ run'.failedToRecover = run.failedToRecover \cup gap
  <2>1. /\ Visited(s).prevSafe = run.prevSafe /\ Visited(s).scan = run.scan
        /\ Visited(s).missing = run.missing /\ Visited(s).todo = run.todo
        /\ Visited(s).page = run.page \ {s} /\ Visited(s).ahead = run.ahead \cup {s}
        /\ Visited(s).last = s /\ Visited(s).failedToRecover = run.failedToRecover \cup gap
    BY <1>1 DEF Visited, RunType
  <2>2. run' = Visited(s) \/ run' = [Visited(s) EXCEPT !.processed = @ \cup {s}]
    BY DEF ProcessAhead, ProcessAheadFails
  <2> HIDE DEF gap
  <2>3. run' = [Visited(s) EXCEPT !.processed = @ \cup {s}] =>
          /\ run'.prevSafe = Visited(s).prevSafe /\ run'.scan = Visited(s).scan
          /\ run'.missing = Visited(s).missing /\ run'.todo = Visited(s).todo
          /\ run'.page = Visited(s).page /\ run'.ahead = Visited(s).ahead
          /\ run'.last = Visited(s).last /\ run'.failedToRecover = Visited(s).failedToRecover
    OBVIOUS
  <2> QED BY <2>1, <2>2, <2>3
<1>5. s \in handled' \cup threw'
  BY DEF ProcessAhead, ProcessAheadFails, Take, Reject
<1> HIDE DEF gap
<1>6. Known \subseteq Known' /\ Done \cup {s} \cup gap \subseteq Done' /\ From' = From
  BY <1>1, <1>4, <1>5 DEF Known, Done, From, LookAheadFrom, Grows
<1>7. /\ From # None /\ From <= run.last
      /\ \A t \in Sequence : From < t /\ t <= run.last => t \in Done
      /\ \A a \in run.ahead : a <= run.last
      /\ \A p \in run.page : p > run.last /\ p \in signed
      /\ \A f \in run.failedToRecover : f <= run.last
      /\ \A f \in failed : LostBelow(f) \/ f <= run.last \/ \E p \in run.page : f <= p
  BY <1>1, <1>3 DEF CoverInv, RunInv, AheadInv, Looked, Scanned
<1>8. From \in Sequence /\ run.last < s /\ s \in signed
      /\ (startSeq # None \/ (run.scan # {} /\ Max(run.scan) > 0))
  <2>1. From \in Sequence /\ ((run.scan # {} /\ From = Max(run.scan)) \/ From = startSeq)
    BY <1>1, <1>7, FromFacts DEF From
  <2>2. startSeq # None \/ (run.scan # {} /\ Max(run.scan) > 0)
    <3>1. CASE startSeq # None
      BY <3>1
    <3>2. CASE startSeq = None
      <4>1. run.scan # {}
        BY <1>7, <3>2 DEF From, LookAheadFrom
      <4>2. Max(run.scan) # 0
        BY <1>7, <3>2, <4>1 DEF From, LookAheadFrom
      <4>3. Max(run.scan) \in Sequence
        BY <1>1, <4>1, MaxOfSeqs
      <4> QED BY <4>1, <4>2, <4>3, SeqInt
    <3> QED BY <3>1, <3>2
  <2> QED BY <1>3, <1>7, <2>1, <2>2
<1>9. \A t \in gap : t \in Int /\ run.last < t /\ t < s
  BY <1>3, SeqInt DEF gap
<1>10. PrevInv' /\ RankInv' /\ FreshInv' /\ RecoverInv' /\ MarkInv'
  BY <1>1, <1>4 DEF CoverInv, RunInv, PrevInv, RankInv, FreshInv, RecoverInv, MarkInv,
                    Scanned, Marked
<1>11. ScanInv'
  <2>1. \A a, b : Covered(a, b) => Covered(a, b)'
    BY <1>1, <1>6 DEF Covered, InRange
  <2> QED BY <1>1, <1>4, <2>1 DEF CoverInv, RunInv, ScanInv, Leaps, Scanned
<1>12. TodoInv'
  <2>1. Looks'
    <3>1. run.scan # {} => Max(run.scan) \in seen
      BY <1>1 DEF CoverInv, RunInv, ScanInv, Scanned
    <3> QED BY <1>1, <1>8, <3>1 DEF Looks
  <2>2. \A f \in run'.failedToRecover : Overtaken(f)'
    <3>1. \A f \in run.failedToRecover : Overtaken(f)
      BY <1>1 DEF CoverInv, RunInv, TodoInv, Scanned
    <3>2. \A f \in gap : Overtaken(f)
      BY <1>8, <1>9 DEF Overtaken
    <3> QED BY <1>1, <1>4, <3>1, <3>2 DEF Overtaken
  <2>3. run.missing \subseteq run.todo \cup Done /\ run.todo = {}
    BY <1>1 DEF CoverInv, RunInv, TodoInv, Scanned, Looked
  <2> QED BY <1>1, <1>4, <1>6, <2>1, <2>2, <2>3 DEF TodoInv
<1>13. AheadInv'
  <2>1. From \in Int /\ run.last \in Int /\ s \in Int
    BY <1>3, <1>8, SeqInt
  <2>2. From <= s
    BY <1>7, <1>8, <2>1
  <2>3. ASSUME NEW t \in Sequence, From < t, t <= s  PROVE t \in Done'
    <3>1. t \in Int
      BY SeqInt
    <3>2. t <= run.last \/ t \in gap \/ t = s
      BY <2>1, <2>3, <3>1 DEF gap
    <3> QED BY <1>6, <1>7, <2>3, <3>2
  <2>4. \A a \in run'.ahead : a <= s
    <3> SUFFICES ASSUME NEW a \in run.ahead  PROVE a <= s
      BY <1>4, <2>1
    <3>1. a \in Int /\ a <= run.last
      BY <1>1, <1>7, SeqInt DEF RunType
    <3> QED BY <1>8, <2>1, <3>1
  <2>5. \A p \in run'.page : p > s /\ p \in signed'
    <3> SUFFICES ASSUME NEW p \in run.page, p # s  PROVE p > s /\ p \in signed
      BY <1>1, <1>4
    <3>1. p \in Int /\ s <= p /\ p \in signed
      BY <1>1, <1>3, <1>7, SeqInt
    <3> QED BY <2>1, <3>1
  <2>6. \A f \in run'.failedToRecover : f <= s
    <3>1. ASSUME NEW f \in run.failedToRecover  PROVE f <= s
      <4>1. f \in Int /\ f <= run.last
        BY <1>1, <1>7, SeqInt DEF RunType
      <4> QED BY <1>8, <2>1, <4>1
    <3> QED BY <1>4, <1>9, <2>1, <3>1
  <2>7. ASSUME NEW f \in failed
        PROVE  LostBelow(f)' \/ f <= s \/ \E p \in run'.page : f <= p
    <3>1. LostBelow(f) => LostBelow(f)'
      BY DEF LostBelow, Grows
    <3>2. f <= run.last => f <= s
      <4>1. f \in Int
        BY <1>1, SeqInt
      <4> QED BY <1>8, <2>1, <4>1
    <3>3. \A p \in run.page : p = s \/ p \in run'.page
      BY <1>4
    <3> QED BY <1>7, <3>1, <3>2, <3>3
  <2>8. s # None
    BY <2>1, ConstantsAssumption
  <2> QED BY <1>1, <1>4, <1>6, <1>7, <2>2, <2>3, <2>4, <2>5, <2>6, <2>7, <2>8 DEF AheadInv
<1> QED BY <1>2, <1>10, <1>11, <1>12, <1>13 DEF CoverInv, RunInv

\* The steps after looking ahead change the keys, not the run.
LEMMA LookedKept ==
  ASSUME CoverInv, TypeInv', Grows, run' = run, pc \in Looked, pc' \in Looked \ {"ahead"},
         run.page = {}, safe' = safe, base' = base, seen \subseteq seen',
         failed' \subseteq failed \cup run.failedToRecover, Known \subseteq Known'
  PROVE  PrevInv' /\ RankInv' /\ FreshInv' /\ ScanInv' /\ TodoInv' /\ RecoverInv' /\ AheadInv'
<1>1. Done \subseteq Done' /\ From' = From /\ startSeq' = startSeq
  BY DEF Grows, Done, From, LookAheadFrom
<1>2. \A a, b : Covered(a, b) => Covered(a, b)'
  BY <1>1 DEF Covered, InRange
<1>3. (Looks => Looks') /\ \A f : (Overtaken(f) => Overtaken(f)') /\ (LostBelow(f) => LostBelow(f)')
  BY <1>1 DEF Looks, Overtaken, LostBelow, Grows
<1>4. pc \in Scanned /\ pc # "recover" /\ pc' \in Scanned /\ pc' # "recover"
  BY DEF Looked, Scanned
<1>5. PrevInv' /\ RankInv' /\ FreshInv' /\ RecoverInv'
  BY <1>4 DEF CoverInv, RunInv, PrevInv, RankInv, FreshInv, RecoverInv, Looked, Scanned
<1>6. ScanInv'
  BY <1>1, <1>2, <1>4 DEF CoverInv, RunInv, ScanInv, Leaps
<1>7. TodoInv'
  BY <1>1, <1>3, <1>4 DEF CoverInv, RunInv, TodoInv
<1>8. AheadInv'
  <2>1. ASSUME NEW f \in failed'  PROVE LostBelow(f)' \/ (run.last # None /\ f <= run.last)
    BY <1>3 DEF CoverInv, RunInv, AheadInv
  <2> QED BY <1>1, <2>1 DEF CoverInv, RunInv, AheadInv
<1> QED BY <1>5, <1>6, <1>7, <1>8

LEMMA EndAheadKeepsCover ==
  ASSUME CoverInv, TypeInv', SeenInv', Grows, handled' \subseteq signed', EndAhead
  PROVE  CoverInv'
<1> USE DEF redis, history
<1>1. /\ SameKeys /\ run' = run /\ run.page = {} /\ pc = "ahead" /\ pc' = "markFailed"
      /\ safe' = safe /\ base' = base /\ seen \subseteq seen'
      /\ failed' \subseteq failed \cup run.failedToRecover /\ Known \subseteq Known'
  BY DEF SameKeys, EndAhead, Known
<1>2. KeysInv'
  BY <1>1, KeysKept DEF CoverInv
<1>3. PrevInv' /\ RankInv' /\ FreshInv' /\ ScanInv' /\ TodoInv' /\ RecoverInv' /\ AheadInv'
  BY <1>1, LookedKept DEF Looked, Scanned
<1> QED BY <1>1, <1>2, <1>3 DEF CoverInv, RunInv, MarkInv, Marked

LEMMA MarkSeenKeepsCover ==
  ASSUME CoverInv, TypeInv', SeenInv', Grows, handled' \subseteq signed', MarkSeen
  PROVE  CoverInv'
<1> USE DEF redis, history
<1>1. /\ SameKeys /\ run' = run /\ pc = "markSeen" /\ pc' = "unmarkFailed"
      /\ safe' = safe /\ base' = base /\ seen \subseteq seen' /\ failed' = failed
      /\ handled' = handled /\ lost' = lost /\ Known \subseteq Known'
  BY DEF SameKeys, MarkSeen, Known
<1>2. KeysInv'
  BY <1>1, KeysKept DEF CoverInv
<1>3. PrevInv' /\ RankInv' /\ FreshInv' /\ ScanInv' /\ TodoInv' /\ RecoverInv' /\ AheadInv'
  <2>1. run.page = {}
    BY <1>1 DEF CoverInv, RunInv, AheadInv, Looked, Scanned
  <2> QED BY <1>1, <2>1, LookedKept DEF Looked, Scanned
<1>4. MarkInv'
  BY <1>1 DEF CoverInv, RunInv, MarkInv, Marked
<1> QED BY <1>2, <1>3, <1>4 DEF CoverInv, RunInv

LEMMA UnmarkFailedKeepsCover ==
  ASSUME CoverInv, TypeInv', SeenInv', Grows, handled' \subseteq signed', UnmarkFailed
  PROVE  CoverInv'
<1> USE DEF redis, history
<1>1. /\ run' = run /\ pc = "unmarkFailed" /\ pc' = "save"
      /\ safe' = safe /\ base' = base /\ seen' = seen /\ signed' = signed
      /\ failed' \subseteq failed /\ failed \subseteq failed' \cup run.processed
      /\ handled' = handled /\ lost' = lost /\ startSeq' = startSeq
  BY DEF UnmarkFailed
<1>2. failed \subseteq failed' \cup handled
  BY <1>1 DEF CoverInv, SeenInv
<1>3. Known \subseteq Known'
  BY <1>1, <1>2 DEF Known, Grows
<1>4. KeysInv'
  <2>1. \A a, b : Covered(a, b) => Covered(a, b)'
    BY <1>1, <1>3 DEF Covered, InRange
  <2>2. base' # None => safe' # None /\ Covered(base, safe)'
    BY <1>1, <2>1 DEF CoverInv, KeysInv
  <2>3. base' # None => \A f \in failed' : Covered(base, f)'
    BY <1>1, <2>1 DEF CoverInv, KeysInv
  <2>4. \A f \in failed' : LostBelow(f)' \/ (Looks' /\ Overtaken(f)')
    BY <1>1 DEF CoverInv, KeysInv, LostBelow, Looks, Overtaken
  <2> QED BY <1>1, <2>2, <2>3, <2>4 DEF KeysInv, Covered
<1>5. PrevInv' /\ RankInv' /\ FreshInv' /\ ScanInv' /\ TodoInv' /\ RecoverInv' /\ AheadInv'
  <2>1. run.page = {}
    BY <1>1 DEF CoverInv, RunInv, AheadInv, Looked, Scanned
  <2> QED BY <1>1, <1>3, <2>1, LookedKept DEF Looked, Scanned
<1>6. MarkInv'
  BY <1>1, <1>2 DEF CoverInv, RunInv, MarkInv, Marked
<1> QED BY <1>4, <1>5, <1>6 DEF CoverInv, RunInv

LEMMA MarkFailedKeepsCover ==
  ASSUME CoverInv, TypeInv', SeenInv', Grows, handled' \subseteq signed', MarkFailed
  PROVE  CoverInv'
<1> USE DEF redis, history
<1>1. /\ run' = run /\ pc = "markFailed" /\ pc' = "markSeen"
      /\ safe' = safe /\ base' = base /\ seen' = seen /\ signed' = signed
      /\ failed \subseteq failed' /\ failed' \subseteq failed \cup run.failedToRecover
      /\ run.failedToRecover \subseteq failed' \cup lost'
      /\ startSeq' = startSeq
  BY DEF MarkFailed
<1>2. Known \subseteq Known' /\ Done \subseteq Known'
  BY <1>1 DEF Known, Done, Grows
<1>3. \A a, b : Covered(a, b) => Covered(a, b)'
  BY <1>1, <1>2 DEF Covered, InRange
<1>4. pc \in Looked /\ pc \in Scanned
  BY <1>1 DEF Looked, Scanned
<1>5. ASSUME base # None, NEW f \in run.failedToRecover, NEW s \in Sequence,
             base < s, s <= f, InRange(s)
      PROVE  s \in Known'
  <2>1. run.last # None /\ f <= run.last /\ f \in Sequence /\ run.last \in Sequence
        /\ run.scan \in SUBSET Sequence
    BY <1>4 DEF CoverInv, RunInv, AheadInv, TypeInv, TypeOK, RunType
  <2>2. CASE run.scan # {} /\ s <= Min(run.scan)
    <3>1. Covered(base, Min(run.scan))
      BY <1>4, <1>5, <2>2 DEF CoverInv, RunInv, ScanInv
    <3> QED BY <1>2, <1>5, <2>2, <3>1 DEF Covered
  <2>3. CASE run.scan # {} => Min(run.scan) < s
    <3>1. s <= run.last
      BY <1>5, <2>1, SeqInt
    <3>2. s \in Done
      BY <1>4, <1>5, <2>1, <2>3, <3>1, RunCovers DEF CoverInv, TypeInv, RunInv, Reached
    <3> QED BY <1>2, <3>2
  <2>4. run.scan # {} => Min(run.scan) \in Sequence
    BY <2>1, MinOfSeqs
  <2> QED BY <2>2, <2>3, <2>4, SeqInt
<1>6. KeysInv'
  <2>1. base' # None => safe' # None /\ Covered(base, safe)'
    BY <1>1, <1>3 DEF CoverInv, KeysInv
  <2>2. ASSUME base # None, NEW f \in failed'  PROVE Covered(base, f)'
    <3>1. f \in failed => Covered(base, f)'
      BY <1>1, <1>3, <2>2 DEF CoverInv, KeysInv
    <3>2. ASSUME f \in run.failedToRecover  PROVE Covered(base, f)'
      <4>1. \A s \in Sequence : base < s /\ s <= f /\ InRange(s) => s \in Known'
        BY <1>5, <2>2, <3>2
      <4> QED BY <1>1, <4>1 DEF Covered, InRange
    <3> QED BY <1>1, <3>1, <3>2
  <2>3. ASSUME NEW f \in failed'  PROVE LostBelow(f)' \/ (Looks' /\ Overtaken(f)')
    <3>1. LostBelow(f) => LostBelow(f)'
      BY DEF LostBelow, Grows
    <3>2. Looks' = Looks /\ Overtaken(f)' = Overtaken(f)
      BY <1>1 DEF Looks, Overtaken
    <3>3. f \in failed => LostBelow(f) \/ (Looks /\ Overtaken(f))
      BY DEF CoverInv, KeysInv
    <3>4. f \in run.failedToRecover => Looks /\ Overtaken(f)
      BY <1>4 DEF CoverInv, RunInv, TodoInv
    <3> QED BY <1>1, <3>1, <3>2, <3>3, <3>4
  <2> QED BY <1>1, <2>1, <2>2, <2>3 DEF KeysInv, Covered
<1>7. PrevInv' /\ RankInv' /\ FreshInv' /\ ScanInv' /\ TodoInv' /\ RecoverInv' /\ AheadInv'
  <2>1. run.page = {}
    BY <1>1, <1>4 DEF CoverInv, RunInv, AheadInv
  <2> QED BY <1>1, <1>2, <1>4, <2>1, LookedKept DEF Looked, Scanned
<1>8. MarkInv'
  BY <1>1 DEF MarkInv
<1> QED BY <1>6, <1>7, <1>8 DEF CoverInv, RunInv

\* What a run leaves behind when it ends.
LEMMA EndCovers ==
  ASSUME CoverInv, pc = "save", NEW s \in Sequence, InRange(s),
         base # None => base < s,
         run.scan # {} => base # None \/ Min(run.scan) < s,
         (run.last # None /\ s <= run.last) \/ (run.scan # {} /\ s <= Max(run.scan))
  PROVE  s \in Known
<1>1. pc \in Looked /\ pc \in Scanned /\ pc \in Marked
  BY DEF Looked, Scanned, Marked
<1>2. run.scan \in SUBSET Sequence
  BY DEF CoverInv, TypeInv, TypeOK, RunType
<1>3. CASE run.scan # {} => Min(run.scan) < s
  <2>1. s \in Done
    BY <1>1, <1>3, RunCovers DEF CoverInv, TypeInv, RunInv, Reached
  <2> QED BY <1>1, <2>1 DEF Done, Known, CoverInv, RunInv, MarkInv
<1>4. CASE run.scan # {} /\ ~(Min(run.scan) < s)
  <2>1. s <= Min(run.scan)
    BY <1>2, <1>4, MinOfSeqs, SeqInt
  <2>2. base # None /\ Covered(base, Min(run.scan))
    BY <1>1, <1>4 DEF CoverInv, RunInv, ScanInv
  <2> QED BY <2>1, <2>2 DEF Covered
<1> QED BY <1>3, <1>4

LEMMA SaveSafeKeepsCover ==
  ASSUME CoverInv, TypeInv', SeenInv', Grows, handled' \subseteq signed', SaveSafe
  PROVE  CoverInv'
<1> USE DEF redis, history
<1>1. /\ pc = "save" /\ Elsewhere
      /\ startSeq' = startSeq /\ signed' = signed /\ handled' = handled /\ seen' = seen
      /\ failed' = failed /\ threw' = threw /\ lost' = lost
  BY DEF SaveSafe, EndRun, Elsewhere, Scanned
<1>2. KeysInv' => CoverInv'
  BY <1>1, ElsewhereRunInv DEF CoverInv
<1>3. CASE safe' = safe /\ base' = base
  <2>1. SameKeys
    BY <1>1, <1>3 DEF SameKeys
  <2> QED BY <1>2, <2>1, KeysKept DEF CoverInv
<1>4. ASSUME base' = (IF base # None THEN base
                      ELSE IF run.scan # {} THEN Min(run.scan)
                      ELSE IF run.ahead # {} THEN startSeq
                      ELSE None),
             NEW F \in SUBSET Sequence, F \in {failed, {}}, safe' = LastSafe(run, F)
      PROVE  KeysInv'
  <2>1. /\ run \in RunType /\ run.scan \in SUBSET Sequence /\ run.ahead \in SUBSET Sequence
        /\ run.missing \in SUBSET Sequence /\ run.last \in Sequence \cup {None}
        /\ failed \in SUBSET Sequence /\ startSeq \in Sequence \cup {None}
        /\ base \in Sequence \cup {None} /\ safe \in Sequence \cup {None}
        /\ base' \in Sequence \cup {None} /\ safe' \in Sequence \cup {None}
    BY DEF CoverInv, TypeInv, TypeOK, RunType
  <2>2. Known' = Known /\ pc \in Looked /\ pc \in Scanned /\ pc \in Marked
    BY <1>1 DEF Known, Looked, Scanned, Marked
  <2>3. /\ run.missing = Leaps(run.scan) /\ run.page = {}
        /\ run.last = None => run.ahead = {}
        /\ run.last # None => \A a \in run.ahead : a <= run.last
        /\ \A f \in failed : LostBelow(f) \/ (run.last # None /\ f <= run.last)
    BY <1>1, <2>2 DEF CoverInv, RunInv, AheadInv, ScanInv
  <2>4. base' # None => base # None \/ run.scan # {} \/ run.ahead # {}
    BY <1>4
  <2>5. ASSUME NEW s \in Sequence, base' # None, base' < s, InRange(s),
               (run.last # None /\ s <= run.last) \/ (run.scan # {} /\ s <= Max(run.scan))
        PROVE  s \in Known
    <3>1. base # None => base < s
      BY <1>4, <2>5
    <3>2. run.scan # {} => base # None \/ Min(run.scan) < s
      BY <1>4, <2>5
    <3> QED BY <1>1, <2>5, <3>1, <3>2, EndCovers
  <2>6. ASSUME base' # None, NEW f \in failed  PROVE Covered(base, f)'
    <3>1. ASSUME NEW s \in Sequence, base' < s, s <= f, InRange(s)  PROVE s \in Known
      <4>1. f \in Int /\ s \in Int /\ f \in Sequence
        BY <2>1, <2>6, SeqInt
      <4>2. CASE s = f
        BY <2>6, <4>2 DEF Known
      <4>3. CASE LostBelow(f) /\ s # f
        BY <3>1, <4>1, <4>3 DEF LostBelow, Known
      <4>4. CASE run.last # None /\ f <= run.last
        <5>1. s <= run.last
          <6>1. s \in Int /\ f \in Int /\ run.last \in Int /\ s <= f /\ f <= run.last
            BY <2>1, <3>1, <4>1, <4>4, SeqInt
          <6> QED BY <6>1
        <5> QED BY <2>5, <2>6, <3>1, <4>4, <5>1
      <4> QED BY <2>3, <2>6, <4>2, <4>3, <4>4
    <3> QED BY <1>1, <2>2, <3>1 DEF Covered, InRange
  <2>7. ASSUME base' # None  PROVE safe' # None /\ Covered(base, safe)'
    <3>1. ASSUME safe' \in Sequence,
                 \A s \in Sequence : base' < s /\ s <= safe' /\ InRange(s) => s \in Known
          PROVE  safe' # None /\ Covered(base, safe)'
      BY <1>1, <2>2, <3>1, SeqInt, ConstantsAssumption DEF Covered, InRange
    <3>2. base' \in Sequence
      BY <2>1, <2>7
    <3>3. CASE F # {}
      <4>1. Min(failed) \in failed /\ Min(failed) \in Sequence /\ safe' = Min(failed) - 1
        BY <1>4, <2>1, <3>3, MinOfSeqs DEF LastSafe
      <4>2. Covered(base, Min(failed))'
        BY <1>1, <2>6, <2>7, <4>1
      <4>3. ASSUME NEW s \in Sequence, base' < s, s <= safe', InRange(s)  PROVE s \in Known
        <5>1. s <= Min(failed)
          BY <4>1, <4>3, SeqInt
        <5> QED BY <1>1, <2>2, <4>2, <4>3, <5>1 DEF Covered, InRange
      <4>4. safe' \in Sequence
        BY <2>1, <4>1, SeqInt, ConstantsAssumption
      <4> QED BY <3>1, <4>3, <4>4
    <3>4. CASE F = {} /\ run.missing # {} /\ run.failedToRecover \cup run.failedToReprocess # {}
      <4>1. safe' = Min(run.missing) - 1
        BY <1>4, <3>4 DEF LastSafe
      <4>2. run.scan # {} /\ Min(run.missing) \in run.missing
        BY <2>1, <2>3, <3>4, MinOfSeqs DEF Leaps
      <4>3. Min(run.missing) <= Max(run.scan) /\ Min(run.missing) \in Sequence
            /\ Max(run.scan) \in Sequence
        BY <2>1, <2>3, <4>2, MaxOfSeqs DEF Leaps
      <4>4. ASSUME NEW s \in Sequence, base' < s, s <= safe', InRange(s)  PROVE s \in Known
        <5>1. s <= Max(run.scan)
          BY <4>1, <4>3, <4>4, SeqInt
        <5> QED BY <2>5, <2>7, <4>2, <4>4, <5>1
      <4>5. safe' \in Sequence
        BY <2>1, <4>1, <4>3, SeqInt, ConstantsAssumption
      <4> QED BY <3>1, <4>4, <4>5
    <3>5. CASE F = {} /\ run.ahead # {} /\ safe' = Max(run.ahead)
      <4>1. safe' \in run.ahead /\ safe' \in Sequence
        BY <2>1, <3>5, MaxOfSeqs
      <4>2. run.last # None /\ safe' <= run.last /\ run.last \in Sequence
        BY <2>1, <2>3, <3>5, <4>1
      <4>3. ASSUME NEW s \in Sequence, base' < s, s <= safe', InRange(s)  PROVE s \in Known
        <5>1. s <= run.last
          BY <4>1, <4>2, <4>3, SeqInt
        <5> QED BY <2>5, <2>7, <4>2, <4>3, <5>1
      <4> QED BY <3>1, <4>1, <4>3
    <3>6. CASE F = {} /\ run.scan # {} /\ safe' = Max(run.scan)
      <4>1. safe' \in Sequence
        BY <2>1, <3>6, MaxOfSeqs
      <4> QED BY <2>5, <2>7, <3>1, <3>6, <4>1
    <3>7. CASE F = {} /\ run.ahead = {} /\ run.scan = {}
              /\ safe' = IF run.prevSafe # None THEN run.prevSafe ELSE 0
      <4>1. base # None /\ base' = base
        BY <1>4, <2>7, <3>7
      <4>2. safe # None /\ Covered(base, safe) /\ run.prevSafe \in {None, safe}
        BY <2>2, <4>1 DEF CoverInv, KeysInv, RunInv, PrevInv
      <4>3. CASE run.prevSafe # None
        BY <2>1, <3>1, <3>7, <4>1, <4>2, <4>3 DEF Covered
      <4>4. CASE run.prevSafe = None
        <5>1. safe' = 0 /\ 0 \in Sequence
          BY <3>7, <4>4, ConstantsAssumption DEF Sequence
        <5>2. \A s \in Sequence : ~(base' < s /\ s <= 0)
          BY <3>2, SeqInt
        <5> QED BY <3>1, <5>1, <5>2
      <4> QED BY <4>3, <4>4
    <3> QED BY <1>4, <3>3, <3>4, <3>5, <3>6, <3>7 DEF LastSafe
  <2>8. \A f \in failed : (LostBelow(f) \/ (Looks /\ Overtaken(f)))'
    BY <1>1 DEF CoverInv, KeysInv, LostBelow, Looks, Overtaken
  <2> QED BY <1>1, <2>6, <2>7, <2>8 DEF CoverInv, KeysInv
<1>5. failed \in SUBSET Sequence
  BY DEF CoverInv, TypeInv, TypeOK
<1> QED BY <1>2, <1>3, <1>4, <1>5 DEF SaveSafe

-----------------------------------------------------------------------------
LEMMA CoverStep == CoverInv /\ [Next]_vars => CoverInv'
<1> SUFFICES ASSUME CoverInv, [Next]_vars  PROVE CoverInv'
  OBVIOUS
<1>1. TypeInv' /\ SeenInv'
  BY TypeStep, SeenStep DEF CoverInv, TypeInv
<1>2. Grows /\ handled' \subseteq signed'
  <2>1. pc = "ahead" => run.page \subseteq signed
    BY DEF CoverInv, RunInv, AheadInv, Looked, Scanned, TypeInv
  <2> QED BY <2>1, StepGrows DEF CoverInv, TypeInv, KeysInv
<1>3. ASSUME NEW s \in Sequence, Sign(s) \/ SpyDeliver(s) \/ MarkVaaSeen(s)
      PROVE  CoverInv'
  BY <1>1, <1>2, <1>3, OutsideKeepsCover
<1>4. CASE UNCHANGED vars
  BY <1>1, <1>2, <1>4, OutsideKeepsCover
<1>5. CASE Crash \/ Start \/ UpdateSeenSequences \/ RegisterEventListeners \/ AbortRun
  BY <1>1, <1>2, <1>5, StartKeepsCover
<1>6. CASE DropIndex
  BY <1>1, <1>2, <1>6, DropIndexKeepsCover
<1>7. CASE ReadSafe \/ ReadRank
  BY <1>1, <1>2, <1>7, ReadKeepsCover
<1>8. CASE ReadSeen
  BY <1>1, <1>2, <1>8, ReadSeenKeepsCover
<1>9. ASSUME NEW s \in Sequence,
             RecoverMissing(s) \/ FetchMissingFails(s) \/ ReprocessMissingFails(s)
      PROVE  CoverInv'
  BY <1>1, <1>2, <1>9, RecoverKeepsCover
<1>10. CASE ListAhead
  BY <1>1, <1>2, <1>10, ListAheadKeepsCover
<1>11. ASSUME NEW s \in Sequence, ProcessAhead(s) \/ ProcessAheadFails(s)
       PROVE  CoverInv'
  BY <1>1, <1>2, <1>11, AheadKeepsCover
<1>12. CASE EndAhead
  BY <1>1, <1>2, <1>12, EndAheadKeepsCover
<1>13. CASE MarkFailed
  BY <1>1, <1>2, <1>13, MarkFailedKeepsCover
<1>14. CASE MarkSeen
  BY <1>1, <1>2, <1>14, MarkSeenKeepsCover
<1>15. CASE UnmarkFailed
  BY <1>1, <1>2, <1>15, UnmarkFailedKeepsCover
<1>16. CASE SaveSafe
  BY <1>1, <1>2, <1>16, SaveSafeKeepsCover
<1> QED
  BY <1>3, <1>4, <1>5, <1>6, <1>7, <1>8, <1>9, <1>10, <1>11, <1>12, <1>13, <1>14, <1>15,
     <1>16 DEF Next, Worker

\* Below the safe sequence (helpers.ts calculateLastSafeSequence) nothing is
\* forgotten, whatever fails, is delivered late or restarts, and however many
\* sequences, runs and failures there are: each is taken in, recorded as failed,
\* rejected by processVaa, or one that swallowed Redis errors hide.
THEOREM SafeSequenceCovers == Spec => []SafeCovers
<1>1. Init => CoverInv
  <2> SUFFICES ASSUME Init  PROVE CoverInv
    OBVIOUS
  <2>1. TypeInv
    BY NoRunType, ConstantsAssumption DEF Init, TypeInv, TypeOK, NoRun, Phase
  <2>2. SeenInv
    BY <2>1 DEF Init, SeenInv, TypeInv, NoRun
  <2>3. KeysInv
    BY DEF Init, KeysInv
  <2>4. RunInv
    BY DEF Init, RunInv, PrevInv, RankInv, FreshInv, ScanInv, TodoInv, RecoverInv, AheadInv,
           MarkInv, Scanned, Looked, Marked
  <2> QED BY <2>1, <2>2, <2>3, <2>4 DEF CoverInv
<1>2. CoverInv => SafeCovers
  BY DEF CoverInv, KeysInv, Covered, InRange, Known, SafeCovers
<1> QED BY <1>1, <1>2, CoverStep, PTL DEF Spec
=============================================================================
