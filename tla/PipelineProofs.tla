--------------------------- MODULE PipelineProofs ---------------------------
(* Proofs about Pipeline, for all values of its constants.                  *)
EXTENDS Pipeline, FiniteSetTheorems, TLAPS

\* The record a step of the run reads is an element of what it has fetched.
LEMMA ReadsFetched ==
  ASSUME TypeOK, NEW r \in Records, Reads(r)
  PROVE  /\ pc = "poll" /\ r \in visible /\ r \in fetched
         /\ TimeOf[r] \in Positions /\ TimeOf[r] \in Nat
  BY RecordsAssumption DEF TypeOK, Reads, Positions

\* Positions are numbers.
LEMMA PositionsAreNumbers == Positions \subseteq Nat
  BY RecordsAssumption DEF Positions

\* Every step keeps TypeOK.
LEMMA TypeStep == TypeOK /\ [Next]_vars => TypeOK'
<1> SUFFICES ASSUME TypeOK, [Next]_vars
             PROVE  TypeOK'
  OBVIOUS
<1> USE DEF TypeOK
<1>1. ASSUME NEW r \in Records, Arrive(r)
      PROVE  TypeOK'
  BY <1>1 DEF Arrive, runVars
<1>2. CASE StartRun
  BY <1>2 DEF StartRun, Positions
<1>3. CASE FetchPage
  BY <1>3 DEF FetchPage
<1>4. ASSUME NEW r \in Records, Skip(r)
      PROVE  TypeOK'
  BY <1>4, ReadsFetched DEF Skip
<1>5. ASSUME NEW r \in Records, Drop(r)
      PROVE  TypeOK'
  BY <1>5, ReadsFetched DEF Drop
<1>6. ASSUME NEW r \in Records, Yield(r)
      PROVE  TypeOK'
  BY <1>6, ReadsFetched DEF Yield
<1>7. CASE Exhaust
  BY <1>7 DEF Exhaust, runVars
<1>8. CASE Resume
  BY <1>8 DEF Resume, Positions
<1>9. CASE CutByLimit
  BY <1>9 DEF CutByLimit, runVars
<1>10. CASE UploadOk
  BY <1>10 DEF UploadOk, CountCopies
<1>11. CASE EndRun
  BY <1>11 DEF EndRun, ForgetRun, Positions
<1>12. ASSUME NEW r \in Records, RaiseOnRecord(r)
       PROVE  TypeOK'
  BY <1>12 DEF RaiseOnRecord, Abandon, ForgetRun, Positions
<1>13. CASE PollFails
  BY <1>13 DEF PollFails, Abandon, ForgetRun, Positions
<1>14. CASE UploadRejected
  BY <1>14 DEF UploadRejected, Abandon, ForgetRun, ForfeitFinalBatch,
               Positions
<1>15. CASE UploadUnanswered
  BY <1>15 DEF UploadUnanswered, Abandon, ForgetRun, CountCopies,
               Positions
<1>16. CASE Crash
  BY <1>16 DEF Crash, Abandon, ForgetRun, ForfeitFinalBatch,
               Positions
<1>17. CASE UNCHANGED vars
  BY <1>17 DEF vars
<1>18. QED
  BY <1>1, <1>2, <1>3, <1>4, <1>5, <1>6, <1>7, <1>8, <1>9, <1>10, <1>11,
     <1>12, <1>13, <1>14, <1>15, <1>16, <1>17
     DEF Next, Poll, Consume, Fault

\* Type correctness: BaseCollector.run and its consumer keep every variable in
\* its range; in particular what is batched was read and what is read was
\* fetched.
THEOREM TypeCorrect == Spec => []TypeOK
<1>1. Init => TypeOK
  BY DEF Init, TypeOK, Positions
<1>2. TypeOK /\ [Next]_vars => TypeOK'
  BY TypeStep
<1>3. QED
  BY <1>1, <1>2, PTL DEF Spec

-----------------------------------------------------------------------------
(* The inductive invariant, one lemma per kind of step.  TypeOK and its next *)
(* state are at hand in each of them.                                       *)

\* A record that arrives on time is newer than the checkpoint.
LEMMA ArriveStep ==
  ASSUME IInv, TypeOK', NEW r \in Records, Arrive(r)
  PROVE  IInv'
<1> USE RecordsAssumption, PositionsAreNumbers DEF IInv, TypeOK, Arrive, runVars
<1>1. ckpt < TimeOf[r] \/ r \in late'
  BY DEF PositionsInStep, Overtaken
<1>2. PositionsInStep'
  BY DEF PositionsInStep, Running
<1>3. UnfetchedAreNewer'
  BY DEF UnfetchedAreNewer, Running, Overtaken
<1>4. BatchAhead' /\ BatchBounded' /\ SeenAccountedFor'
  BY DEF BatchAhead, BatchBounded, SeenAccountedFor, Running
<1>5. NoSilentLoss'
  BY <1>1 DEF NoSilentLoss
<1>6. QED
  BY <1>2, <1>3, <1>4, <1>5

\* A run starts at the checkpoint, having gone past nothing.
LEMMA StartStep ==
  ASSUME IInv, TypeOK', StartRun
  PROVE  IInv'
<1> USE RecordsAssumption, ConfigAssumption, PositionsAreNumbers
    DEF IInv, TypeOK, StartRun
<1>1. PositionsInStep' /\ UnfetchedAreNewer'
  BY DEF PositionsInStep, UnfetchedAreNewer, Running
<1>2. BatchAhead' /\ BatchBounded' /\ SeenAccountedFor'
  BY FS_EmptySet DEF BatchAhead, BatchBounded, SeenAccountedFor, Running
<1>3. NoSilentLoss'
  BY DEF NoSilentLoss
<1>4. QED
  BY <1>1, <1>2, <1>3

\* Reading on brings in newer records only.
LEMMA FetchStep ==
  ASSUME IInv, TypeOK', FetchPage
  PROVE  IInv'
<1> USE RecordsAssumption, PositionsAreNumbers DEF IInv, TypeOK, FetchPage
<1>1. PositionsInStep' /\ UnfetchedAreNewer'
  BY DEF PositionsInStep, UnfetchedAreNewer, Running
<1>2. BatchAhead' /\ BatchBounded' /\ SeenAccountedFor' /\ NoSilentLoss'
  BY DEF BatchAhead, BatchBounded, SeenAccountedFor, NoSilentLoss, Running
<1>3. QED
  BY <1>1, <1>2

\* A record that is passed by or dropped is no event ahead of the checkpoint.
LEMMA PassStep ==
  ASSUME IInv, TypeOK', NEW r \in Records, Skip(r) \/ Drop(r)
  PROVE  IInv'
<1> USE RecordsAssumption, PositionsAreNumbers DEF IInv, TypeOK
<1>1. /\ pc = "poll" /\ r \in fetched /\ seen' = seen \cup {r}
      /\ TimeOf[r] <= ckpt \/ Kind[r] # "event"
      /\ lastPos' = lastPos \/ (lastPos' = TimeOf[r] /\ TimeOf[r] > ckpt)
      /\ UNCHANGED <<visible, late, ckpt, pc, since, heldPos, fetched, batch,
                     copies, forfeited>>
  BY ReadsFetched
     DEF Skip, Drop, Reads, PassedByPoll, DroppedByRun, PositionsInStep, Running
<1>2. PositionsInStep' /\ UnfetchedAreNewer'
  BY <1>1 DEF PositionsInStep, UnfetchedAreNewer, Running
<1>3. BatchAhead' /\ BatchBounded' /\ SeenAccountedFor' /\ NoSilentLoss'
  BY <1>1 DEF BatchAhead, BatchBounded, SeenAccountedFor, NoSilentLoss, Running
<1>4. QED
  BY <1>2, <1>3

\* A yielded event goes into a batch that has room for it.
LEMMA YieldStep ==
  ASSUME IInv, TypeOK', NEW r \in Records, Yield(r)
  PROVE  IInv'
<1> USE RecordsAssumption, ConfigAssumption, PositionsAreNumbers
    DEF IInv, TypeOK, Yield
<1>1. pc = "poll" /\ r \in fetched /\ TimeOf[r] > ckpt
  BY DEF Reads, PassedByPoll, PositionsInStep, Running
<1>2. PositionsInStep' /\ UnfetchedAreNewer'
  BY <1>1 DEF PositionsInStep, UnfetchedAreNewer, Running
<1>3. BatchAhead' /\ SeenAccountedFor' /\ NoSilentLoss'
  BY <1>1 DEF BatchAhead, SeenAccountedFor, NoSilentLoss, Running
<1>4. BatchBounded'
  <2>1. IsFiniteSet(batch) /\ batch' = batch \cup {r}
    BY DEF BatchBounded
  <2>2. /\ IsFiniteSet(batch')
        /\ Cardinality(batch') = IF r \in batch THEN Cardinality(batch)
                                                ELSE Cardinality(batch) + 1
    BY <2>1, FS_AddElement
  <2>3. Cardinality(batch) \in Nat
    BY <2>1, FS_CardinalityType
  <2>4. QED
    BY <1>1, <2>2, <2>3 DEF BatchBounded
<1>5. QED
  BY <1>2, <1>3, <1>4

\* The checkpoint covers only records this run has gone past: what the source
\* has not returned is newer than every position reached.
LEMMA ExhaustStep ==
  ASSUME IInv, TypeOK', Exhaust
  PROVE  IInv'
<1> USE RecordsAssumption, PositionsAreNumbers DEF IInv, TypeOK, Exhaust, runVars
<1>1. ckpt' = lastPos /\ lastPos >= ckpt
  BY DEF PositionsInStep, Running
<1>2. PositionsInStep'
  BY <1>1 DEF PositionsInStep, Running
<1>3. UnfetchedAreNewer' /\ BatchAhead' /\ BatchBounded' /\ SeenAccountedFor'
  BY DEF UnfetchedAreNewer, BatchAhead, BatchBounded, SeenAccountedFor, Running
<1>4. ASSUME NEW r \in visible \ late, Kind[r] = "event", TimeOf[r] <= lastPos
      PROVE  copies[r] > 0 \/ r \in batch \/ r \in forfeited
  <2>1. CASE TimeOf[r] <= ckpt
    BY <1>4, <2>1 DEF NoSilentLoss
  <2>2. CASE TimeOf[r] > ckpt
    <3>1. r \in fetched
      BY <1>4, <2>2 DEF PositionsInStep, UnfetchedAreNewer, Running
    <3>2. QED
      BY <1>4, <2>2, <3>1 DEF SeenAccountedFor, Running
  <2>3. QED
    BY <2>1, <2>2
<1>5. NoSilentLoss'
  BY <1>1, <1>4 DEF NoSilentLoss
<1>6. QED
  BY <1>2, <1>3, <1>5

\* The consumer asks for the next event, or stops at the limit.
LEMMA ResumeStep ==
  ASSUME IInv, TypeOK', Resume \/ CutByLimit
  PROVE  IInv'
<1> USE RecordsAssumption, ConfigAssumption, PositionsAreNumbers DEF IInv, TypeOK
<1>1. /\ pc = "held" /\ pc' \in {"poll", "cut"} /\ ~FullBatch
      /\ lastPos' = heldPos \/ pc' = "cut"
      /\ UNCHANGED <<visible, late, ckpt, since, fetched, seen, batch, copies,
                     forfeited>>
  BY DEF Resume, CutByLimit, runVars
<1>2. PositionsInStep' /\ UnfetchedAreNewer'
  BY <1>1 DEF PositionsInStep, UnfetchedAreNewer, Running
<1>3. BatchAhead' /\ SeenAccountedFor' /\ NoSilentLoss'
  BY <1>1 DEF BatchAhead, SeenAccountedFor, NoSilentLoss, Running
<1>4. BatchBounded'
  BY <1>1, FS_CardinalityType DEF BatchBounded, FullBatch
<1>5. QED
  BY <1>2, <1>3, <1>4

\* An accepted batch stays accounted for by its copies.
LEMMA UploadStep ==
  ASSUME IInv, TypeOK', UploadOk
  PROVE  IInv'
<1> USE RecordsAssumption, ConfigAssumption, PositionsAreNumbers
    DEF IInv, TypeOK, UploadOk, CountCopies
<1>1. \A r \in Records : /\ copies[r] > 0 => copies'[r] > 0
                         /\ r \in batch => copies'[r] > 0
  OBVIOUS
<1>2. PositionsInStep' /\ UnfetchedAreNewer'
  BY DEF PositionsInStep, UnfetchedAreNewer, Running
<1>3. BatchAhead' /\ SeenAccountedFor' /\ NoSilentLoss'
  BY <1>1 DEF BatchAhead, SeenAccountedFor, NoSilentLoss, Running
<1>4. BatchBounded'
  BY FS_EmptySet DEF BatchBounded
<1>5. QED
  BY <1>2, <1>3, <1>4

\* However a run ends, the events the checkpoint covers are accepted or
\* forfeited.
LEMMA EndStep ==
  ASSUME IInv, TypeOK', pc' = "idle", ForgetRun,
         UNCHANGED <<visible, late, ckpt>>,
         \A r \in Records : copies[r] > 0 => copies'[r] > 0,
         forfeited \subseteq forfeited',
         pc = "tail" => \A r \in batch : copies'[r] > 0 \/ r \in forfeited'
  PROVE  IInv'
<1> USE RecordsAssumption, ConfigAssumption, PositionsAreNumbers
    DEF IInv, TypeOK, ForgetRun
<1>1. PositionsInStep' /\ UnfetchedAreNewer' /\ BatchAhead' /\ SeenAccountedFor'
  BY DEF PositionsInStep, UnfetchedAreNewer, BatchAhead, SeenAccountedFor, Running
<1>2. BatchBounded'
  BY FS_EmptySet DEF BatchBounded
<1>3. NoSilentLoss'
  BY DEF NoSilentLoss
<1>4. QED
  BY <1>1, <1>2, <1>3

\* The inductive invariant holds of every reachable state.
THEOREM Invariant == Spec => []IInv
<1>1. Init => IInv
  <2> SUFFICES ASSUME Init PROVE IInv
    OBVIOUS
  <2>1. TypeOK
    BY DEF Init, TypeOK, Positions
  <2>2. BatchBounded
    BY ConfigAssumption, FS_EmptySet DEF Init, BatchBounded
  <2>3. QED
    BY <2>1, <2>2 DEF Init, IInv, PositionsInStep, UnfetchedAreNewer, BatchAhead,
       SeenAccountedFor, NoSilentLoss, Running
<1>2. IInv /\ [Next]_vars => IInv'
  <2> SUFFICES ASSUME IInv, [Next]_vars
               PROVE  IInv'
    OBVIOUS
  <2>1. TypeOK /\ TypeOK'
    BY TypeStep DEF IInv
  <2>2. ASSUME NEW r \in Records, Arrive(r)
        PROVE  IInv'
    BY <2>1, <2>2, ArriveStep
  <2>3. CASE StartRun
    BY <2>1, <2>3, StartStep
  <2>4. CASE Poll
    BY <2>1, <2>4, FetchStep, PassStep, YieldStep, ExhaustStep DEF Poll
  <2>5. CASE Resume \/ CutByLimit
    BY <2>1, <2>5, ResumeStep
  <2>6. CASE UploadOk
    BY <2>1, <2>6, UploadStep
  <2>7. CASE EndRun
    BY <2>1, <2>7, EndStep DEF EndRun
  <2>8. ASSUME NEW r \in Records, RaiseOnRecord(r)
        PROVE  IInv'
    BY <2>1, <2>8, EndStep DEF RaiseOnRecord, Reads, Abandon
  <2>9. CASE Fault
    <3>1. CASE PollFails
      BY <2>1, <3>1, EndStep DEF PollFails, Abandon
    <3>2. CASE UploadRejected
      BY <2>1, <3>2, EndStep DEF UploadRejected, Abandon, ForfeitFinalBatch
    <3>3. CASE UploadUnanswered
      <4>1. \A r \in Records : /\ copies[r] > 0 => copies'[r] > 0
                               /\ r \in batch => copies'[r] > 0
        BY <2>1, <3>3 DEF UploadUnanswered, CountCopies, TypeOK
      <4>2. batch \subseteq Records
        BY <2>1 DEF TypeOK
      <4>3. QED
        BY <2>1, <3>3, <4>1, <4>2, EndStep DEF UploadUnanswered, Abandon
    <3>4. CASE Crash
      BY <2>1, <3>4, EndStep DEF Crash, Abandon, ForfeitFinalBatch
    <3>5. QED
      BY <2>9, <3>1, <3>2, <3>3, <3>4 DEF Fault
  <2>10. CASE UNCHANGED vars
    BY <2>1, <2>10
       DEF vars, IInv, PositionsInStep, UnfetchedAreNewer, BatchAhead,
           BatchBounded, SeenAccountedFor, NoSilentLoss, Running
  <2>11. QED
    BY <2>2, <2>3, <2>4, <2>5, <2>6, <2>7, <2>8, <2>9, <2>10 DEF Next, Consume
<1>3. QED
  BY <1>1, <1>2, PTL DEF Spec

\* The checkpoint leaves no event behind, whatever the order of the source, the
\* kinds of its records, the failures of the runs and the limit.
THEOREM NothingLostSilently == Spec => []NoSilentLoss
<1>1. IInv => NoSilentLoss
  BY DEF IInv
<1>2. QED
  BY <1>1, Invariant, PTL

\* The checkpoint never moves back.
THEOREM CheckpointNeverBack == Spec => CheckpointMonotone
<1>1. IInv /\ [Next]_vars => [ckpt' >= ckpt]_vars
  <2> SUFFICES ASSUME IInv, [Next]_vars
               PROVE  ckpt' >= ckpt
    OBVIOUS
  <2>1. ckpt \in Nat
    BY PositionsAreNumbers DEF IInv, TypeOK
  <2>2. CASE Exhaust
    BY <2>1, <2>2 DEF Exhaust, IInv, PositionsInStep, Running
  <2>3. CASE ckpt' = ckpt
    BY <2>1, <2>3
  <2>4. Exhaust \/ ckpt' = ckpt
    BY DEF Next, Arrive, StartRun, Poll, FetchPage, Skip, Drop, Yield, Consume,
           Resume, CutByLimit, UploadOk, EndRun, RaiseOnRecord, Fault, PollFails,
           UploadRejected, UploadUnanswered, Crash, Abandon, runVars, vars
  <2>5. QED
    BY <2>2, <2>3, <2>4
<1>2. QED
  BY <1>1, Invariant, PTL DEF Spec, CheckpointMonotone

\* A forfeited final batch is smaller than a batch.
THEOREM ForfeitsAreSmall == Spec => ForfeitsLessThanABatch
<1>1. IInv /\ [Next]_vars => [Cardinality(forfeited' \ forfeited) < BatchSize]_vars
  <2> SUFFICES ASSUME IInv, [Next]_vars
               PROVE  Cardinality(forfeited' \ forfeited) < BatchSize
    OBVIOUS
  <2>1. IsFiniteSet(batch) /\ Cardinality(batch) \in Nat
    BY FS_CardinalityType DEF IInv, BatchBounded
  <2>2. CASE pc = "tail" /\ forfeited' = forfeited \cup batch
    <3>1. forfeited' \ forfeited \in SUBSET batch
      BY <2>2
    <3>2. IsFiniteSet(forfeited' \ forfeited)
          /\ Cardinality(forfeited' \ forfeited) <= Cardinality(batch)
      BY <2>1, <3>1, FS_Subset
    <3>3. Cardinality(forfeited' \ forfeited) \in Nat
      BY <3>2, FS_CardinalityType
    <3>4. QED
      BY <2>1, <2>2, <3>2, <3>3, ConfigAssumption DEF IInv, BatchBounded
  <2>3. CASE forfeited' = forfeited
    <3>1. forfeited' \ forfeited = {}
      BY <2>3
    <3>2. QED
      BY <3>1, FS_EmptySet, ConfigAssumption
  <2>4. \/ forfeited' = forfeited
        \/ pc = "tail" /\ forfeited' = forfeited \cup batch
    BY DEF Next, Arrive, StartRun, Poll, FetchPage, Skip, Drop, Yield, Exhaust,
           Consume, Resume, CutByLimit, UploadOk, EndRun, RaiseOnRecord, Fault,
           PollFails, UploadRejected, UploadUnanswered, Crash, Abandon,
           ForfeitFinalBatch, runVars, vars
  <2>5. QED
    BY <2>2, <2>3, <2>4
<1>2. QED
  BY <1>1, Invariant, PTL DEF Spec, ForfeitsLessThanABatch

-----------------------------------------------------------------------------
(* Records that raise.                                                      *)

\* A run goes past nothing that stops it.
RaisingUnseen == \A r \in seen : ~StopsRun(r)

\* The checkpoint stays behind what raises and came on time.
RaisersAhead == \A p \in visible \ late : Raises(p) => ckpt < TimeOf[p]

PoisonInv == RaisingUnseen /\ RaisersAhead

LEMMA RaisingUnseenStep == IInv /\ RaisingUnseen /\ [Next]_vars => RaisingUnseen'
<1> SUFFICES ASSUME IInv, RaisingUnseen, [Next]_vars
             PROVE  RaisingUnseen'
  OBVIOUS
<1> USE RecordsAssumption, PositionsAreNumbers DEF RaisingUnseen, StopsRun, RaisesInRun
<1>1. ASSUME NEW r \in Records, Skip(r) \/ Drop(r) \/ Yield(r)
      PROVE  RaisingUnseen'
  <2>1. seen' = seen \cup {r} /\ since' = since
    BY <1>1 DEF Skip, Drop, Yield
  <2>2. since \in Nat /\ TimeOf[r] \in Nat
    BY DEF IInv, TypeOK
  <2>3. ~StopsRun(r)
    BY <1>1, <2>2, ConfigAssumption
       DEF Skip, Drop, Yield, PassedByPoll, DroppedByRun, Kinds
  <2> QED
    BY <2>1, <2>3
<1>2. CASE seen' = {}
  BY <1>2
<1>3. CASE UNCHANGED <<seen, since>>
  BY <1>3
<1>4. \/ \E r \in Records : Skip(r) \/ Drop(r) \/ Yield(r)
      \/ seen' = {}
      \/ UNCHANGED <<seen, since>>
  BY DEF Next, Arrive, StartRun, Poll, FetchPage, Exhaust, Consume, Resume, CutByLimit,
         UploadOk, EndRun, ForgetRun, RaiseOnRecord, Fault, PollFails, UploadRejected,
         UploadUnanswered, Crash, Abandon, runVars, vars
<1> QED
  BY <1>1, <1>2, <1>3, <1>4

\* A run that is through has been given nothing that stops it.
LEMMA ExhaustedUnstopped ==
  ASSUME IInv, RaisingUnseen, Exhaust
  PROVE  /\ pc = "poll" /\ seen = fetched /\ since = ckpt
         /\ ckpt' = lastPos /\ UNCHANGED <<visible, late>>
         /\ \A p \in fetched : ~StopsRun(p)
  BY DEF Exhaust, IInv, PositionsInStep, Running, runVars, RaisingUnseen

\* The checkpoint moves when a run is through: by then it would have met whatever
\* raises, unless that came up only after the run had asked.
LEMMA PoisonStep == IInv /\ PoisonInv /\ [Next]_vars => PoisonInv'
<1> SUFFICES ASSUME IInv, PoisonInv, [Next]_vars
             PROVE  RaisersAhead'
  BY RaisingUnseenStep DEF PoisonInv
<1> USE RecordsAssumption, PositionsAreNumbers
    DEF PoisonInv, RaisersAhead, Raises, RaisesInRun, IInv, TypeOK
<1>1. ASSUME NEW r \in Records, Arrive(r)
      PROVE  RaisersAhead'
  <2>1. ckpt < TimeOf[r] \/ r \in late'
    BY <1>1 DEF Arrive, PositionsInStep, Overtaken
  <2> QED
    BY <1>1, <2>1 DEF Arrive
<1>2. CASE Exhaust
  <2>1. /\ pc = "poll" /\ since = ckpt
        /\ ckpt' = lastPos /\ UNCHANGED <<visible, late>>
        /\ \A p \in fetched : ~StopsRun(p)
    BY <1>2, ExhaustedUnstopped
  <2>2. ASSUME NEW p \in visible \ late, Raises(p)
        PROVE  lastPos < TimeOf[p]
    <3>1. ckpt < TimeOf[p]
      BY <2>2
    <3>2. p \notin fetched
      BY <2>1, <2>2, <3>1 DEF StopsRun
    <3> QED
      BY <2>1, <2>2, <3>1, <3>2 DEF UnfetchedAreNewer, PositionsInStep, Running
  <2> QED
    BY <2>1, <2>2
<1>3. CASE UNCHANGED <<visible, late, ckpt>>
  BY <1>3
<1>4. \/ \E r \in Records : Arrive(r)
      \/ Exhaust
      \/ UNCHANGED <<visible, late, ckpt>>
  BY DEF Next, StartRun, Poll, FetchPage, Skip, Drop, Yield, Consume, Resume, CutByLimit,
         UploadOk, EndRun, RaiseOnRecord, Fault, PollFails, UploadRejected,
         UploadUnanswered, Crash, Abandon, vars
<1> QED
  BY <1>1, <1>2, <1>3, <1>4

LEMMA PoisonInvariant == Spec => []PoisonInv
<1>1. Init => PoisonInv
  BY DEF Init, PoisonInv, RaisingUnseen, RaisersAhead
<1> QED
  BY <1>1, PoisonStep, Invariant, PTL DEF Spec

\* In whatever order the source answers, and whatever comes while a run is under
\* way, the checkpoint never passes a record that raises and came on time, and a run
\* that is given one that stops it, however old, does not move the checkpoint.
THEOREM PoisonHolds == Spec => PoisonNeverPassed
<1>1. /\ IInv /\ PoisonInv /\ PoisonInv' /\ [Next]_vars
      => [\A p \in Records :
            /\ p \in visible \ late /\ Raises(p) => ckpt' < TimeOf[p]
            /\ p \in fetched /\ StopsRun(p) => ckpt' = ckpt]_vars
  <2> SUFFICES ASSUME IInv, PoisonInv, PoisonInv', [Next]_vars, NEW p \in Records
               PROVE  /\ (p \in visible \ late /\ Raises(p)) => ckpt' < TimeOf[p]
                      /\ (p \in fetched /\ StopsRun(p)) => ckpt' = ckpt
    OBVIOUS
  <2>1. Exhaust \/ ckpt' = ckpt
    BY DEF Next, Arrive, StartRun, Poll, FetchPage, Skip, Drop, Yield, Consume, Resume,
           CutByLimit, UploadOk, EndRun, RaiseOnRecord, Fault, PollFails,
           UploadRejected, UploadUnanswered, Crash, Abandon, runVars, vars
  <2>2. CASE Exhaust
    <3>1. UNCHANGED <<visible, late>> /\ \A q \in fetched : ~StopsRun(q)
      BY <2>2, ExhaustedUnstopped DEF PoisonInv
    <3> QED
      BY <3>1 DEF PoisonInv, RaisersAhead, Raises, RaisesInRun
  <2>3. CASE ckpt' = ckpt
    BY <2>3 DEF PoisonInv, RaisersAhead
  <2> QED
    BY <2>1, <2>2, <2>3
<1> QED
  BY <1>1, PoisonInvariant, Invariant, PTL DEF Spec, PoisonNeverPassed

\* Nothing behind a record that raises has been read or accepted, nor has a run that
\* is given one that stops it read anything newer.
NothingBehindPoison ==
  /\ \A r \in Records : copies[r] > 0 => r \in visible
  /\ \A p \in visible \ late, r \in Records :
       Raises(p) /\ (r \in seen \/ copies[r] > 0) => TimeOf[r] <= TimeOf[p]
  /\ \A p \in fetched, r \in seen : StopsRun(p) => TimeOf[r] <= TimeOf[p]

\* What is accepted was in the batch, and so had been seen.
LEMMA CopiesComeFromBatch ==
  ASSUME TypeOK, [Next]_vars, NEW r \in Records
  PROVE  copies'[r] = copies[r] \/ (r \in batch /\ copies'[r] = copies[r] + 1)
  BY DEF Next, Arrive, StartRun, Poll, FetchPage, Skip, Drop, Yield, Exhaust, Consume,
         Resume, CutByLimit, UploadOk, EndRun, RaiseOnRecord, Fault, PollFails,
         UploadRejected, UploadUnanswered, Crash, CountCopies, vars, TypeOK

\* What a run goes past it has just read, or had gone past before.
LEMMA SeenByReading ==
  ASSUME [Next]_vars, NEW r \in Records, r \in seen'
  PROVE  \/ r \in seen /\ since' = since
         \/ Reads(r) /\ UNCHANGED <<fetched, since>>
  BY DEF Next, Arrive, StartRun, Poll, FetchPage, Skip, Drop, Yield, Exhaust, Consume,
         Resume, CutByLimit, UploadOk, EndRun, ForgetRun, RaiseOnRecord, Fault,
         PollFails, UploadRejected, UploadUnanswered, Crash, Abandon, runVars, vars

\* What a source in order adds to its answer is not older than what it had shown.
LEMMA PagesGoOn ==
  ASSUME InOrder, TypeOK, [Next]_vars, NEW p \in Records, NEW r \in seen,
         r \in seen', p \in fetched' \ fetched
  PROVE  TimeOf[r] <= TimeOf[p]
<1>1. CASE FetchPage
  BY <1>1 DEF FetchPage, TypeOK
<1>2. FetchPage \/ seen' = {} \/ fetched' = fetched
  BY DEF Next, Arrive, StartRun, Poll, Skip, Drop, Yield, Exhaust, Consume, Resume,
         CutByLimit, UploadOk, EndRun, ForgetRun, RaiseOnRecord, Fault, PollFails,
         UploadRejected, UploadUnanswered, Crash, Abandon, runVars, vars
<1> QED
  BY <1>1, <1>2

LEMMA BehindPoisonStep ==
  ASSUME InOrder, IInv, PoisonInv, NothingBehindPoison, [Next]_vars
  PROVE  NothingBehindPoison'
<1> USE RecordsAssumption, PositionsAreNumbers DEF IInv, TypeOK
<1>1. visible \subseteq visible' /\ visible \subseteq Records /\ TypeOK'
  BY TypeStep DEF Next, Arrive, StartRun, Poll, FetchPage, Skip, Drop, Yield, Exhaust,
         Consume, Resume, CutByLimit, UploadOk, EndRun, RaiseOnRecord, Fault, PollFails,
         UploadRejected, UploadUnanswered, Crash, Abandon, runVars, vars
<1>2. \A r \in Records : copies'[r] > 0 => r \in visible'
  BY <1>1, CopiesComeFromBatch DEF NothingBehindPoison
<1>3. ASSUME NEW p \in visible \ late, Raises(p), NEW r \in Records,
             r \in seen' \/ copies'[r] > 0
      PROVE  TimeOf[r] <= TimeOf[p]
  <2>1. CASE Reads(r)
    <3>1. r \in fetched \ seen /\ pc = "poll"
          /\ \A q \in fetched \ seen : TimeOf[r] <= TimeOf[q]
      BY <2>1, InOrder DEF Reads
    <3>2. ckpt < TimeOf[p] /\ since = ckpt
      BY <1>3, <3>1 DEF PoisonInv, RaisersAhead, PositionsInStep, Running
    <3>3. p \notin seen
      BY <1>3, <3>2 DEF PoisonInv, RaisingUnseen, StopsRun, Raises
    <3>4. p \notin fetched => TimeOf[r] < TimeOf[p]
      BY <1>3, <3>1, <3>2 DEF UnfetchedAreNewer, Running
    <3> QED
      BY <3>1, <3>3, <3>4
  <2>2. CASE r \in seen
    BY <1>3, <2>2 DEF NothingBehindPoison
  <2>3. CASE copies[r] > 0
    BY <1>1, <1>3, <2>3 DEF NothingBehindPoison
  <2>4. r \in seen' => r \in seen \/ Reads(r)
    BY SeenByReading
  <2>5. copies'[r] > 0 => copies[r] > 0 \/ r \in seen
    BY CopiesComeFromBatch
  <2> QED
    BY <1>3, <2>1, <2>2, <2>3, <2>4, <2>5
<1>4. ASSUME NEW p \in visible' \ late', p \notin visible \ late, NEW r \in Records,
             r \in seen' \/ copies'[r] > 0
      PROVE  TimeOf[r] <= TimeOf[p]
  <2>1. \/ Arrive(p) /\ ~Overtaken(p)
        \/ UNCHANGED <<visible, late>>
        \/ \E q \in Records : q # p /\ visible' = visible \cup {q} /\ late \subseteq late'
    BY DEF Next, Arrive, StartRun, Poll, FetchPage, Skip, Drop, Yield, Exhaust, Consume,
           Resume, CutByLimit, UploadOk, EndRun, RaiseOnRecord, Fault, PollFails,
           UploadRejected, UploadUnanswered, Crash, Abandon, vars
  <2>2. Arrive(p) /\ ~Overtaken(p)
    BY <1>4, <2>1
  <2>3. r \in visible /\ p \in Records
    BY <1>1, <1>4, <2>2 DEF Arrive, NothingBehindPoison, runVars
  <2> QED
    BY <2>2, <2>3 DEF Overtaken
<1>5. \A p \in visible' \ late', r \in Records :
         Raises(p) /\ (r \in seen' \/ copies'[r] > 0) => TimeOf[r] <= TimeOf[p]
  BY <1>3, <1>4
<1>6. ASSUME NEW p \in fetched', NEW r \in seen', StopsRun(p)'
      PROVE  TimeOf[r] <= TimeOf[p]
  <2>1. p \in Records /\ r \in Records
    BY <1>1
  <2>2. \/ r \in seen /\ since' = since
        \/ Reads(r) /\ UNCHANGED <<fetched, since>>
    BY <2>1, SeenByReading
  <2>3. StopsRun(p)
    BY <1>6, <2>2 DEF StopsRun, RaisesInRun
  <2>4. CASE Reads(r) /\ UNCHANGED <<fetched, since>>
    <3>1. r \in fetched \ seen /\ \A q \in fetched \ seen : TimeOf[r] <= TimeOf[q]
      BY <2>4, InOrder DEF Reads
    <3>2. p \in fetched \ seen
      BY <1>6, <2>3, <2>4 DEF PoisonInv, RaisingUnseen
    <3> QED
      BY <3>1, <3>2
  <2>5. CASE r \in seen
    <3>1. CASE p \in fetched
      BY <2>3, <2>5, <3>1 DEF NothingBehindPoison
    <3>2. CASE p \notin fetched
      BY <1>6, <2>1, <2>5, <3>2, PagesGoOn
    <3> QED
      BY <3>1, <3>2
  <2> QED
    BY <2>2, <2>4, <2>5
<1> QED
  BY <1>2, <1>5, <1>6 DEF NothingBehindPoison, Raises, RaisesInRun

\* If the source answers in order, a record that raises holds up all that is newer:
\* none of it is ever accepted if the record came on time, and none from a run that is
\* given it if it came late.
THEOREM PoisonStops == ASSUME InOrder PROVE Spec => PoisonBlocks
<1>1. Init => NothingBehindPoison
  BY DEF Init, NothingBehindPoison
<1>2. IInv /\ PoisonInv /\ NothingBehindPoison /\ [Next]_vars => NothingBehindPoison'
  BY BehindPoisonStep
<1>3. /\ IInv /\ NothingBehindPoison /\ [Next]_vars
      => [\A p, r \in Records :
            /\ TimeOf[p] < TimeOf[r]
            /\ (p \in visible \ late /\ Raises(p)) \/ (p \in fetched /\ StopsRun(p))
            => copies'[r] = copies[r]]_vars
  <2> SUFFICES ASSUME IInv, NothingBehindPoison, [Next]_vars,
                      NEW p \in Records, NEW r \in Records, TimeOf[p] < TimeOf[r],
                      (p \in visible \ late /\ Raises(p)) \/ (p \in fetched /\ StopsRun(p))
               PROVE  copies'[r] = copies[r]
    OBVIOUS
  <2>1. r \notin seen
    BY RecordsAssumption DEF NothingBehindPoison
  <2> QED
    BY <2>1, CopiesComeFromBatch DEF IInv, TypeOK
<1> QED
  BY <1>1, <1>2, <1>3, Invariant, PoisonInvariant, PTL DEF Spec, PoisonBlocks

-----------------------------------------------------------------------------
(* How often an event is accepted.                                          *)

Repeats == broken + cuts

\* A run reads in order of time, so that the position it saves covers every event it
\* has gone past.
ReadInOrder ==
  /\ Running => \A r \in seen : \A q \in fetched \ seen : TimeOf[r] <= TimeOf[q]
  /\ \A r \in seen : Kind[r] = "event" =>
       /\ pc = "poll" => TimeOf[r] <= lastPos
       /\ pc = "held" => TimeOf[r] <= heldPos
       /\ pc = "tail" => TimeOf[r] <= ckpt

\* What is batched is newer than the position the run started from.
BatchIsNew ==
  pc # "idle" => since <= ckpt /\ \A r \in batch : TimeOf[r] > since

\* Only a run can add to the copies of what the checkpoint has not covered, each run
\* once, and unless it saves its checkpoint it is counted.
CopiesInStep ==
  /\ \A r \in Records : copies[r] > 0 => Kind[r] = "event"
  /\ pc = "idle" => \A r \in Records : TimeOf[r] > ckpt => copies[r] <= Repeats
  /\ pc \in {"poll", "held", "tail"} =>
       \A r \in Records :
         TimeOf[r] > since /\ (r \notin seen \/ r \in batch) => copies[r] <= Repeats
  /\ pc = "cut" =>
       \A r \in Records : copies[r] <= IF r \in batch THEN Repeats - 1 ELSE Repeats
  /\ CopiesBounded

CopiesInv == ReadInOrder /\ BatchIsNew /\ CopiesInStep

LEMMA BatchIsNewStep == IInv /\ BatchIsNew /\ [Next]_vars => BatchIsNew'
<1> SUFFICES ASSUME IInv, BatchIsNew, [Next]_vars
             PROVE  BatchIsNew'
  OBVIOUS
<1> USE RecordsAssumption, PositionsAreNumbers DEF BatchIsNew, IInv, TypeOK
<1>1. CASE StartRun
  BY <1>1 DEF StartRun
<1>2. ASSUME NEW r \in Records, Yield(r)
      PROVE  BatchIsNew'
  BY <1>2 DEF Yield, Reads, PassedByPoll
<1>3. CASE Exhaust
  BY <1>3 DEF Exhaust, PositionsInStep, Running, runVars
<1>4. CASE pc' = "idle"
  BY <1>4
<1>5. CASE pc # "idle" /\ batch' \subseteq batch /\ UNCHANGED <<since, ckpt>>
  BY <1>5
<1>6. \/ StartRun \/ Exhaust \/ pc' = "idle"
      \/ \E r \in Records : Yield(r)
      \/ pc # "idle" /\ batch' \subseteq batch /\ UNCHANGED <<since, ckpt>>
  BY DEF Next, Arrive, Poll, FetchPage, Skip, Drop, Reads, Consume, Resume, CutByLimit,
         UploadOk, EndRun, RaiseOnRecord, Fault, PollFails, UploadRejected,
         UploadUnanswered, Crash, Abandon, runVars, vars
<1> QED
  BY <1>1, <1>2, <1>3, <1>4, <1>5, <1>6

LEMMA ReadInOrderStep ==
  ASSUME InOrder, IInv, ReadInOrder, [Next]_vars
  PROVE  ReadInOrder'
<1> USE RecordsAssumption, PositionsAreNumbers DEF ReadInOrder, IInv, TypeOK, Running
<1>1. ASSUME NEW r \in Records, Arrive(r)
      PROVE  ReadInOrder'
  BY <1>1 DEF Arrive, runVars
<1>2. CASE pc' = "cut" \/ (pc' = "idle" /\ seen' = {})
  BY <1>2
<1>3. CASE StartRun
  BY <1>3 DEF StartRun
<1>4. CASE FetchPage
  BY <1>4, InOrder DEF FetchPage
<1>5. ASSUME NEW r \in Records, Skip(r)
      PROVE  ReadInOrder'
  <2>1. /\ pc = "poll" /\ r \in fetched \ seen /\ \A q \in fetched \ seen : TimeOf[r] <= TimeOf[q]
        /\ TimeOf[r] <= lastPos \/ Kind[r] # "event"
    BY <1>5, InOrder DEF Skip, Reads, PassedByPoll, PositionsInStep
  <2> QED
    BY <1>5, <2>1 DEF Skip
<1>6. ASSUME NEW r \in Records, Drop(r) \/ Yield(r)
      PROVE  ReadInOrder'
  <2>1. pc = "poll" /\ r \in fetched \ seen /\ \A q \in fetched \ seen : TimeOf[r] <= TimeOf[q]
    BY <1>6, InOrder DEF Drop, Yield, Reads
  <2>2. /\ seen' = seen \cup {r} /\ UNCHANGED <<late, fetched>>
        /\ (pc' = "poll" /\ lastPos' = TimeOf[r]) \/ (pc' = "held" /\ heldPos' = TimeOf[r])
    BY <1>6, <2>1 DEF Drop, Yield, Reads
  <2> QED
    BY <2>1, <2>2
<1>7. CASE Exhaust
  BY <1>7 DEF Exhaust, PositionsInStep, runVars
<1>8. CASE Resume
  BY <1>8 DEF Resume
<1>9. CASE UploadOk
  BY <1>9 DEF UploadOk
<1>10. CASE UNCHANGED vars
  BY <1>10 DEF vars
<1>11. \/ pc' = "cut" \/ (pc' = "idle" /\ seen' = {})
       \/ ~(CutByLimit \/ EndRun \/ Fault \/ \E r \in Records : RaiseOnRecord(r))
  BY DEF CutByLimit, EndRun, Fault, RaiseOnRecord, PollFails, UploadRejected,
         UploadUnanswered, Crash, Abandon, ForgetRun
<1> QED
  BY <1>1, <1>2, <1>3, <1>4, <1>5, <1>6, <1>7, <1>8, <1>9, <1>10, <1>11
     DEF Next, Poll, Consume

\* A run that is over has left nothing accepted twice that its checkpoint does not
\* cover, or counts among those that repeat.
LEMMA AbandonedCopies ==
  ASSUME IInv, CopiesInv, TypeOK', pc # "idle", Abandon,
         \A r \in Records : copies'[r] = copies[r]
                             \/ (r \in batch /\ copies'[r] = copies[r] + 1)
  PROVE  CopiesInStep'
<1> USE RecordsAssumption, PositionsAreNumbers
    DEF CopiesInv, CopiesInStep, CopiesBounded, Repeats, IInv, TypeOK, Abandon
<1>1. \A r \in Records : copies'[r] > 0 => Kind[r] = "event"
  BY DEF BatchAhead
<1>2. CASE pc \in {"poll", "held"}
  <2>1. Repeats' = Repeats + 1
    BY <1>2
  <2>2. \A r \in batch : copies[r] <= Repeats
    BY <1>2 DEF BatchIsNew
  <2> QED
    BY <1>1, <2>1, <2>2, <1>2 DEF ReadInOrder, PositionsInStep, Running
<1>3. CASE pc = "tail"
  <2>1. Repeats' = Repeats /\ pc' = "idle" /\ ckpt' = ckpt
    BY <1>3
  <2>2. \A r \in batch : copies[r] <= Repeats
    BY <1>3 DEF BatchIsNew
  <2>3. ASSUME NEW r \in Records, TimeOf[r] > ckpt
        PROVE  copies'[r] <= Repeats
    BY <1>1, <1>3, <2>2, <2>3 DEF BatchIsNew, ReadInOrder
  <2> QED
    BY <1>1, <2>1, <2>2, <2>3
<1>4. CASE pc = "cut"
  BY <1>1, <1>4
<1> QED
  BY <1>2, <1>3, <1>4

LEMMA CopiesInStepStep ==
  ASSUME IInv, CopiesInv, [Next]_vars
  PROVE  CopiesInStep'
<1> USE RecordsAssumption, PositionsAreNumbers
    DEF CopiesInv, CopiesInStep, CopiesBounded, Repeats, IInv, TypeOK
<1>0. TypeOK'
  BY TypeStep
<1>1. ASSUME NEW r \in Records, Arrive(r)
      PROVE  CopiesInStep'
  BY <1>1 DEF Arrive, runVars
<1>2. CASE StartRun
  BY <1>2 DEF StartRun
<1>3. ASSUME NEW r \in Records, Skip(r) \/ Drop(r)
      PROVE  CopiesInStep'
  BY <1>3, ReadsFetched DEF Skip, Drop
<1>4. ASSUME NEW r \in Records, Yield(r)
      PROVE  CopiesInStep'
  BY <1>4 DEF Yield, Reads, PassedByPoll
<1>5. CASE FetchPage \/ Resume \/ Exhaust
  BY <1>5 DEF FetchPage, Resume, Exhaust, runVars
<1>6. CASE CutByLimit
  BY <1>6 DEF CutByLimit, BatchIsNew, runVars
<1>7. CASE UploadOk
  BY <1>7 DEF UploadOk, BatchIsDue, CountCopies, BatchIsNew, BatchAhead
<1>8. CASE EndRun
  BY <1>8 DEF EndRun, ForgetRun, BatchIsNew, ReadInOrder
<1>9. CASE Fault \/ \E r \in Records : RaiseOnRecord(r)
  <2>1. pc # "idle" /\ Abandon
    BY <1>9 DEF Fault, RaiseOnRecord, Reads, PollFails, UploadRejected, UploadUnanswered,
                Crash, BatchIsDue
  <2> QED
    BY <1>0, <2>1, CopiesComeFromBatch, AbandonedCopies
<1>10. CASE UNCHANGED vars
  BY <1>10 DEF vars
<1> QED
  BY <1>1, <1>2, <1>3, <1>4, <1>5, <1>6, <1>7, <1>8, <1>9, <1>10
     DEF Next, Poll, Consume

\* If the source answers in order, an event is accepted once, and once more at most for
\* every run that was broken or cut, whatever comes late.
THEOREM RepeatsAreCounted ==
  ASSUME InOrder
  PROVE  Spec => []CopiesBounded
<1>1. Init => CopiesInv
  BY DEF Init, CopiesInv, ReadInOrder, BatchIsNew, CopiesInStep, CopiesBounded, Repeats,
         Running
<1>2. IInv /\ CopiesInv /\ [Next]_vars => CopiesInv'
  BY BatchIsNewStep, ReadInOrderStep, CopiesInStepStep DEF CopiesInv
<1>3. CopiesInv => CopiesBounded
  BY DEF CopiesInv, CopiesInStep
<1> QED
  BY <1>1, <1>2, <1>3, Invariant, PTL DEF Spec

-----------------------------------------------------------------------------
(* Pipeline implements Delivery.                                            *)

\* A run with something in its batch has a position ahead of the checkpoint, so that
\* the checkpoint moves when the run is through and the batch becomes what is held.
BatchMovesOn == pc = "poll" /\ batch # {} => lastPos > ckpt

LEMMA BatchMovesOnStep == IInv /\ BatchMovesOn /\ [Next]_vars => BatchMovesOn'
<1> SUFFICES ASSUME IInv, BatchMovesOn, [Next]_vars, pc' = "poll", batch' # {}
             PROVE  lastPos' > ckpt'
  BY DEF BatchMovesOn
<1> USE RecordsAssumption, PositionsAreNumbers DEF BatchMovesOn, IInv, TypeOK
<1>1. CASE Resume
  BY <1>1 DEF Resume, PositionsInStep
<1>2. ASSUME NEW r \in Records, Drop(r)
      PROVE  lastPos' > ckpt'
  BY <1>2, ReadsFetched
     DEF Drop, PassedByPoll, DroppedByRun, PositionsInStep, Running
<1>3. CASE pc = "poll" /\ batch' = batch /\ UNCHANGED <<lastPos, ckpt>>
  BY <1>3
<1>4. \/ Resume
      \/ \E r \in Records : Drop(r)
      \/ pc = "poll" /\ batch' = batch /\ UNCHANGED <<lastPos, ckpt>>
  BY DEF Next, Arrive, StartRun, Poll, FetchPage, Skip, Yield, Exhaust, Consume,
         CutByLimit, UploadOk, BatchIsDue, EndRun, RaiseOnRecord, Fault, PollFails,
         UploadRejected, UploadUnanswered, Crash, Abandon, runVars, vars
<1> QED
  BY <1>1, <1>2, <1>3, <1>4

\* Delivery counts as Pipeline does.
LEMMA SameCount == \A S : Promise!Cardinality(S) = Cardinality(S)
  BY DEF Promise!Cardinality, Cardinality

\* What Delivery holds.
Held == IF pc = "tail" THEN batch ELSE {}

LEMMA ArriveDelivers ==
  ASSUME IInv, NEW r \in Records, Arrive(r)
  PROVE  Promise!Next
<1>1. TimeOf[r] <= ckpt => r \in late'
  BY RecordsAssumption, PositionsAreNumbers
     DEF IInv, TypeOK, PositionsInStep, Arrive, Overtaken
<1> QED
  BY <1>1 DEF Arrive, runVars, Promise!Next, Promise!Publish

\* The checkpoint moves up, and the batch is what it has claimed; or it stays, and
\* there is no batch.
LEMMA ExhaustDelivers ==
  ASSUME IInv, BatchMovesOn, Exhaust
  PROVE  Promise!Next \/ UNCHANGED Promise!deliveryVars
<1> USE RecordsAssumption, PositionsAreNumbers DEF IInv, TypeOK
<1>1. /\ pc = "poll" /\ pc' = "tail" /\ ckpt' = lastPos /\ lastPos >= ckpt
      /\ seen = fetched
      /\ UNCHANGED <<visible, late, batch, copies, forfeited>>
  BY DEF Exhaust, PositionsInStep, Running, runVars
<1>2. CASE lastPos = ckpt
  BY <1>1, <1>2 DEF BatchMovesOn, Promise!deliveryVars
<1>3. CASE lastPos > ckpt
  <2>1. PICK q \in visible : TimeOf[q] = lastPos
    BY <1>1, <1>3 DEF PositionsInStep, Running
  <2>2. batch \subseteq visible \cap Promise!Events /\ Cardinality(batch) < BatchSize
    BY <1>1 DEF BatchAhead, BatchBounded, Promise!Events
  <2>3. ASSUME NEW r \in (visible \cap Promise!Events) \ late,
               TimeOf[r] > ckpt, TimeOf[r] <= lastPos
        PROVE  copies[r] > 0 \/ r \in batch
    <3>1. r \in fetched
      BY <1>1, <1>3, <2>3 DEF PositionsInStep, UnfetchedAreNewer, Running
    <3> QED
      BY <1>1, <2>3, <3>1 DEF SeenAccountedFor, Running, Promise!Events
  <2>4. Promise!Advance(TimeOf[q], batch)
    BY <1>1, <1>3, <2>1, <2>2, <2>3, SameCount DEF Promise!Advance
  <2> QED
    BY <2>1, <2>2, <2>4 DEF Promise!Next
<1> QED
  BY <1>1, <1>2, <1>3

\* A batch that is accepted is delivered, whether or not the checkpoint has passed it.
LEMMA AcceptedDelivers ==
  ASSUME IInv, BatchIsDue, CountCopies,
         UNCHANGED <<visible, late, ckpt, forfeited>>,
         Held' = {}
  PROVE  Promise!Next
<1> USE DEF IInv, TypeOK
<1>1. batch # {} /\ batch \subseteq visible \cap Promise!Events
  <2>1. CASE pc = "held"
    BY <2>1, ConfigAssumption, FS_EmptySet
       DEF BatchIsDue, FullBatch, BatchAhead, Promise!Events
  <2> QED
    BY <2>1 DEF BatchIsDue, BatchAhead, Promise!Events
<1>2. Cardinality(batch) \in 1..BatchSize
  BY <1>1, ConfigAssumption, FS_EmptySet, FS_CardinalityType DEF BatchBounded
<1>3. Held \subseteq batch /\ \A r \in batch : TimeOf[r] > ckpt \/ r \in Held
  BY DEF BatchAhead, Held
<1>4. Promise!Deliver(batch)
  BY <1>1, <1>2, <1>3, SameCount DEF CountCopies, Held, Promise!Deliver, Promise!AddCopies
<1> QED
  BY <1>1, <1>4 DEF Promise!Next

\* A batch that is dropped is lost if the checkpoint covers it; otherwise nothing has
\* been promised of it yet.
LEMMA DroppedDelivers ==
  ASSUME IInv, pc' = "idle", ForfeitFinalBatch, UNCHANGED <<visible, late, ckpt, copies>>
  PROVE  Promise!Next \/ UNCHANGED Promise!deliveryVars
<1>1. CASE pc = "tail" /\ batch # {}
  BY <1>1 DEF ForfeitFinalBatch, Promise!Next, Promise!Lose
<1>2. CASE pc # "tail" \/ batch = {}
  BY <1>2 DEF ForfeitFinalBatch, Promise!deliveryVars
<1> QED
  BY <1>1, <1>2

LEMMA StepDelivers ==
  ASSUME IInv, BatchMovesOn, [Next]_vars
  PROVE  [Promise!Next]_(Promise!deliveryVars)
<1>1. ASSUME NEW r \in Records, Arrive(r)
      PROVE  Promise!Next
  BY <1>1, ArriveDelivers
<1>2. CASE Exhaust
  BY <1>2, ExhaustDelivers
<1>3. CASE UploadOk
  <2>1. /\ BatchIsDue /\ CountCopies /\ batch' = {} /\ pc' = pc
        /\ UNCHANGED <<visible, late, ckpt, forfeited>>
    BY <1>3 DEF UploadOk
  <2> QED
    BY <2>1, AcceptedDelivers DEF Held
<1>4. CASE UploadUnanswered
  BY <1>4, AcceptedDelivers DEF UploadUnanswered, Abandon, Held
<1>5. CASE UploadRejected \/ Crash
  BY <1>5, DroppedDelivers DEF UploadRejected, Crash, Abandon
<1>6. CASE /\ UNCHANGED <<visible, late, ckpt, copies, forfeited>>
           /\ pc # "tail" \/ batch = {} \/ UNCHANGED batch
           /\ pc' # "tail" \/ (pc = "tail" /\ UNCHANGED batch)
           /\ pc = "tail" /\ pc' # "tail" => batch = {}
  BY <1>6 DEF Promise!deliveryVars
<1>7. \/ \E r \in Records : Arrive(r)
      \/ Exhaust \/ UploadOk \/ UploadUnanswered \/ UploadRejected \/ Crash
      \/ /\ UNCHANGED <<visible, late, ckpt, copies, forfeited>>
         /\ pc # "tail" \/ batch = {} \/ UNCHANGED batch
         /\ pc' # "tail" \/ (pc = "tail" /\ UNCHANGED batch)
         /\ pc = "tail" /\ pc' # "tail" => batch = {}
  BY DEF Next, StartRun, Poll, FetchPage, Skip, Drop, Yield, Reads, Consume, Resume,
         CutByLimit, EndRun, RaiseOnRecord, Fault, PollFails, Abandon, runVars, vars
<1> QED
  BY <1>1, <1>2, <1>3, <1>4, <1>5, <1>6, <1>7

\* run() and run_and_upload keep a collector's promise, for every source, batch size,
\* limit and pattern of faults: each of their steps is one of Delivery's, or none.
THEOREM DeliveryIsImplemented == Spec => ImplementsDelivery
<1>1. Init => Promise!Init /\ BatchMovesOn
  BY DEF Init, Promise!Init, BatchMovesOn
<1>2. IInv /\ BatchMovesOn /\ [Next]_vars => [Promise!Next]_(Promise!deliveryVars)
  BY StepDelivers
<1> QED
  BY <1>1, <1>2, BatchMovesOnStep, Invariant, PTL DEF Spec, ImplementsDelivery, Promise!Spec
=============================================================================
