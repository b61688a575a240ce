------------------------------ MODULE Pipeline ------------------------------
(***************************************************************************)
(* One collector over all of its runs: BaseCollector.run (base.py) as the  *)
(* generator, the checkpoint filter of DeclarativeMappedCollector.poll     *)
(* (field_mapping.py) in front of it, and run_and_upload / _batched        *)
(* (discovery.py) as its consumer.  The generator is suspended at every    *)
(* yield, so the consumer's uploads happen between two of its statements;  *)
(* the order in which records are yielded, uploaded and checkpointed is    *)
(* what this module is about.                                              *)
(*                                                                         *)
(* A position is the time of a record; no position (None) is 0.            *)
(***************************************************************************)
EXTENDS Naturals, FiniteSets

CONSTANTS
  Records,            \* what the source will ever hold
  TimeOf,             \* the event_time of each record
  Kind,               \* what the framework makes of each record
  BatchSize,          \* batch_size of run_and_upload
  Limit,              \* --limit, or NoLimit
  StoreUncorrelated,  \* the collector's store_uncorrelated
  InOrder,            \* TRUE iff the source returns its records oldest first
  LateArrivals,       \* TRUE iff a record may appear behind a newer one
  MaxBroken,          \* bound: faults happen only in the first MaxBroken broken runs
  MaxCuts             \* bound: no run starts after MaxCuts runs cut by --limit

NoLimit == 0

\* "event"        is correlated and mapped to an event
\* "uncorrelated" has no identity: correlate() returns None
\* "unmapped"     map_to_event() returns None
\* "misfit"       makes map_to_event() raise
\* "incomplete"   lacks a required field: _record_to_activity() returns None
\* "poison"       makes _record_to_activity() raise
Kinds == {"event", "uncorrelated", "unmapped", "misfit", "incomplete", "poison"}

ASSUME RecordsAssumption ==
  /\ TimeOf \in [Records -> Nat \ {0}]
  /\ Kind \in [Records -> Kinds]

ASSUME ConfigAssumption ==
  /\ BatchSize \in Nat \ {0}
  /\ Limit \in Nat
  /\ StoreUncorrelated \in BOOLEAN
  /\ InOrder \in BOOLEAN
  /\ LateArrivals \in BOOLEAN
  /\ MaxBroken \in Nat
  /\ MaxCuts \in Nat

VARIABLES
  visible,    \* the records the source holds so far
  late,       \* history: those that appeared no newer than one already there
  ckpt,       \* the position in the checkpoint file
  pc,         \* "idle", "poll", "held" (suspended at yield), "tail" (generator
              \* exhausted, checkpoint saved) or "cut" (stopped by the limit)
  since,      \* run()'s since
  lastPos,    \* run()'s last_position
  heldPos,    \* next_position(activity) while run() is suspended at its yield
  fetched,    \* the records the source has returned to this run
  seen,       \* those of them poll() has gone past
  batch,      \* _batched's batch
  taken,      \* the events islice has let through
  copies,     \* history: how often the API has accepted each record
  forfeited,  \* history: records of a final batch that was never accepted
  broken,     \* history: the runs that ended without saving a checkpoint
  cuts        \* history: the runs that ended at the limit

runVars == <<since, lastPos, heldPos, fetched, seen, batch, taken>>
vars == <<visible, late, ckpt, pc, since, lastPos, heldPos, fetched, seen,
          batch, taken, copies, forfeited, broken, cuts>>

Positions == {0} \cup {TimeOf[r] : r \in Records}

Init ==
  /\ visible = {} /\ late = {}
  /\ ckpt = 0
  /\ pc = "idle"
  /\ since = 0 /\ lastPos = 0 /\ heldPos = 0
  /\ fetched = {} /\ seen = {} /\ batch = {}
  /\ taken = 0
  /\ copies = [r \in Records |-> 0]
  /\ forfeited = {}
  /\ broken = 0 /\ cuts = 0

-----------------------------------------------------------------------------
(* The source.                                                             *)

Overtaken(r) == \E q \in visible : TimeOf[r] <= TimeOf[q]

Arrive(r) ==
  /\ r \notin visible
  /\ Overtaken(r) => LateArrivals
  /\ visible' = visible \cup {r}
  /\ late' = IF Overtaken(r) THEN late \cup {r} ELSE late
  /\ UNCHANGED <<ckpt, pc, runVars, copies, forfeited, broken, cuts>>

-----------------------------------------------------------------------------
(* The generator: BaseCollector.run over poll().                           *)

\* The source is asked for what is newer than the checkpoint, and may return more:
\* a file all it has, an API with rounded bounds some of what is not newer.
StartRun ==
  /\ pc = "idle"
  /\ broken <= MaxBroken /\ cuts < MaxCuts
  /\ pc' = "poll"
  /\ since' = ckpt
  /\ lastPos' = ckpt /\ heldPos' = 0
  /\ \E older \in SUBSET {r \in visible : TimeOf[r] <= ckpt} :
       fetched' = {r \in visible : TimeOf[r] > ckpt} \cup older
  /\ seen' = {} /\ batch' = {} /\ taken' = 0
  /\ UNCHANGED <<visible, late, ckpt, copies, forfeited, broken, cuts>>

\* A poller that pages through its source also meets what arrived meanwhile;
\* one that asks once does not.  A page goes on where the last one ended: of what
\* came late, a source in order shows only what is not behind that.
FetchPage ==
  /\ pc = "poll" /\ seen = fetched
  /\ \E page \in SUBSET (visible \ fetched) :
       /\ page # {}
       /\ \A r \in visible \ (fetched \cup late) : TimeOf[r] > since => r \in page
       /\ InOrder => \A r \in page, q \in fetched : TimeOf[q] <= TimeOf[r]
       /\ fetched' = fetched \cup page
  /\ UNCHANGED <<visible, late, ckpt, pc, since, lastPos, heldPos, seen, batch,
                 taken, copies, forfeited, broken, cuts>>

\* r is the record poll() reads next.
Reads(r) ==
  /\ pc = "poll"
  /\ r \in fetched \ seen
  /\ InOrder => \A q \in fetched \ seen : TimeOf[r] <= TimeOf[q]

\* Mutants: the filter lets ties through, rounds up, is not there, or looks at the
\* record before the field map does.
PassedByPollKeepsTies(r) ==
  Kind[r] = "incomplete" \/ (Kind[r] # "poison" /\ TimeOf[r] < since)
PassedByPollRoundsUp(r) ==
  Kind[r] = "incomplete" \/ (Kind[r] # "poison" /\ TimeOf[r] <= since + 1)
PassedByPollUnfiltered(r) == Kind[r] = "incomplete"
PassedByPollFilterFirst(r) == Kind[r] = "incomplete" \/ TimeOf[r] <= since

\* Without a required field, or not newer than the checkpoint: poll() goes on and
\* run() never hears of the record.  The field map comes before the filter, so
\* that what makes it raise is not passed by.
PassedByPoll(r) ==
  Kind[r] = "incomplete" \/ (Kind[r] # "poison" /\ TimeOf[r] <= since)

Skip(r) ==
  /\ Reads(r)
  /\ PassedByPoll(r)
  /\ seen' = seen \cup {r}
  /\ UNCHANGED <<visible, late, ckpt, pc, since, lastPos, heldPos, fetched,
                 batch, taken, copies, forfeited, broken, cuts>>

\* Mutant: run() drops every record that it cannot handle.
DroppedByRunAll(r) == Kind[r] # "event"

DroppedByRun(r) ==
  \/ Kind[r] = "uncorrelated" /\ ~StoreUncorrelated
  \/ Kind[r] = "unmapped"

Drop(r) ==
  /\ Reads(r)
  /\ ~PassedByPoll(r) /\ DroppedByRun(r)
  /\ seen' = seen \cup {r}
  /\ lastPos' = TimeOf[r]
  /\ UNCHANGED <<visible, late, ckpt, pc, since, heldPos, fetched, batch,
                 taken, copies, forfeited, broken, cuts>>

\* yield event: the consumer has it in its batch before run() goes on, and
\* last_position does not cover it yet.
Yield(r) ==
  /\ Reads(r)
  /\ ~PassedByPoll(r) /\ Kind[r] = "event"
  /\ pc' = "held"
  /\ seen' = seen \cup {r}
  /\ batch' = batch \cup {r}
  /\ taken' = taken + 1
  /\ heldPos' = TimeOf[r]
  /\ UNCHANGED <<visible, late, ckpt, since, lastPos, fetched, copies,
                 forfeited, broken, cuts>>

-----------------------------------------------------------------------------
(* The consumer: run_and_upload over _batched.                             *)

\* Mutant: > for >=.
FullBatchLate == Cardinality(batch) > BatchSize

FullBatch == Cardinality(batch) >= BatchSize

\* The consumer asks for the next event.  Only now does last_position cover the
\* one yielded: the record yielded last, which need not be the newest.
Resume ==
  /\ pc = "held" /\ ~FullBatch /\ taken # Limit
  /\ pc' = "poll"
  /\ lastPos' = heldPos /\ heldPos' = 0
  /\ UNCHANGED <<visible, late, ckpt, since, fetched, seen, batch, taken,
                 copies, forfeited, broken, cuts>>

\* Mutant: the checkpoint is saved when the generator is closed at the limit.
CutByLimitSaving ==
  /\ pc = "held" /\ ~FullBatch /\ taken = Limit
  /\ pc' = "cut"
  /\ cuts' = cuts + 1
  /\ ckpt' = heldPos
  /\ UNCHANGED <<visible, late, runVars, copies, forfeited, broken>>

\* islice has let through Limit events and never asks the generator again, so
\* the statement that saves the checkpoint is not reached.
CutByLimit ==
  /\ pc = "held" /\ ~FullBatch /\ taken = Limit
  /\ pc' = "cut"
  /\ cuts' = cuts + 1
  /\ UNCHANGED <<visible, late, ckpt, runVars, copies, forfeited, broken>>

\* Mutant: the position saved is the newest in the source.
ExhaustToNewest ==
  /\ pc = "poll" /\ seen = fetched
  /\ pc' = "tail"
  /\ \/ visible = {} /\ UNCHANGED ckpt
     \/ \E r \in visible : /\ \A q \in visible : TimeOf[q] <= TimeOf[r]
                           /\ ckpt' = TimeOf[r]
  /\ UNCHANGED <<visible, late, runVars, copies, forfeited, broken, cuts>>

\* poll() is exhausted: run() saves its checkpoint and returns, and only then
\* does _batched hand over what it still holds.
Exhaust ==
  /\ pc = "poll" /\ seen = fetched
  /\ pc' = "tail"
  /\ ckpt' = IF lastPos # since THEN lastPos ELSE ckpt
  /\ UNCHANGED <<visible, late, runVars, copies, forfeited, broken, cuts>>

\* A batch goes out when it is full, and when the generator has ended.
BatchIsDue == \/ pc = "held" /\ FullBatch
              \/ pc \in {"tail", "cut"} /\ batch # {}

CountCopies == copies' = [r \in Records |-> IF r \in batch THEN copies[r] + 1
                                                           ELSE copies[r]]

UploadOk ==
  /\ BatchIsDue
  /\ CountCopies
  /\ batch' = {}
  /\ UNCHANGED <<visible, late, ckpt, pc, since, lastPos, heldPos, fetched, seen,
                 taken, forfeited, broken, cuts>>

\* Mutant: the batch of an abandoned run is still there.
ForgetRunKeepsBatch ==
  /\ since' = 0 /\ lastPos' = 0 /\ heldPos' = 0
  /\ fetched' = {} /\ seen' = {} /\ batch' = batch
  /\ taken' = 0

\* The locals of a run do not outlive it.
ForgetRun ==
  /\ since' = 0 /\ lastPos' = 0 /\ heldPos' = 0
  /\ fetched' = {} /\ seen' = {} /\ batch' = {}
  /\ taken' = 0

EndRun ==
  /\ pc \in {"tail", "cut"} /\ batch = {}
  /\ pc' = "idle"
  /\ ForgetRun
  /\ UNCHANGED <<visible, late, ckpt, copies, forfeited, broken, cuts>>

-----------------------------------------------------------------------------
(* Runs that end early.  Whatever ends one, its batch is gone and so is the *)
(* position it had reached; the next run starts from the checkpoint file.   *)

\* Mutant: the checkpoint is saved in run()'s finally.
AbandonSaving ==
  /\ pc' = "idle"
  /\ broken' = IF pc \in {"tail", "cut"} THEN broken ELSE broken + 1
  /\ ForgetRun
  /\ ckpt' = IF pc \in {"poll", "held"} THEN lastPos ELSE ckpt
  /\ UNCHANGED <<visible, late, cuts>>

Abandon ==
  /\ pc' = "idle"
  /\ broken' = IF pc \in {"tail", "cut"} THEN broken ELSE broken + 1
  /\ ForgetRun
  /\ UNCHANGED <<visible, late, ckpt, cuts>>

ForfeitFinalBatch ==
  forfeited' = IF pc = "tail" THEN forfeited \cup batch ELSE forfeited

\* run() raises on what poll() lets through: correlate() finds no identity and
\* store_uncorrelated is set, or map_to_event() raises.
RaisesInRun(r) == \/ Kind[r] = "uncorrelated" /\ StoreUncorrelated
                  \/ Kind[r] = "misfit"

Raises(r) == Kind[r] = "poison" \/ RaisesInRun(r)

\* poll() itself raises whatever the time of the record, run() only on what is newer
\* than the checkpoint.
StopsRun(r) == Kind[r] = "poison" \/ (TimeOf[r] > since /\ RaisesInRun(r))

RaiseOnRecord(r) ==
  /\ Reads(r)
  /\ StopsRun(r)
  /\ Abandon
  /\ UNCHANGED <<copies, forfeited>>

FaultsLeft == broken < MaxBroken

\* The source's API answers with an error, or not in time.
PollFails ==
  /\ pc = "poll" /\ FaultsLeft
  /\ Abandon
  /\ UNCHANGED <<copies, forfeited>>

\* The API answers with an error status, or cannot be reached.
UploadRejected ==
  /\ BatchIsDue /\ FaultsLeft
  /\ Abandon
  /\ ForfeitFinalBatch
  /\ UNCHANGED copies

\* The API takes the batch, and its answer does not arrive in time.
UploadUnanswered ==
  /\ BatchIsDue /\ FaultsLeft
  /\ Abandon
  /\ CountCopies
  /\ UNCHANGED forfeited

\* The process is killed.
Crash ==
  /\ pc # "idle" /\ FaultsLeft
  /\ Abandon
  /\ ForfeitFinalBatch
  /\ UNCHANGED copies

-----------------------------------------------------------------------------
Poll == \/ FetchPage
        \/ \E r \in Records : Skip(r) \/ Drop(r) \/ Yield(r)
        \/ Exhaust

Consume == Resume \/ CutByLimit \/ UploadOk \/ EndRun

Fault == PollFails \/ UploadRejected \/ UploadUnanswered \/ Crash

Next == \/ \E r \in Records : Arrive(r)
        \/ StartRun
        \/ Poll
        \/ Consume
        \/ \E r \in Records : RaiseOnRecord(r)
        \/ Fault

Spec == Init /\ [][Next]_vars

\* The scheduler starts the next run, and a run that nothing disturbs goes on.
Fairness == WF_vars(StartRun) /\ WF_vars(Poll) /\ WF_vars(Consume)

FairSpec == Spec /\ Fairness

-----------------------------------------------------------------------------
(* Properties.                                                             *)

TypeOK ==
  /\ visible \subseteq Records /\ late \subseteq visible
  /\ ckpt \in Positions
  /\ pc \in {"idle", "poll", "held", "tail", "cut"}
  /\ since \in Positions /\ lastPos \in Positions /\ heldPos \in Positions
  /\ fetched \subseteq visible /\ seen \subseteq fetched /\ batch \subseteq seen
  /\ taken \in Nat
  /\ copies \in [Records -> Nat]
  /\ forfeited \subseteq visible
  /\ broken \in Nat /\ cuts \in Nat

\* The checkpoint never leaves an event behind that only a later run could
\* deliver: what it covers has been accepted by the API, or is the final batch
\* that run_and_upload is holding, or was such a batch and has been forfeited,
\* or came late.  In particular an event yielded but not yet in an accepted
\* batch is not covered, and neither is one that arrived during the run.
NoSilentLoss ==
  \A r \in visible \ late :
    Kind[r] = "event" /\ TimeOf[r] <= ckpt
      => \/ copies[r] > 0
         \/ pc = "tail" /\ r \in batch
         \/ r \in forfeited

\* One failed final batch costs fewer events than a batch holds: the full
\* batches of a run go out before its checkpoint is saved.
ForfeitsLessThanABatch ==
  [][Cardinality(forfeited' \ forfeited) < BatchSize]_vars

\* The checkpoint never moves back, in whatever order the source returns its
\* records and however the runs end.
CheckpointMonotone == [][ckpt' >= ckpt]_vars

\* An event is accepted again only in consequence of a run that ended without
\* saving its checkpoint: by an exception, a kill or the limit.
CopiesBounded == \A r \in Records : copies[r] <= 1 + broken + cuts

\* A record that raises is neither passed nor dropped unseen: if it came on time,
\* the checkpoint stays behind it, and however late it came, a run that is given it
\* saves no checkpoint at all.
PoisonNeverPassed ==
  [][\A p \in Records :
       /\ p \in visible \ late /\ Raises(p) => ckpt' < TimeOf[p]
       /\ p \in fetched /\ StopsRun(p) => ckpt' = ckpt]_vars

\* And so it holds up everything behind it: nothing newer is ever delivered if it
\* came on time, and nothing newer by any run that is given it if it came late.  A
\* field map that raises on a record behind the checkpoint, which its source goes on
\* returning, leaves nothing to deliver at all.
PoisonBlocks ==
  [][\A p, r \in Records :
       /\ TimeOf[p] < TimeOf[r]
       /\ (p \in visible \ late /\ Raises(p)) \/ (p \in fetched /\ StopsRun(p))
       => copies'[r] = copies[r]]_vars

\* A failed upload leaves its events to a later run: the checkpoint covers no
\* event that has neither been accepted nor is still being held.
FailedUploadIsRetried ==
  \A r \in visible \ late :
    Kind[r] = "event" /\ TimeOf[r] <= ckpt
      => copies[r] > 0 \/ r \in batch

\* Every event the source holds is in the end accepted, or forfeited with a
\* final batch.
EveryEventSettles ==
  \A r \in Records :
    r \in visible \ late /\ Kind[r] = "event"
      ~> copies[r] > 0 \/ r \in forfeited

-----------------------------------------------------------------------------
(* Why they hold: the inductive invariant of the proofs.                   *)

Running == pc \in {"poll", "held"}

\* run() begins at the position in the file, and only moves ahead of it, to
\* positions of records it has fetched.
PositionsInStep ==
  /\ ckpt # 0 => \E q \in visible : TimeOf[q] = ckpt
  /\ Running => /\ since = ckpt /\ lastPos >= ckpt
                /\ lastPos # ckpt => \E q \in fetched : TimeOf[q] = lastPos
  /\ pc = "held" => heldPos > ckpt /\ \E q \in fetched : TimeOf[q] = heldPos

\* What the source has not returned to this run, although it is ahead of the
\* checkpoint, came after what it has.
UnfetchedAreNewer ==
  Running => \A r \in visible \ (late \cup fetched) :
               TimeOf[r] > ckpt => \A q \in fetched : TimeOf[q] < TimeOf[r]

\* The batch holds events ahead of the checkpoint until the checkpoint is saved,
\* and never more than BatchSize of them.
BatchAhead ==
  /\ \A r \in batch : Kind[r] = "event"
  /\ pc # "tail" => \A r \in batch : TimeOf[r] > ckpt

BatchBounded ==
  /\ IsFiniteSet(batch)
  /\ Cardinality(batch) <= BatchSize
  /\ pc \in {"poll", "tail"} => Cardinality(batch) < BatchSize
  /\ pc = "idle" => batch = {}

\* Every event the run has gone past is accepted or in its batch.
SeenAccountedFor ==
  Running => \A r \in seen :
               Kind[r] = "event" /\ TimeOf[r] > ckpt => copies[r] > 0 \/ r \in batch

IInv == /\ TypeOK
        /\ PositionsInStep
        /\ UnfetchedAreNewer
        /\ BatchAhead
        /\ BatchBounded
        /\ SeenAccountedFor
        /\ NoSilentLoss

-----------------------------------------------------------------------------
\* A run implements what Delivery promises: the position is the checkpoint, and
\* what is held is the final batch once the checkpoint has been saved.
Promise == INSTANCE Delivery WITH
  position <- ckpt,
  held <- IF pc = "tail" THEN batch ELSE {},
  lost <- forfeited

ImplementsDelivery == Promise!Spec
=============================================================================
