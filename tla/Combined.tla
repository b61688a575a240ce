------------------------------ MODULE Combined ------------------------------
(***************************************************************************)
(* EntraCombinedCollector (examples/entra): three collectors behind one    *)
(* generator.  Each saves its own checkpoint when its own run() is         *)
(* exhausted, but they are consumed by one run_and_upload, whose batch     *)
(* does not know where one stream ends and the next begins.                *)
(*                                                                         *)
(* What run() does with a record is Pipeline's matter: here every record   *)
(* is an event, and the events of a stream are numbered by their times.    *)
(***************************************************************************)
EXTENDS Naturals, FiniteSets

CONSTANTS
  MaxEvents,  \* bound: the events of a stream
  BatchSize,  \* batch_size of run_and_upload
  MaxFaults   \* bound: the faults of a behaviour

ASSUME CombinedAssumption ==
  MaxEvents \in Nat /\ BatchSize \in Nat \ {0} /\ MaxFaults \in Nat

DirectoryAudits == 1
SignIns == 2
SpSignIns == 3
Streams == DirectoryAudits..SpSignIns

VARIABLES
  licensed,   \* FALSE iff the tenant may not read service principal sign-ins
  head,       \* the newest event of each stream
  ckpt,       \* the position of each stream in the checkpoint file
  pc,         \* "idle", "poll", "held" (suspended at yield), "tail" (generator
              \* exhausted)
  stream,     \* the stream whose run() is under way
  fetched,    \* its newest event when it was asked
  seen,       \* its events yielded by this run
  lastPos,    \* its run()'s last_position
  batch,      \* _batched's batch: pairs of stream and event
  copies,     \* history: how often the API has accepted each event
  forfeited,  \* history: events behind their checkpoint that were dropped
  faults      \* history: the number of faults

runVars == <<stream, fetched, seen, lastPos, batch>>
vars == <<licensed, head, ckpt, pc, runVars, copies, forfeited, faults>>

Init ==
  /\ licensed \in BOOLEAN
  /\ head = [s \in Streams |-> 0] /\ ckpt = [s \in Streams |-> 0]
  /\ pc = "idle"
  /\ stream = DirectoryAudits /\ fetched = 0 /\ seen = {} /\ lastPos = 0
  /\ batch = {}
  /\ copies = [s \in Streams |-> [e \in 1..MaxEvents |-> 0]]
  /\ forfeited = {}
  /\ faults = 0

-----------------------------------------------------------------------------
Arrive(s) ==
  /\ head[s] < MaxEvents
  /\ head' = [head EXCEPT ![s] = @ + 1]
  /\ UNCHANGED <<licensed, ckpt, pc, runVars, copies, forfeited, faults>>

\* run() of stream s starts: it resumes from its own checkpoint.
Enter(s) ==
  /\ pc' = "poll"
  /\ stream' = s
  /\ fetched' = head[s]
  /\ seen' = {} /\ lastPos' = ckpt[s]

StartRun ==
  /\ pc = "idle"
  /\ Enter(DirectoryAudits)
  /\ batch' = {}
  /\ UNCHANGED <<licensed, head, ckpt, copies, forfeited, faults>>

Available == licensed \/ stream # SpSignIns

\* The directory audits and the sign-ins are asked for in ascending order; what
\* the beta endpoint returns comes as it comes, and all of it.
Reads(e) ==
  /\ pc = "poll" /\ Available
  /\ e \in (ckpt[stream] + 1)..fetched /\ e \notin seen
  /\ stream # SpSignIns => (ckpt[stream] + 1)..(e - 1) \subseteq seen

Yield(e) ==
  /\ Reads(e)
  /\ pc' = "held"
  /\ seen' = seen \cup {e}
  /\ lastPos' = e
  /\ batch' = batch \cup {<<stream, e>>}
  /\ UNCHANGED <<licensed, head, ckpt, stream, fetched, copies, forfeited, faults>>

\* Mutant: a full batch waits for one event more.
FullBatchLate == Cardinality(batch) > BatchSize

FullBatch == Cardinality(batch) >= BatchSize

Resume ==
  /\ pc = "held" /\ ~FullBatch
  /\ pc' = "poll"
  /\ UNCHANGED <<licensed, head, ckpt, runVars, copies, forfeited, faults>>

\* yield from goes on with the next stream, or the generator ends.
EnterNext ==
  IF stream = SpSignIns
  THEN pc' = "tail" /\ UNCHANGED <<stream, fetched, seen, lastPos>>
  ELSE Enter(stream + 1)

\* Mutant: a stream saves the position of the newest event it was asked for.
StreamEndsEarly ==
  /\ pc = "poll" /\ Available
  /\ ckpt' = [ckpt EXCEPT ![stream] = fetched]
  /\ EnterNext
  /\ UNCHANGED <<licensed, head, batch, copies, forfeited, faults>>

\* Mutant: the streams share a collector_id, and with it their checkpoint.
StreamEndsSharedKey ==
  /\ pc = "poll" /\ Available
  /\ (ckpt[stream] + 1)..fetched \subseteq seen
  /\ ckpt' = [s \in Streams |-> lastPos]
  /\ EnterNext
  /\ UNCHANGED <<licensed, head, batch, copies, forfeited, faults>>

\* One stream is exhausted and its checkpoint saved; its last events may well be
\* in the batch still.
StreamEnds ==
  /\ pc = "poll" /\ Available
  /\ (ckpt[stream] + 1)..fetched \subseteq seen
  /\ ckpt' = [ckpt EXCEPT ![stream] = lastPos]
  /\ EnterNext
  /\ UNCHANGED <<licensed, head, batch, copies, forfeited, faults>>

BatchIsDue == \/ pc = "held" /\ FullBatch
              \/ pc = "tail" /\ batch # {}

CountCopies ==
  copies' = [s \in Streams |-> [e \in 1..MaxEvents |->
               IF <<s, e>> \in batch THEN copies[s][e] + 1 ELSE copies[s][e]]]

UploadOk ==
  /\ BatchIsDue
  /\ CountCopies
  /\ batch' = {}
  /\ UNCHANGED <<licensed, head, ckpt, pc, stream, fetched, seen, lastPos,
                 forfeited, faults>>

ForgetRun ==
  stream' = DirectoryAudits /\ fetched' = 0 /\ seen' = {} /\ lastPos' = 0
    /\ batch' = {}

EndRun ==
  /\ pc = "tail" /\ batch = {}
  /\ pc' = "idle"
  /\ ForgetRun
  /\ UNCHANGED <<licensed, head, ckpt, copies, forfeited, faults>>

-----------------------------------------------------------------------------
Faulty == faults < MaxFaults /\ faults' = faults + 1

\* Mutant: the stream that failed has saved its checkpoint all the same.
SwallowSaving ==
  /\ ckpt' = [ckpt EXCEPT ![stream] = lastPos]
  /\ pc' = "tail"
  /\ UNCHANGED <<licensed, head, runVars, copies, forfeited>>

\* _run_sp_sign_ins logs an HTTPError and ends the generator as if the stream
\* had been exhausted, but for its checkpoint.
Swallow ==
  /\ pc' = "tail"
  /\ UNCHANGED <<licensed, head, ckpt, runVars, copies, forfeited>>

\* Mutant: the first page's HTTPError is let through.
SpUnlicensedRaises ==
  /\ pc = "poll" /\ stream = SpSignIns /\ ~licensed
  /\ pc' = "idle"
  /\ ForgetRun
  /\ UNCHANGED <<licensed, head, ckpt, copies, forfeited, faults>>

\* A tenant without the licence gets 400 or 403 for the first page.
SpUnlicensed ==
  /\ pc = "poll" /\ stream = SpSignIns /\ ~licensed
  /\ Swallow
  /\ UNCHANGED faults

SpHttpError ==
  /\ pc = "poll" /\ stream = SpSignIns /\ licensed
  /\ Swallow
  /\ Faulty

\* An event that its checkpoint covers is not read again.
Abandon ==
  /\ pc' = "idle"
  /\ ForgetRun
  /\ UNCHANGED <<licensed, head, ckpt>>

ForfeitCovered ==
  forfeited' = forfeited \cup {b \in batch : b[2] <= ckpt[b[1]]}

\* An HTTPError of one of the first two streams; a timeout or a refused token in
\* any of them.
PollFails ==
  /\ pc = "poll"
  /\ Faulty
  /\ Abandon /\ ForfeitCovered
  /\ UNCHANGED copies

UploadRejected ==
  /\ BatchIsDue
  /\ Faulty
  /\ Abandon /\ ForfeitCovered
  /\ UNCHANGED copies

UploadUnanswered ==
  /\ BatchIsDue
  /\ Faulty
  /\ Abandon
  /\ CountCopies
  /\ UNCHANGED forfeited

Crash ==
  /\ pc # "idle"
  /\ Faulty
  /\ Abandon /\ ForfeitCovered
  /\ UNCHANGED copies

-----------------------------------------------------------------------------
Proceed == \/ \E e \in 1..MaxEvents : Yield(e)
           \/ Resume \/ StreamEnds \/ UploadOk \/ EndRun \/ SpUnlicensed

Fault == SpHttpError \/ PollFails \/ UploadRejected \/ UploadUnanswered \/ Crash

Next == (\E s \in Streams : Arrive(s)) \/ StartRun \/ Proceed \/ Fault

Spec == Init /\ [][Next]_vars

FairSpec == Spec /\ WF_vars(StartRun) /\ WF_vars(Proceed)

-----------------------------------------------------------------------------
TypeOK ==
  /\ licensed \in BOOLEAN
  /\ head \in [Streams -> 0..MaxEvents]
  /\ ckpt \in [Streams -> 0..MaxEvents] /\ \A s \in Streams : ckpt[s] <= head[s]
  /\ pc \in {"idle", "poll", "held", "tail"}
  /\ stream \in Streams /\ fetched \in 0..head[stream]
  /\ seen \subseteq 1..fetched /\ lastPos \in 0..MaxEvents
  /\ batch \subseteq Streams \X (1..MaxEvents) /\ Cardinality(batch) <= BatchSize
  /\ copies \in [Streams -> [1..MaxEvents -> Nat]]
  /\ forfeited \subseteq Streams \X (1..MaxEvents)
  /\ faults \in 0..MaxFaults

Numbered == [e \in 1..MaxEvents |-> e]
AllEvents == [e \in 1..MaxEvents |-> "event"]
CoveredInBatch(s) == {e \in 1..ckpt[s] : <<s, e>> \in batch}
Forfeited(s) == {e \in 1..MaxEvents : <<s, e>> \in forfeited}

Audits == INSTANCE Delivery WITH
  Records <- 1..MaxEvents, TimeOf <- Numbered, Kind <- AllEvents,
  visible <- 1..head[DirectoryAudits], late <- {}, position <- ckpt[DirectoryAudits],
  held <- CoveredInBatch(DirectoryAudits), copies <- copies[DirectoryAudits], lost <- Forfeited(DirectoryAudits)

UserSignIns == INSTANCE Delivery WITH
  Records <- 1..MaxEvents, TimeOf <- Numbered, Kind <- AllEvents,
  visible <- 1..head[SignIns], late <- {}, position <- ckpt[SignIns],
  held <- CoveredInBatch(SignIns), copies <- copies[SignIns], lost <- Forfeited(SignIns)

AppSignIns == INSTANCE Delivery WITH
  Records <- 1..MaxEvents, TimeOf <- Numbered, Kind <- AllEvents,
  visible <- 1..head[SpSignIns], late <- {}, position <- ckpt[SpSignIns],
  held <- CoveredInBatch(SpSignIns), copies <- copies[SpSignIns], lost <- Forfeited(SpSignIns)

\* Each stream by itself keeps the promise of Delivery, although the three share
\* a batch, one of them comes in any order, and its HTTPErrors are swallowed: what
\* a stream has claimed and not delivered is the part of the batch that its own
\* checkpoint covers.
StreamsDeliver == Audits!Spec /\ UserSignIns!Spec /\ AppSignIns!Spec

\* All streams together forfeit fewer events in one failure than a batch holds.
ForfeitsLessThanABatch ==
  [][Cardinality(forfeited' \ forfeited) < BatchSize]_vars

\* The directory audits and the sign-ins are accepted or forfeited in the end
\* even if the service principal sign-ins are never to be had, and those too if
\* they are.
EveryEventSettles ==
  \A s \in Streams, e \in 1..MaxEvents :
    head[s] >= e /\ (licensed \/ s # SpSignIns)
      ~> copies[s][e] > 0 \/ <<s, e>> \in forfeited

\* A stream that fails to be read takes nothing of the others with it.
StreamFailureStaysLocal ==
  [][PollFails => forfeited' = forfeited]_vars
=============================================================================
