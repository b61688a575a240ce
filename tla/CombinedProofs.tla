--------------------------- MODULE CombinedProofs ---------------------------
(* Proofs about Combined, for any number of events, batch size and faults.   *)
EXTENDS Combined, FiniteSetTheorems, TLAPS

Running == pc \in {"poll", "held"}

\* The batch is full only while the generator is suspended.
BatchBounded ==
  /\ IsFiniteSet(batch)
  /\ pc \in {"poll", "tail"} => Cardinality(batch) < BatchSize
  /\ pc = "idle" => batch = {}

\* A run reads what is ahead of its stream's checkpoint, and its position is that of
\* what it has read.
ReadAhead ==
  Running => /\ seen \subseteq (ckpt[stream] + 1)..fetched
             /\ lastPos \in seen \cup {ckpt[stream]}

\* What is in the batch is of this stream and ahead of its checkpoint, or of those
\* before it.
BatchInStep ==
  /\ \A b \in batch : b[2] <= head[b[1]]
  /\ Running => \A b \in batch : b[1] <= stream /\ (b[1] = stream => b[2] > ckpt[stream])
  /\ pc = "held" => batch = {} \/ <<stream, lastPos>> \in batch

\* Every event that the stream's run has read is accepted or in the batch.
SeenAccountedFor ==
  Running => \A e \in seen : copies[stream][e] > 0 \/ <<stream, e>> \in batch

IInv == TypeOK /\ BatchBounded /\ ReadAhead /\ BatchInStep /\ SeenAccountedFor

-----------------------------------------------------------------------------
(* Types, in three parts. *)

Numbers == 0..MaxEvents
Counts == [Streams -> [1..MaxEvents -> Nat]]
Placed == Streams \X (1..MaxEvents)

HistoryTypes ==
  /\ licensed \in BOOLEAN
  /\ copies \in Counts /\ forfeited \subseteq Placed /\ faults \in 0..MaxFaults

StoreTypes ==
  /\ head \in [Streams -> Numbers] /\ ckpt \in [Streams -> Numbers]
  /\ \A s \in Streams : ckpt[s] <= head[s]

RunTypes ==
  /\ pc \in {"idle", "poll", "held", "tail"}
  /\ stream \in Streams /\ fetched \in 0..head[stream]
  /\ seen \subseteq 1..fetched /\ lastPos \in Numbers
  /\ batch \subseteq Placed /\ Cardinality(batch) <= BatchSize

LEMMA TypeParts == TypeOK <=> HistoryTypes /\ StoreTypes /\ RunTypes
  BY DEF TypeOK, HistoryTypes, StoreTypes, RunTypes, Numbers, Counts, Placed

LEMMA StreamFacts ==
  /\ Streams = {1, 2, 3} /\ DirectoryAudits = 1 /\ SignIns = 2 /\ SpSignIns = 3
  BY DEF Streams, DirectoryAudits, SignIns, SpSignIns

\* One accepted batch more.
LEMMA Counted ==
  ASSUME copies \in Counts, CountCopies
  PROVE  /\ copies' \in Counts
         /\ \A s \in Streams, e \in 1..MaxEvents :
              copies'[s][e] = IF <<s, e>> \in batch THEN copies[s][e] + 1 ELSE copies[s][e]
<1>1. \A s \in Streams, e \in 1..MaxEvents : copies[s][e] \in Nat
  BY DEF Counts
<1>2. /\ copies' = [s \in Streams |-> [e \in 1..MaxEvents |->
                     IF <<s, e>> \in batch THEN copies[s][e] + 1 ELSE copies[s][e]]]
  BY DEF CountCopies
<1>3. \A s \in Streams, e \in 1..MaxEvents :
        (IF <<s, e>> \in batch THEN copies[s][e] + 1 ELSE copies[s][e]) \in Nat
  BY <1>1
<1> QED
  BY <1>2, <1>3 DEF Counts

LEMMA HistoryTypesStep == TypeOK /\ [Next]_vars => HistoryTypes'
<1> SUFFICES ASSUME HistoryTypes, RunTypes, [Next]_vars
             PROVE  HistoryTypes'
  BY TypeParts
<1> USE DEF HistoryTypes
<1>1. licensed' = licensed
  BY DEF Next, Arrive, StartRun, Proceed, Yield, Resume, StreamEnds, UploadOk, EndRun,
         SpUnlicensed, Fault, SpHttpError, PollFails, UploadRejected, UploadUnanswered, Crash,
         Swallow, Abandon, vars
<1>2. copies' = copies \/ CountCopies
  BY DEF Next, Arrive, StartRun, Proceed, Yield, Resume, StreamEnds, UploadOk, EndRun,
         SpUnlicensed, Fault, SpHttpError, PollFails, UploadRejected, UploadUnanswered, Crash,
         Swallow, vars
<1>3. forfeited' = forfeited \/ ForfeitCovered
  BY DEF Next, Arrive, StartRun, Proceed, Yield, Resume, StreamEnds, UploadOk, EndRun,
         SpUnlicensed, Fault, SpHttpError, PollFails, UploadRejected, UploadUnanswered, Crash,
         Swallow, vars
<1>4. faults' = faults \/ Faulty
  BY DEF Next, Arrive, StartRun, Proceed, Yield, Resume, StreamEnds, UploadOk, EndRun,
         SpUnlicensed, Fault, SpHttpError, PollFails, UploadRejected, UploadUnanswered, Crash,
         vars
<1>5. copies' \in Counts
  BY <1>2, Counted
<1>6. forfeited' \subseteq Placed
  BY <1>3 DEF ForfeitCovered, RunTypes
<1>7. faults' \in 0..MaxFaults
  BY <1>4, CombinedAssumption DEF Faulty
<1> QED
  BY <1>1, <1>5, <1>6, <1>7

\* A stream's checkpoint moves to what its run has read.
LEMMA StreamEndsMoves ==
  ASSUME StoreTypes, RunTypes, ReadAhead, StreamEnds
  PROVE  /\ lastPos \in 0..head[stream] /\ ckpt[stream] <= lastPos
         /\ ckpt' \in [Streams -> Numbers] /\ ckpt'[stream] = lastPos
         /\ \A s \in Streams : s # stream => ckpt'[s] = ckpt[s]
<1>1. /\ stream \in Streams /\ fetched \in 0..head[stream] /\ seen \subseteq 1..fetched
      /\ pc = "poll" /\ ckpt' = [ckpt EXCEPT ![stream] = lastPos]
  BY DEF RunTypes, StreamEnds
<1>2. head[stream] \in Nat /\ ckpt[stream] \in Nat /\ ckpt[stream] <= head[stream]
  BY <1>1, CombinedAssumption DEF StoreTypes, Numbers
<1>3. seen \subseteq (ckpt[stream] + 1)..fetched /\ lastPos \in seen \cup {ckpt[stream]}
  BY <1>1 DEF ReadAhead, Running
<1>4. lastPos \in 0..head[stream] /\ ckpt[stream] <= lastPos
  BY <1>1, <1>2, <1>3
<1> QED
  BY <1>1, <1>4 DEF StoreTypes, RunTypes

LEMMA StoreTypesStep == TypeOK /\ ReadAhead /\ [Next]_vars => StoreTypes'
<1> SUFFICES ASSUME StoreTypes, RunTypes, ReadAhead, [Next]_vars
             PROVE  StoreTypes'
  BY TypeParts
<1>1. ASSUME NEW s \in Streams, Arrive(s)
      PROVE  StoreTypes'
  <2>1. head' = [head EXCEPT ![s] = head[s] + 1] /\ head[s] < MaxEvents /\ ckpt' = ckpt
    BY <1>1 DEF Arrive
  <2>2. \A t \in Streams : head[t] \in Nat /\ head[t] <= MaxEvents /\ ckpt[t] \in Nat
    BY CombinedAssumption DEF StoreTypes, Numbers
  <2>3. head[s] + 1 \in Numbers
    BY <2>1, <2>2, CombinedAssumption DEF Numbers
  <2>4. head' \in [Streams -> Numbers]
    BY <2>1, <2>3 DEF StoreTypes
  <2>5. \A t \in Streams : head'[t] = IF t = s THEN head[s] + 1 ELSE head[t]
    BY <2>1 DEF StoreTypes
  <2> QED
    BY <2>1, <2>2, <2>4, <2>5 DEF StoreTypes
<1>2. CASE StreamEnds
  <2>1. head' = head
    BY <1>2 DEF StreamEnds
  <2>2. stream \in Streams /\ lastPos <= head[stream]
    BY <1>2, StreamEndsMoves, CombinedAssumption DEF RunTypes, StoreTypes, Numbers
  <2> QED
    BY <1>2, <2>1, <2>2, StreamEndsMoves DEF StoreTypes
<1>3. CASE UNCHANGED <<head, ckpt>>
  BY <1>3 DEF StoreTypes
<1>4. (\E s \in Streams : Arrive(s)) \/ StreamEnds \/ UNCHANGED <<head, ckpt>>
  BY DEF Next, StartRun, Proceed, Yield, Resume, UploadOk, EndRun, SpUnlicensed, Fault,
         SpHttpError, PollFails, UploadRejected, UploadUnanswered, Crash, Swallow, Abandon,
         vars
<1> QED
  BY <1>1, <1>2, <1>3, <1>4

-----------------------------------------------------------------------------
(* The run. *)

RunInv == RunTypes /\ BatchBounded /\ ReadAhead /\ BatchInStep /\ SeenAccountedFor

LEMMA ForgetRunKeeps ==
  ASSUME StoreTypes', pc' = "idle", ForgetRun
  PROVE  RunInv'
<1>1. 0 \in 0..head'[DirectoryAudits] /\ 0 \in Numbers
  BY StreamFacts, CombinedAssumption DEF StoreTypes, Numbers
<1>2. /\ seen' = {} /\ batch' = {} /\ stream' = DirectoryAudits /\ fetched' = 0
      /\ lastPos' = 0
  BY DEF ForgetRun
<1> QED
  BY <1>1, <1>2, StreamFacts, CombinedAssumption, FS_EmptySet
     DEF RunInv, RunTypes, BatchBounded, ReadAhead, BatchInStep, SeenAccountedFor, Running

LEMMA RunInvInit == Init => StoreTypes /\ RunInv
<1> SUFFICES ASSUME Init
             PROVE  StoreTypes /\ RunInv
  OBVIOUS
<1> USE StreamFacts, CombinedAssumption, FS_EmptySet DEF Init
<1>1. StoreTypes
  BY DEF StoreTypes, Numbers
<1> QED
  BY <1>1 DEF RunInv, RunTypes, BatchBounded, ReadAhead, BatchInStep, SeenAccountedFor,
              Running, Numbers

LEMMA ArriveKeepsRun ==
  ASSUME StoreTypes, StoreTypes', RunInv, NEW s \in Streams, Arrive(s)
  PROVE  RunInv'
<1>1. /\ head' = [head EXCEPT ![s] = head[s] + 1]
      /\ UNCHANGED <<ckpt, pc, stream, fetched, seen, lastPos, batch, copies>>
  BY DEF Arrive, runVars
<1>2. \A t \in Streams : head[t] \in Nat /\ head'[t] \in Nat /\ head[t] <= head'[t]
  BY <1>1, CombinedAssumption DEF StoreTypes, Numbers
<1>3. RunTypes'
  BY <1>1, <1>2 DEF RunInv, RunTypes
<1>4. \A b \in batch : b[2] <= head'[b[1]]
  BY <1>2, CombinedAssumption DEF RunInv, RunTypes, BatchInStep, Placed
<1> QED
  BY <1>1, <1>3, <1>4 DEF RunInv, BatchBounded, ReadAhead, BatchInStep, SeenAccountedFor,
                          Running

LEMMA YieldKeepsRun ==
  ASSUME StoreTypes, RunInv, NEW e \in 1..MaxEvents, Yield(e)
  PROVE  RunInv'
<1> USE CombinedAssumption
<1>1. /\ pc = "poll" /\ pc' = "held" /\ e \in (ckpt[stream] + 1)..fetched
      /\ seen' = seen \cup {e} /\ lastPos' = e /\ batch' = batch \cup {<<stream, e>>}
      /\ UNCHANGED <<head, ckpt, stream, fetched, copies>>
  BY DEF Yield, Reads
<1>2. /\ stream \in Streams /\ head[stream] \in Nat /\ ckpt[stream] \in Nat
      /\ fetched \in 0..head[stream]
  BY DEF StoreTypes, RunInv, RunTypes, Numbers
<1>3. IsFiniteSet(batch') /\ Cardinality(batch') <= BatchSize
  <2>1. IsFiniteSet(batch) /\ Cardinality(batch) < BatchSize /\ Cardinality(batch) \in Nat
    BY <1>1, FS_CardinalityType DEF RunInv, BatchBounded
  <2>2. /\ IsFiniteSet(batch \cup {<<stream, e>>})
        /\ \/ Cardinality(batch \cup {<<stream, e>>}) = Cardinality(batch)
           \/ Cardinality(batch \cup {<<stream, e>>}) = Cardinality(batch) + 1
    BY <2>1, FS_AddElement
  <2> QED
    BY <1>1, <2>1, <2>2
<1>4. RunTypes'
  BY <1>1, <1>2, <1>3 DEF RunInv, RunTypes, Placed, Numbers
<1>5. BatchBounded' /\ ReadAhead'
  BY <1>1, <1>3 DEF RunInv, BatchBounded, ReadAhead, Running
<1>6. BatchInStep'
  <2>1. \A b \in batch : /\ b[2] <= head[b[1]]
                         /\ b[1] <= stream /\ (b[1] = stream => b[2] > ckpt[stream])
    BY <1>1 DEF RunInv, BatchInStep, Running
  <2>2. e <= head[stream] /\ stream <= stream /\ e > ckpt[stream]
    BY <1>1, <1>2, StreamFacts
  <2>3. \A b \in batch' : /\ b[2] <= head[b[1]]
                          /\ b[1] <= stream /\ (b[1] = stream => b[2] > ckpt[stream])
    BY <1>1, <2>1, <2>2
  <2> QED
    BY <1>1, <2>3 DEF BatchInStep, Running
<1>7. SeenAccountedFor'
  BY <1>1 DEF RunInv, SeenAccountedFor, Running
<1> QED
  BY <1>4, <1>5, <1>6, <1>7 DEF RunInv

LEMMA StreamEndsKeepsRun ==
  ASSUME StoreTypes, StoreTypes', RunInv, StreamEnds
  PROVE  RunInv'
<1> USE CombinedAssumption
<1>1. pc = "poll" /\ EnterNext /\ UNCHANGED <<head, batch, copies>> /\ stream \in Streams
  BY DEF StreamEnds, RunInv, RunTypes
<1>2. CASE stream = SpSignIns
  <2>1. pc' = "tail" /\ UNCHANGED <<stream, fetched, seen, lastPos>>
    BY <1>1, <1>2 DEF EnterNext
  <2> QED
    BY <1>1, <2>1 DEF RunInv, RunTypes, BatchBounded, ReadAhead, BatchInStep,
                      SeenAccountedFor, Running
<1>3. CASE stream # SpSignIns
  <2>1. /\ pc' = "poll" /\ stream' = stream + 1 /\ stream' \in Streams
        /\ fetched' = head[stream'] /\ seen' = {} /\ lastPos' = ckpt[stream']
    BY <1>1, <1>3, StreamFacts DEF EnterNext, Enter
  <2>2. stream' # stream
    BY <1>1, <2>1, StreamFacts
  <2>3. ckpt'[stream'] = ckpt[stream']
    BY <2>1, <2>2, StreamEndsMoves DEF RunInv
  <2>4. /\ head[stream'] \in Nat /\ ckpt[stream'] \in Numbers
    BY <2>1 DEF StoreTypes, Numbers
  <2>5. RunTypes'
    BY <1>1, <2>1, <2>4 DEF RunInv, RunTypes
  <2>6. \A b \in batch : b[1] \in Streams /\ b[1] <= stream
    BY <1>1 DEF RunInv, RunTypes, Placed, BatchInStep, Running
  <2>7. \A b \in batch : b[1] <= stream' /\ b[1] # stream'
    BY <1>1, <2>1, <2>6, StreamFacts
  <2>8. BatchInStep'
    BY <1>1, <2>1, <2>7 DEF RunInv, BatchInStep, Running
  <2>9. BatchBounded' /\ ReadAhead' /\ SeenAccountedFor'
    BY <1>1, <2>1, <2>3 DEF RunInv, BatchBounded, ReadAhead, SeenAccountedFor, Running
  <2> QED
    BY <2>5, <2>8, <2>9 DEF RunInv
<1> QED
  BY <1>2, <1>3

LEMMA UploadOkKeepsRun ==
  ASSUME copies \in Counts, StoreTypes, RunInv, UploadOk
  PROVE  RunInv'
<1>1. /\ CountCopies /\ batch' = {}
      /\ UNCHANGED <<head, ckpt, pc, stream, fetched, seen, lastPos>>
  BY DEF UploadOk
<1>2. \A s \in Streams, e \in 1..MaxEvents :
        /\ copies[s][e] \in Nat
        /\ copies'[s][e] = IF <<s, e>> \in batch THEN copies[s][e] + 1 ELSE copies[s][e]
  BY <1>1, Counted DEF Counts
<1>3. seen \subseteq 1..MaxEvents /\ stream \in Streams
  BY CombinedAssumption DEF StoreTypes, RunInv, RunTypes, Numbers
<1>4. SeenAccountedFor'
  <2> SUFFICES ASSUME Running, NEW e \in seen
               PROVE  copies'[stream][e] > 0
    BY <1>1 DEF SeenAccountedFor, Running
  <2>1. copies[stream][e] > 0 \/ <<stream, e>> \in batch
    BY DEF RunInv, SeenAccountedFor
  <2> QED
    BY <1>2, <1>3, <2>1
<1>5. RunTypes' /\ BatchBounded' /\ ReadAhead' /\ BatchInStep'
  BY <1>1, FS_EmptySet, CombinedAssumption
     DEF RunInv, RunTypes, BatchBounded, ReadAhead, BatchInStep, Running
<1> QED
  BY <1>4, <1>5 DEF RunInv

LEMMA RunInvStep == IInv /\ [Next]_vars => RunInv'
<1> SUFFICES ASSUME HistoryTypes, StoreTypes, StoreTypes', RunInv, [Next]_vars
             PROVE  RunInv'
  BY TypeParts, StoreTypesStep DEF IInv, RunInv
<1>1. ASSUME NEW s \in Streams, Arrive(s)
      PROVE  RunInv'
  BY <1>1, ArriveKeepsRun
<1>2. CASE StartRun
  <2>1. /\ pc' = "poll" /\ stream' = DirectoryAudits /\ fetched' = head'[DirectoryAudits]
        /\ seen' = {} /\ lastPos' = ckpt'[DirectoryAudits] /\ batch' = {}
    BY <1>2 DEF StartRun, Enter
  <2>2. head'[DirectoryAudits] \in Nat /\ ckpt'[DirectoryAudits] \in Numbers
    BY StreamFacts DEF StoreTypes, Numbers
  <2> QED
    BY <2>1, <2>2, StreamFacts, CombinedAssumption, FS_EmptySet
       DEF RunInv, RunTypes, BatchBounded, ReadAhead, BatchInStep, SeenAccountedFor, Running
<1>3. ASSUME NEW e \in 1..MaxEvents, Yield(e)
      PROVE  RunInv'
  BY <1>3, YieldKeepsRun
<1>4. CASE Resume
  <2>1. /\ pc = "held" /\ pc' = "poll" /\ ~FullBatch
        /\ UNCHANGED <<head, ckpt, stream, fetched, seen, lastPos, batch, copies>>
    BY <1>4 DEF Resume, runVars
  <2>2. Cardinality(batch) < BatchSize
    BY <2>1, FS_CardinalityType, CombinedAssumption DEF FullBatch, RunInv, BatchBounded
  <2> QED
    BY <2>1, <2>2 DEF RunInv, RunTypes, BatchBounded, ReadAhead, BatchInStep,
                      SeenAccountedFor, Running
<1>5. CASE StreamEnds
  BY <1>5, StreamEndsKeepsRun
<1>6. CASE UploadOk
  BY <1>6, UploadOkKeepsRun DEF HistoryTypes
<1>7. CASE pc' = "idle" /\ ForgetRun
  BY <1>7, ForgetRunKeeps
<1>8. CASE /\ pc' = pc \/ (pc = "poll" /\ pc' = "tail")
           /\ UNCHANGED <<head, ckpt, runVars, copies>>
  BY <1>8 DEF runVars, RunInv, RunTypes, BatchBounded, ReadAhead, BatchInStep,
              SeenAccountedFor, Running
<1>9. \/ \E s \in Streams : Arrive(s)
      \/ StartRun \/ (\E e \in 1..MaxEvents : Yield(e)) \/ Resume \/ StreamEnds \/ UploadOk
      \/ pc' = "idle" /\ ForgetRun
      \/ /\ pc' = pc \/ (pc = "poll" /\ pc' = "tail")
         /\ UNCHANGED <<head, ckpt, runVars, copies>>
  BY DEF Next, Proceed, EndRun, SpUnlicensed, Fault, SpHttpError, PollFails, UploadRejected,
         UploadUnanswered, Crash, Swallow, Abandon, vars
<1> QED
  BY <1>1, <1>2, <1>3, <1>4, <1>5, <1>6, <1>7, <1>8, <1>9

LEMMA Invariant == Spec => []IInv
<1>1. Init => IInv
  <2>1. Init => HistoryTypes
    BY CombinedAssumption DEF Init, HistoryTypes, Counts
  <2> QED
    BY <2>1, RunInvInit, TypeParts DEF IInv, RunInv
<1>2. IInv /\ [Next]_vars => IInv'
  <2> SUFFICES ASSUME IInv, [Next]_vars
               PROVE  IInv'
    OBVIOUS
  <2>1. HistoryTypes' /\ StoreTypes' /\ RunInv'
    BY HistoryTypesStep, StoreTypesStep, RunInvStep DEF IInv
  <2>2. TypeOK'
    BY <2>1 DEF RunInv, TypeOK, HistoryTypes, StoreTypes, RunTypes, Numbers, Counts, Placed
  <2> QED
    BY <2>1, <2>2 DEF IInv, RunInv
<1> QED
  BY <1>1, <1>2, PTL DEF Spec

\* Every variable keeps its type, no checkpoint is ahead of its stream, and no batch is
\* larger than batch_size.
THEOREM TypeCorrect == Spec => []TypeOK
<1>1. IInv => TypeOK
  BY DEF IInv
<1> QED
  BY <1>1, Invariant, PTL

-----------------------------------------------------------------------------
(* What a failure costs. *)

\* Of a full batch the newest event at least is ahead of its checkpoint.
LEMMA CoveredLessThanABatch ==
  ASSUME TypeOK, BatchBounded, ReadAhead, BatchInStep,
         NEW lostNow, lostNow \subseteq {b \in batch : b[2] <= ckpt[b[1]]}
  PROVE  Cardinality(lostNow) < BatchSize
<1> USE CombinedAssumption
<1>1. /\ IsFiniteSet(batch) /\ Cardinality(batch) \in Nat /\ Cardinality(batch) <= BatchSize
      /\ lostNow \in SUBSET batch
  BY FS_CardinalityType DEF BatchBounded, TypeOK
<1>2. /\ Cardinality(lostNow) \in Nat /\ Cardinality(lostNow) <= Cardinality(batch)
      /\ Cardinality(batch) = Cardinality(lostNow) => batch = lostNow
  <2>1. IsFiniteSet(lostNow)
    BY <1>1, FS_Subset
  <2> QED
    BY <1>1, <2>1, FS_Subset, FS_CardinalityType
<1>3. CASE pc \in {"poll", "tail"}
  BY <1>1, <1>2, <1>3 DEF BatchBounded
<1>4. CASE batch = {}
  BY <1>1, <1>2, <1>4, FS_EmptySet
<1>5. CASE pc = "held" /\ batch # {}
  <2>1. <<stream, lastPos>> \in batch
    BY <1>5 DEF BatchInStep
  <2>2. lastPos > ckpt[stream]
    BY <1>5, <2>1 DEF BatchInStep, Running
  <2>3. ckpt[stream] \in Nat /\ lastPos \in Nat
    BY DEF TypeOK
  <2>4. <<stream, lastPos>> \notin lostNow
    BY <2>2, <2>3
  <2> QED
    BY <1>1, <1>2, <2>1, <2>4
<1>6. pc \in {"idle", "poll", "held", "tail"}
  BY DEF TypeOK
<1> QED
  BY <1>3, <1>4, <1>5, <1>6 DEF BatchBounded

\* Whatever streams its events are of, a batch that fails costs fewer events than it
\* may hold.
THEOREM ForfeitsAreSmall == Spec => ForfeitsLessThanABatch
<1>1. IInv /\ [Next]_vars => [Cardinality(forfeited' \ forfeited) < BatchSize]_vars
  <2> SUFFICES ASSUME IInv, [Next]_vars
               PROVE  Cardinality(forfeited' \ forfeited) < BatchSize
    OBVIOUS
  <2>1. forfeited' = forfeited \/ ForfeitCovered
    BY DEF Next, Arrive, StartRun, Proceed, Yield, Resume, StreamEnds, UploadOk, EndRun,
           SpUnlicensed, Fault, SpHttpError, PollFails, UploadRejected, UploadUnanswered,
           Crash, Swallow, vars
  <2>2. forfeited' \ forfeited \subseteq {b \in batch : b[2] <= ckpt[b[1]]}
    BY <2>1 DEF ForfeitCovered
  <2> QED
    BY <2>2, CoveredLessThanABatch DEF IInv
<1> QED
  BY <1>1, Invariant, PTL DEF Spec, ForfeitsLessThanABatch

-----------------------------------------------------------------------------
(* Each stream implements Delivery: first, what a step is to one stream.     *)

InBatch(s) == {e \in 1..MaxEvents : <<s, e>> \in batch}

Stays(s) == UNCHANGED <<head[s], ckpt[s], copies[s], CoveredInBatch(s), Forfeited(s)>>

Publishes(s) ==
  /\ head'[s] = head[s] + 1 /\ head'[s] \in 1..MaxEvents /\ ckpt[s] < head'[s]
  /\ UNCHANGED <<ckpt[s], copies[s], CoveredInBatch(s), Forfeited(s)>>

Delivers(s) ==
  /\ CoveredInBatch(s) \subseteq InBatch(s) /\ CoveredInBatch(s)' = {}
  /\ InBatch(s) \subseteq 1..head[s] /\ Cardinality(InBatch(s)) \in 1..BatchSize
  /\ \A e \in InBatch(s) : e > ckpt[s] \/ e \in CoveredInBatch(s)
  /\ copies'[s] = [e \in 1..MaxEvents |-> IF e \in InBatch(s) THEN copies[s][e] + 1
                                                              ELSE copies[s][e]]
  /\ UNCHANGED <<head[s], ckpt[s], Forfeited(s)>>

Advances(s) ==
  /\ CoveredInBatch(s) = {} /\ CoveredInBatch(s)' \subseteq 1..head[s]
  /\ Cardinality(CoveredInBatch(s)') < BatchSize
  /\ ckpt'[s] > ckpt[s] /\ ckpt'[s] \in 1..head[s]
  /\ \A e \in 1..head[s] :
       e > ckpt[s] /\ e <= ckpt'[s] => copies[s][e] > 0 \/ e \in CoveredInBatch(s)'
  /\ UNCHANGED <<head[s], copies[s], Forfeited(s)>>

Loses(s) ==
  /\ CoveredInBatch(s) # {} /\ CoveredInBatch(s)' = {}
  /\ Forfeited(s)' = Forfeited(s) \cup CoveredInBatch(s)
  /\ UNCHANGED <<head[s], ckpt[s], copies[s]>>

StreamStep(s) == Stays(s) \/ Publishes(s) \/ Delivers(s) \/ Advances(s) \/ Loses(s)

\* A stream has no more events in the batch than there are.
LEMMA StreamInBatch ==
  ASSUME IsFiniteSet(batch), NEW s, NEW S, \A e \in S : <<s, e>> \in batch
  PROVE  IsFiniteSet(S) /\ Cardinality(S) <= Cardinality(batch)
<1> DEFINE f == [e \in S |-> <<s, e>>]
<1>1. f \in Injection(S, batch)
  BY DEF Injection, IsInjective
<1> QED
  BY <1>1, FS_Injection

LEMMA CoveredFacts ==
  ASSUME IInv, NEW s \in Streams
  PROVE  /\ head[s] \in 0..MaxEvents /\ ckpt[s] \in 0..head[s]
         /\ CoveredInBatch(s) = {e \in InBatch(s) : e <= ckpt[s]}
         /\ InBatch(s) \subseteq 1..head[s]
         /\ IsFiniteSet(InBatch(s)) /\ Cardinality(InBatch(s)) \in 0..BatchSize
<1> USE CombinedAssumption
<1>1. head[s] \in 0..MaxEvents /\ ckpt[s] \in 0..head[s]
  BY DEF IInv, TypeOK
<1>2. CoveredInBatch(s) = {e \in InBatch(s) : e <= ckpt[s]}
  BY <1>1 DEF CoveredInBatch, InBatch
<1>3. InBatch(s) \subseteq 1..head[s]
  BY <1>1 DEF InBatch, IInv, BatchInStep
<1>4. IsFiniteSet(batch) /\ Cardinality(batch) <= BatchSize /\ Cardinality(batch) \in Nat
  BY FS_CardinalityType DEF IInv, TypeOK, BatchBounded
<1>5. IsFiniteSet(InBatch(s)) /\ Cardinality(InBatch(s)) <= Cardinality(batch)
  BY <1>4, StreamInBatch DEF InBatch
<1> QED
  BY <1>1, <1>2, <1>3, <1>4, <1>5, FS_CardinalityType

LEMMA AcceptedStep ==
  ASSUME IInv, NEW s \in Streams, CountCopies, batch' = {},
         UNCHANGED <<head, ckpt, forfeited>>
  PROVE  StreamStep(s)
<1>1. CoveredInBatch(s)' = {} /\ Forfeited(s)' = Forfeited(s)
  BY DEF CoveredInBatch, Forfeited
<1>2. copies'[s] = [e \in 1..MaxEvents |-> IF e \in InBatch(s) THEN copies[s][e] + 1
                                                               ELSE copies[s][e]]
  BY DEF CountCopies, InBatch
<1>3. CASE InBatch(s) = {}
  <2>1. copies[s] \in [1..MaxEvents -> Nat]
    BY DEF IInv, TypeOK
  <2>2. copies'[s] = copies[s]
    BY <1>2, <1>3, <2>1
  <2>3. CoveredInBatch(s) = {}
    BY <1>3, CoveredFacts
  <2> QED
    BY <1>1, <2>2, <2>3 DEF StreamStep, Stays
<1>4. CASE InBatch(s) # {}
  <2>1. Cardinality(InBatch(s)) \in 1..BatchSize
    BY <1>4, CoveredFacts, FS_EmptySet, CombinedAssumption
  <2>2. /\ CoveredInBatch(s) \subseteq InBatch(s) /\ InBatch(s) \subseteq 1..head[s]
        /\ \A e \in InBatch(s) : e > ckpt[s] \/ e \in CoveredInBatch(s)
    BY CoveredFacts, CombinedAssumption
  <2> QED
    BY <1>1, <1>2, <2>1, <2>2 DEF StreamStep, Delivers
<1> QED
  BY <1>3, <1>4

LEMMA DroppedStep ==
  ASSUME IInv, NEW s \in Streams, ForfeitCovered, batch' = {},
         UNCHANGED <<head, ckpt, copies>>
  PROVE  StreamStep(s)
<1>1. CoveredInBatch(s)' = {}
  BY DEF CoveredInBatch
<1>2. Forfeited(s)' = Forfeited(s) \cup {e \in 1..MaxEvents : <<s, e>> \in batch /\ e <= ckpt[s]}
  BY DEF Forfeited, ForfeitCovered
<1>3. Forfeited(s)' = Forfeited(s) \cup CoveredInBatch(s)
  BY <1>2, CoveredFacts DEF InBatch
<1> QED
  BY <1>1, <1>3 DEF StreamStep, Stays, Loses

LEMMA YieldStep ==
  ASSUME IInv, NEW s \in Streams, NEW e \in 1..MaxEvents, Yield(e)
  PROVE  Stays(s)
<1>1. /\ e > ckpt[stream] /\ batch' = batch \cup {<<stream, e>>}
      /\ UNCHANGED <<head, ckpt, copies, forfeited>>
  BY CombinedAssumption DEF Yield, Reads, IInv, TypeOK
<1>2. <<s, e>> # <<stream, e>> \/ e \notin 1..ckpt[s]
  BY <1>1, CombinedAssumption DEF IInv, TypeOK
<1>3. CoveredInBatch(s)' = CoveredInBatch(s)
  BY <1>1, <1>2 DEF CoveredInBatch
<1> QED
  BY <1>1, <1>3 DEF Stays, Forfeited

LEMMA StreamEndsStep ==
  ASSUME IInv, NEW s \in Streams, StreamEnds
  PROVE  StreamStep(s)
<1> USE CombinedAssumption
<1>1. /\ pc = "poll" /\ (ckpt[stream] + 1)..fetched \subseteq seen /\ stream \in Streams
      /\ UNCHANGED <<head, batch, copies, forfeited>>
  BY DEF StreamEnds, IInv, TypeOK
<1>2. /\ lastPos \in 0..head[stream] /\ ckpt[stream] <= lastPos
      /\ ckpt'[stream] = lastPos
      /\ \A t \in Streams : t # stream => ckpt'[t] = ckpt[t]
  BY StreamEndsMoves, TypeParts DEF IInv
<1>3. Forfeited(s)' = Forfeited(s)
  BY <1>1 DEF Forfeited
<1>4. CASE ckpt'[s] = ckpt[s]
  <2>1. CoveredInBatch(s)' = CoveredInBatch(s)
    BY <1>1, <1>4 DEF CoveredInBatch
  <2> QED
    BY <1>1, <1>3, <1>4, <2>1 DEF StreamStep, Stays
<1>5. CASE ckpt'[s] # ckpt[s]
  <2>1. s = stream /\ ckpt'[s] = lastPos /\ lastPos > ckpt[s] /\ lastPos \in 1..head[s]
    BY <1>2, <1>5, CoveredFacts
  <2>2. seen \subseteq (ckpt[s] + 1)..fetched /\ lastPos \in seen /\ fetched \in 0..head[s]
    BY <1>1, <2>1 DEF IInv, TypeOK, ReadAhead, Running
  <2>3. CoveredInBatch(s) = {}
    <3>1. \A e \in InBatch(s) : e > ckpt[s]
      BY <1>1, <2>1 DEF InBatch, IInv, BatchInStep, Running
    <3> QED
      BY <3>1, CoveredFacts
  <2>4. CoveredInBatch(s)' = {e \in InBatch(s) : e <= lastPos}
    <3>1. CoveredInBatch(s)' = {e \in 1..lastPos : <<s, e>> \in batch}
      BY <1>1, <2>1 DEF CoveredInBatch
    <3>2. lastPos \in 1..MaxEvents
      BY <2>1, CoveredFacts
    <3> QED
      BY <3>1, <3>2 DEF InBatch
  <2>5. Cardinality(CoveredInBatch(s)') < BatchSize
    <3>1. IsFiniteSet(batch) /\ Cardinality(batch) < BatchSize /\ Cardinality(batch) \in Nat
      BY <1>1, FS_CardinalityType DEF IInv, BatchBounded
    <3>2. \A e \in CoveredInBatch(s)' : <<s, e>> \in batch
      BY <2>4 DEF InBatch
    <3>3. /\ IsFiniteSet(CoveredInBatch(s)')
          /\ Cardinality(CoveredInBatch(s)') <= Cardinality(batch)
      BY <3>1, <3>2, StreamInBatch
    <3> QED
      BY <3>1, <3>3, FS_CardinalityType
  <2>6. ASSUME NEW e \in 1..head[s], e > ckpt[s], e <= lastPos
        PROVE  copies[s][e] > 0 \/ e \in CoveredInBatch(s)'
    <3>1. e \in seen /\ e \in 1..MaxEvents
      BY <1>1, <2>1, <2>2, <2>6, CoveredFacts
    <3>2. copies[s][e] > 0 \/ <<s, e>> \in batch
      BY <1>1, <2>1, <3>1 DEF IInv, SeenAccountedFor, Running
    <3> QED
      BY <2>4, <2>6, <3>1, <3>2 DEF InBatch
  <2>7. CoveredInBatch(s)' \subseteq 1..head[s]
    BY <2>4, CoveredFacts
  <2> QED
    BY <1>1, <1>3, <2>1, <2>3, <2>5, <2>6, <2>7 DEF StreamStep, Advances
<1> QED
  BY <1>4, <1>5

LEMMA EveryStreamSteps ==
  ASSUME IInv, [Next]_vars, NEW s \in Streams
  PROVE  StreamStep(s)
<1>1. ASSUME NEW t \in Streams, Arrive(t)
      PROVE  StreamStep(s)
  <2>1. /\ head' = [head EXCEPT ![t] = head[t] + 1] /\ head[t] < MaxEvents
        /\ UNCHANGED <<ckpt, batch, copies, forfeited>>
    BY <1>1 DEF Arrive, runVars
  <2>2. CoveredInBatch(s)' = CoveredInBatch(s) /\ Forfeited(s)' = Forfeited(s)
    BY <2>1 DEF CoveredInBatch, Forfeited
  <2>3. head'[s] = IF s = t THEN head[s] + 1 ELSE head[s]
    BY <2>1 DEF IInv, TypeOK
  <2>4. CASE s = t
    <3>1. head[s] + 1 \in 1..MaxEvents /\ ckpt[s] < head[s] + 1
      BY <2>1, <2>4, CoveredFacts, CombinedAssumption
    <3> QED
      BY <2>1, <2>2, <2>3, <2>4, <3>1 DEF StreamStep, Publishes
  <2>5. CASE s # t
    BY <2>1, <2>2, <2>3, <2>5 DEF StreamStep, Stays
  <2> QED
    BY <2>4, <2>5
<1>2. ASSUME NEW e \in 1..MaxEvents, Yield(e)
      PROVE  StreamStep(s)
  BY <1>2, YieldStep DEF StreamStep
<1>3. CASE StreamEnds
  BY <1>3, StreamEndsStep
<1>4. CASE UploadOk \/ UploadUnanswered
  BY <1>4, AcceptedStep DEF UploadOk, UploadUnanswered, Abandon, ForgetRun
<1>5. CASE PollFails \/ UploadRejected \/ Crash
  BY <1>5, DroppedStep DEF PollFails, UploadRejected, Crash, Abandon, ForgetRun
<1>6. CASE UNCHANGED <<head, ckpt, batch, copies, forfeited>>
  BY <1>6 DEF StreamStep, Stays, CoveredInBatch, Forfeited
<1>7. \/ \E t \in Streams : Arrive(t)
      \/ \E e \in 1..MaxEvents : Yield(e)
      \/ StreamEnds \/ UploadOk \/ UploadUnanswered \/ PollFails \/ UploadRejected \/ Crash
      \/ UNCHANGED <<head, ckpt, batch, copies, forfeited>>
  BY DEF Next, StartRun, Enter, Proceed, Resume, EndRun, ForgetRun, SpUnlicensed, Fault,
         SpHttpError, Swallow, runVars, vars, IInv, BatchBounded
<1> QED
  BY <1>1, <1>2, <1>3, <1>4, <1>5, <1>6, <1>7

-----------------------------------------------------------------------------
(* And then, that this is a step of Delivery or none. *)

LEMMA SameCounts ==
  \A S : /\ Audits!Cardinality(S) = Cardinality(S)
         /\ UserSignIns!Cardinality(S) = Cardinality(S)
         /\ AppSignIns!Cardinality(S) = Cardinality(S)
  BY DEF Cardinality, Audits!Cardinality, UserSignIns!Cardinality, AppSignIns!Cardinality

\* What the steps of a stream mean in the terms of Delivery.
LEMMA PublishTerms ==
  ASSUME IInv, NEW s \in Streams, Publishes(s)
  PROVE  /\ head'[s] \in 1..MaxEvents /\ head'[s] \notin 1..head[s]
         /\ 1..head'[s] = 1..head[s] \cup {head'[s]}
         /\ ~(Numbered[head'[s]] <= ckpt[s])
<1>1. /\ head[s] \in 0..MaxEvents /\ ckpt[s] \in 0..head[s]
      /\ head'[s] = head[s] + 1 /\ head'[s] \in 1..MaxEvents /\ ckpt[s] < head'[s]
  BY CoveredFacts DEF Publishes
<1>2. Numbered[head'[s]] = head'[s]
  BY <1>1 DEF Numbered
<1> QED
  BY <1>1, <1>2, CombinedAssumption

LEMMA DeliverTerms ==
  ASSUME IInv, NEW s \in Streams, Delivers(s)
  PROVE  \A e \in InBatch(s) : Numbered[e] > ckpt[s] \/ e \in CoveredInBatch(s)
<1>1. \A e \in InBatch(s) : Numbered[e] = e
  BY DEF InBatch, Numbered
<1> QED
  BY <1>1 DEF Delivers

LEMMA AdvanceTerms ==
  ASSUME IInv, NEW s \in Streams, Advances(s)
  PROVE  /\ Numbered[ckpt'[s]] = ckpt'[s] /\ 1..head[s] \subseteq 1..MaxEvents
         /\ \A e \in 1..head[s] :
              Numbered[e] > ckpt[s] /\ Numbered[e] <= ckpt'[s]
                => copies[s][e] > 0 \/ e \in CoveredInBatch(s)'
<1>1. 1..head[s] \subseteq 1..MaxEvents
  BY CoveredFacts, CombinedAssumption
<1>2. \A e \in 1..head[s] : Numbered[e] = e
  BY <1>1 DEF Numbered
<1> QED
  BY <1>1, <1>2 DEF Advances

LEMMA AuditsStep ==
  ASSUME IInv, StreamStep(DirectoryAudits)
  PROVE  [Audits!Next]_(Audits!deliveryVars)
<1> DEFINE s == DirectoryAudits
<1>0. s \in Streams
  BY StreamFacts
<1> HIDE DEF s
<1>1. Audits!Events = 1..MaxEvents
  BY DEF Audits!Events, AllEvents
<1>2. CASE Stays(s)
  BY <1>2 DEF Stays, Audits!deliveryVars, s
<1>3. CASE Publishes(s)
  <2>1. /\ head'[s] \in 1..MaxEvents /\ head'[s] \notin 1..head[s]
        /\ 1..head'[s] = 1..head[s] \cup {head'[s]}
        /\ ~(Numbered[head'[s]] <= ckpt[s])
    BY <1>0, <1>3, PublishTerms
  <2>2. Audits!Publish(head'[s])
    BY <1>3, <2>1 DEF Publishes, Audits!Publish, s
  <2> QED
    BY <2>1, <2>2 DEF Audits!Next
<1>4. CASE Delivers(s)
  <2>1. Audits!AddCopies(InBatch(s))
    BY <1>4 DEF Delivers, Audits!AddCopies, s
  <2>2. \A e \in InBatch(s) : Numbered[e] > ckpt[s] \/ e \in CoveredInBatch(s)
    BY <1>0, <1>4, DeliverTerms
  <2>3. InBatch(s) \subseteq 1..head[s] \cap 1..MaxEvents
    BY <1>4 DEF Delivers, InBatch
  <2>4. Audits!Deliver(InBatch(s))
    BY <1>1, <1>4, <2>1, <2>2, <2>3, SameCounts DEF Delivers, Audits!Deliver, s
  <2> QED
    BY <2>3, <2>4 DEF Audits!Next, s
<1>5. CASE Advances(s)
  <2>1. /\ Numbered[ckpt'[s]] = ckpt'[s] /\ 1..head[s] \subseteq 1..MaxEvents
        /\ \A e \in 1..head[s] :
             Numbered[e] > ckpt[s] /\ Numbered[e] <= ckpt'[s]
               => copies[s][e] > 0 \/ e \in CoveredInBatch(s)'
    BY <1>0, <1>5, AdvanceTerms
  <2>2. Audits!Advance(Numbered[ckpt'[s]], CoveredInBatch(s)')
    BY <1>1, <1>5, <2>1, SameCounts DEF Advances, Audits!Advance, s
  <2>3. ckpt'[s] \in 1..head[s] /\ CoveredInBatch(s)' \subseteq 1..head[s]
    BY <1>5 DEF Advances
  <2> QED
    BY <2>2, <2>3 DEF Audits!Next, s
<1>6. CASE Loses(s)
  BY <1>6 DEF Loses, Audits!Lose, Audits!Next, s
<1> QED
  BY <1>2, <1>3, <1>4, <1>5, <1>6 DEF StreamStep, s

LEMMA UserSignInsStep ==
  ASSUME IInv, StreamStep(SignIns)
  PROVE  [UserSignIns!Next]_(UserSignIns!deliveryVars)
<1> DEFINE s == SignIns
<1>0. s \in Streams
  BY StreamFacts
<1> HIDE DEF s
<1>1. UserSignIns!Events = 1..MaxEvents
  BY DEF UserSignIns!Events, AllEvents
<1>2. CASE Stays(s)
  BY <1>2 DEF Stays, UserSignIns!deliveryVars, s
<1>3. CASE Publishes(s)
  <2>1. /\ head'[s] \in 1..MaxEvents /\ head'[s] \notin 1..head[s]
        /\ 1..head'[s] = 1..head[s] \cup {head'[s]}
        /\ ~(Numbered[head'[s]] <= ckpt[s])
    BY <1>0, <1>3, PublishTerms
  <2>2. UserSignIns!Publish(head'[s])
    BY <1>3, <2>1 DEF Publishes, UserSignIns!Publish, s
  <2> QED
    BY <2>1, <2>2 DEF UserSignIns!Next
<1>4. CASE Delivers(s)
  <2>1. UserSignIns!AddCopies(InBatch(s))
    BY <1>4 DEF Delivers, UserSignIns!AddCopies, s
  <2>2. \A e \in InBatch(s) : Numbered[e] > ckpt[s] \/ e \in CoveredInBatch(s)
    BY <1>0, <1>4, DeliverTerms
  <2>3. InBatch(s) \subseteq 1..head[s] \cap 1..MaxEvents
    BY <1>4 DEF Delivers, InBatch
  <2>4. UserSignIns!Deliver(InBatch(s))
    BY <1>1, <1>4, <2>1, <2>2, <2>3, SameCounts DEF Delivers, UserSignIns!Deliver, s
  <2> QED
    BY <2>3, <2>4 DEF UserSignIns!Next, s
<1>5. CASE Advances(s)
  <2>1. /\ Numbered[ckpt'[s]] = ckpt'[s] /\ 1..head[s] \subseteq 1..MaxEvents
        /\ \A e \in 1..head[s] :
             Numbered[e] > ckpt[s] /\ Numbered[e] <= ckpt'[s]
               => copies[s][e] > 0 \/ e \in CoveredInBatch(s)'
    BY <1>0, <1>5, AdvanceTerms
  <2>2. UserSignIns!Advance(Numbered[ckpt'[s]], CoveredInBatch(s)')
    BY <1>1, <1>5, <2>1, SameCounts DEF Advances, UserSignIns!Advance, s
  <2>3. ckpt'[s] \in 1..head[s] /\ CoveredInBatch(s)' \subseteq 1..head[s]
    BY <1>5 DEF Advances
  <2> QED
    BY <2>2, <2>3 DEF UserSignIns!Next, s
<1>6. CASE Loses(s)
  BY <1>6 DEF Loses, UserSignIns!Lose, UserSignIns!Next, s
<1> QED
  BY <1>2, <1>3, <1>4, <1>5, <1>6 DEF StreamStep, s

LEMMA AppSignInsStep ==
  ASSUME IInv, StreamStep(SpSignIns)
  PROVE  [AppSignIns!Next]_(AppSignIns!deliveryVars)
<1> DEFINE s == SpSignIns
<1>0. s \in Streams
  BY StreamFacts
<1> HIDE DEF s
<1>1. AppSignIns!Events = 1..MaxEvents
  BY DEF AppSignIns!Events, AllEvents
<1>2. CASE Stays(s)
  BY <1>2 DEF Stays, AppSignIns!deliveryVars, s
<1>3. CASE Publishes(s)
  <2>1. /\ head'[s] \in 1..MaxEvents /\ head'[s] \notin 1..head[s]
        /\ 1..head'[s] = 1..head[s] \cup {head'[s]}
        /\ ~(Numbered[head'[s]] <= ckpt[s])
    BY <1>0, <1>3, PublishTerms
  <2>2. AppSignIns!Publish(head'[s])
    BY <1>3, <2>1 DEF Publishes, AppSignIns!Publish, s
  <2> QED
    BY <2>1, <2>2 DEF AppSignIns!Next
<1>4. CASE Delivers(s)
  <2>1. AppSignIns!AddCopies(InBatch(s))
    BY <1>4 DEF Delivers, AppSignIns!AddCopies, s
  <2>2. \A e \in InBatch(s) : Numbered[e] > ckpt[s] \/ e \in CoveredInBatch(s)
    BY <1>0, <1>4, DeliverTerms
  <2>3. InBatch(s) \subseteq 1..head[s] \cap 1..MaxEvents
    BY <1>4 DEF Delivers, InBatch
  <2>4. AppSignIns!Deliver(InBatch(s))
    BY <1>1, <1>4, <2>1, <2>2, <2>3, SameCounts DEF Delivers, AppSignIns!Deliver, s
  <2> QED
    BY <2>3, <2>4 DEF AppSignIns!Next, s
<1>5. CASE Advances(s)
  <2>1. /\ Numbered[ckpt'[s]] = ckpt'[s] /\ 1..head[s] \subseteq 1..MaxEvents
        /\ \A e \in 1..head[s] :
             Numbered[e] > ckpt[s] /\ Numbered[e] <= ckpt'[s]
               => copies[s][e] > 0 \/ e \in CoveredInBatch(s)'
    BY <1>0, <1>5, AdvanceTerms
  <2>2. AppSignIns!Advance(Numbered[ckpt'[s]], CoveredInBatch(s)')
    BY <1>1, <1>5, <2>1, SameCounts DEF Advances, AppSignIns!Advance, s
  <2>3. ckpt'[s] \in 1..head[s] /\ CoveredInBatch(s)' \subseteq 1..head[s]
    BY <1>5 DEF Advances
  <2> QED
    BY <2>2, <2>3 DEF AppSignIns!Next, s
<1>6. CASE Loses(s)
  BY <1>6 DEF Loses, AppSignIns!Lose, AppSignIns!Next, s
<1> QED
  BY <1>2, <1>3, <1>4, <1>5, <1>6 DEF StreamStep, s

\* Each of the three streams by itself keeps the promise of Delivery: the shared batch
\* delivers a stream's events at least once, or forfeits those that its own checkpoint
\* covers, all of them at once and fewer than a batch.
THEOREM StreamsAreDelivered == Spec => StreamsDeliver
<1>1. Init => Audits!Init /\ UserSignIns!Init /\ AppSignIns!Init
  <2> SUFFICES ASSUME Init
               PROVE  Audits!Init /\ UserSignIns!Init /\ AppSignIns!Init
    OBVIOUS
  <2>1. \A s \in Streams :
          /\ 1..head[s] = {} /\ ckpt[s] = 0
          /\ CoveredInBatch(s) = {} /\ Forfeited(s) = {}
          /\ copies[s] = [e \in 1..MaxEvents |-> 0]
    BY DEF Init, CoveredInBatch, Forfeited
  <2> QED
    BY <2>1, StreamFacts DEF Audits!Init, UserSignIns!Init, AppSignIns!Init
<1>2. IInv /\ [Next]_vars => /\ [Audits!Next]_(Audits!deliveryVars)
                            /\ [UserSignIns!Next]_(UserSignIns!deliveryVars)
                            /\ [AppSignIns!Next]_(AppSignIns!deliveryVars)
  BY EveryStreamSteps, AuditsStep, UserSignInsStep, AppSignInsStep, StreamFacts
<1> QED
  BY <1>1, <1>2, Invariant, PTL
     DEF Spec, StreamsDeliver, Audits!Spec, UserSignIns!Spec, AppSignIns!Spec
=============================================================================
