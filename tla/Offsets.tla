------------------------------ MODULE Offsets ------------------------------
(***************************************************************************)
(* The Kafka source over all its runs (examples/otel/otel_collector.py).   *)
(* Spans come as messages of a topic, and the consumer group's committed   *)
(* offset decides where the next run begins, not the checkpoint.  The      *)
(* consumer commits by itself: the offset of a message may be committed as *)
(* soon as poll() has returned it, and is when the consumer is closed.     *)
(* The broker and the client library are modelled from how they are used   *)
(* there (enable.auto.commit, subscribe, poll, close); run(), _batched and *)
(* run_and_upload are those of Pipeline.                                   *)
(***************************************************************************)
EXTENDS Naturals, Sequences, FiniteSets

CONSTANTS
  Topic,        \* the messages that will ever be published, each the spans in it
  KindOf,       \* what becomes of each span
  TimeOf,       \* its end time: clocks differ between services
  Unreadable,   \* the messages that are not JSON, or not of the shape of OTLP
  MaxMessages,  \* max_messages_per_run
  BatchSize,    \* batch_size of run_and_upload
  Limits,       \* values of --limit, NoLimit for none
  MaxFaults,    \* bound: the runs that are broken
  MaxDryRuns    \* bound: the runs with --dry-run

NoLimit == 0

\* "span"    becomes an event
\* "nobody"  has no user or no end time, and is passed over by _iter_span_records,
\*           or lacks a field that the field map requires
\* "poison"  makes the field map or map_to_event() raise
Kinds == {"span", "nobody", "poison"}

Messages == DOMAIN Topic
SpansOf(m) == {Topic[m][i] : i \in DOMAIN Topic[m]}
Spans == UNION {SpansOf(m) : m \in Messages}

\* A span is what stands at one place of one message, and a message that cannot be
\* read has none.
ASSUME OffsetsAssumption ==
  /\ Topic \in Seq(Seq(Spans)) /\ Topic # <<>>
  /\ \A m \in Messages : \A i, j \in DOMAIN Topic[m] : Topic[m][i] = Topic[m][j] => i = j
  /\ \A m, n \in Messages : m # n => SpansOf(m) \cap SpansOf(n) = {}
  /\ KindOf \in [Spans -> Kinds] /\ TimeOf \in [Spans -> Nat \ {0}]
  /\ Unreadable \subseteq Messages /\ \A m \in Unreadable : SpansOf(m) = {}
  /\ {MaxMessages, BatchSize} \subseteq Nat \ {0}
  /\ Limits \subseteq Nat /\ {MaxFaults, MaxDryRuns} \subseteq Nat

VARIABLES
  limit,      \* --limit of every run
  published,  \* the messages in the topic, a prefix of Topic
  committed,  \* the group's offset at the broker: the messages it has passed
  pc,         \* "idle", "poll" (the generator runs), "held" (it is suspended at a
              \* yield), "tail" (it has been closed; the final batch is to go out)
  dry,        \* whether the run is one of --dry-run
  stored,     \* the consumer's own offset: the messages poll() has returned
  consumed,   \* of these, the ones of this run
  rest,       \* the spans of the message in hand that are still to come
  batch,      \* _batched's batch
  given,      \* the events that --limit has let through
  printed,    \* what the run, being dry, has printed
  lastPos,    \* last_position
  ckpt,       \* the checkpoint, for the record only
  copies,     \* history: how often the API has accepted each span
  faults, dryRuns,  \* history: the runs broken, and the dry ones
  unclosed    \* history: the runs broken before their offset was committed

consumer == <<stored, consumed, rest>>
run == <<dry, batch, given, printed, lastPos>>
counts == <<faults, dryRuns, unclosed>>
vars == <<limit, published, committed, pc, consumer, run, ckpt, copies, counts>>

Init ==
  /\ limit \in Limits
  /\ published = 0 /\ committed = 0
  /\ pc = "idle" /\ dry = FALSE
  /\ stored = 0 /\ consumed = 0 /\ rest = <<>>
  /\ batch = <<>> /\ given = 0 /\ printed = {} /\ lastPos = 0 /\ ckpt = 0
  /\ copies = [s \in Spans |-> 0]
  /\ faults = 0 /\ dryRuns = 0 /\ unclosed = 0

\* The OpenTelemetry Collector's exporter.
Publish ==
  /\ published < Len(Topic)
  /\ published' = published + 1
  /\ UNCHANGED <<limit, committed, pc, consumer, run, ckpt, copies, counts>>

\* run() reads the checkpoint, poll_records makes a consumer and subscribes.  A dry
\* run has a checkpoint file of its own, and the same group.
StartRun(isDry) ==
  /\ pc = "idle"
  /\ isDry => dryRuns < MaxDryRuns
  /\ pc' = "poll"
  /\ dry' = isDry /\ dryRuns' = IF isDry THEN dryRuns + 1 ELSE dryRuns
  /\ stored' = committed
  /\ lastPos' = IF isDry THEN 0 ELSE ckpt
  /\ UNCHANGED <<limit, published, committed, consumed, rest, batch, given, printed, ckpt,
                 copies, faults, unclosed>>

\* The run is over, and the group stands at offset.
GiveUp(offset) ==
  /\ pc' = "idle"
  /\ committed' = offset
  /\ stored' = 0 /\ consumed' = 0 /\ rest' = <<>>
  /\ dry' = FALSE /\ batch' = <<>> /\ given' = 0 /\ printed' = {} /\ lastPos' = 0

\* The library's background thread.
AutoCommit ==
  /\ pc # "idle" /\ committed < stored
  /\ committed' = stored
  /\ UNCHANGED <<limit, published, pc, consumer, run, ckpt, copies, counts>>

\* Mutant: the offsets of all that has been fetched are stored.
PollMessageFetched ==
  /\ pc = "poll" /\ rest = <<>> /\ consumed < MaxMessages
  /\ stored < published /\ stored + 1 \notin Unreadable
  /\ stored' = published /\ consumed' = consumed + 1
  /\ rest' = Topic[stored + 1]
  /\ UNCHANGED <<limit, published, committed, pc, run, ckpt, copies, counts>>

PollMessage ==
  /\ pc = "poll" /\ rest = <<>> /\ consumed < MaxMessages
  /\ stored < published /\ stored + 1 \notin Unreadable
  /\ stored' = stored + 1 /\ consumed' = consumed + 1
  /\ rest' = Topic[stored + 1]
  /\ UNCHANGED <<limit, published, committed, pc, run, ckpt, copies, counts>>

\* json.loads raises; the finally clause closes the consumer, which commits.
PollUnreadable ==
  /\ pc = "poll" /\ rest = <<>> /\ consumed < MaxMessages
  /\ stored < published /\ stored + 1 \in Unreadable
  /\ GiveUp(stored + 1)
  /\ UNCHANGED <<limit, published, ckpt, copies, counts>>

\* msg.error() raises.
PollError ==
  /\ pc = "poll" /\ rest = <<>> /\ consumed < MaxMessages /\ faults < MaxFaults
  /\ faults' = faults + 1
  /\ GiveUp(stored)
  /\ UNCHANGED <<limit, published, ckpt, copies, dryRuns, unclosed>>

\* Mutant: the consumer is not closed when the run is through.
StopUnclosed ==
  /\ pc = "poll" /\ rest = <<>>
  /\ pc' = "tail"
  /\ ckpt' = IF dry THEN ckpt ELSE lastPos
  /\ UNCHANGED <<limit, published, committed, consumer, run, copies, counts>>

\* poll() returns None, which it may do although there are messages (the consumer
\* has not joined its group yet), or the run has consumed what it may: the
\* consumer is closed, and run() saves the checkpoint.
Stop ==
  /\ pc = "poll" /\ rest = <<>>
  /\ pc' = "tail"
  /\ committed' = stored
  /\ ckpt' = IF dry THEN ckpt ELSE lastPos
  /\ UNCHANGED <<limit, published, consumer, run, copies, counts>>

-----------------------------------------------------------------------------
NextSpan == Head(rest)

\* Mutant: spans are told by their time, as the records of other sources are.
PassedByPollTime == KindOf[NextSpan] = "nobody" \/ TimeOf[NextSpan] <= ckpt

\* _iter_span_records passes spans without a user; filter_by_checkpoint is False.
PassedByPoll == KindOf[NextSpan] = "nobody"

Skip ==
  /\ pc = "poll" /\ rest # <<>> /\ PassedByPoll
  /\ rest' = Tail(rest)
  /\ UNCHANGED <<limit, published, committed, pc, stored, consumed, run, ckpt, copies,
                 counts>>

\* Mutant: the consumer is not closed on an exception.
RaiseOnSpanUnclosed ==
  /\ pc = "poll" /\ rest # <<>> /\ ~PassedByPoll /\ KindOf[NextSpan] = "poison"
  /\ GiveUp(committed)
  /\ UNCHANGED <<limit, published, ckpt, copies, counts>>

\* The exception closes the consumer on its way: the message is committed.
RaiseOnSpan ==
  /\ pc = "poll" /\ rest # <<>> /\ ~PassedByPoll /\ KindOf[NextSpan] = "poison"
  /\ GiveUp(stored)
  /\ UNCHANGED <<limit, published, ckpt, copies, counts>>

\* The generator yields the span's event, which is put into the batch.
Yield ==
  /\ pc = "poll" /\ rest # <<>> /\ ~PassedByPoll /\ KindOf[NextSpan] = "span"
  /\ pc' = "held"
  /\ batch' = Append(batch, NextSpan) /\ given' = given + 1
  /\ rest' = Tail(rest) /\ lastPos' = TimeOf[NextSpan]
  /\ UNCHANGED <<limit, published, committed, stored, consumed, dry, printed, ckpt, copies,
                 counts>>

\* Mutant: a batch is full when it has one event more.
FullBatchLate == Len(batch) > BatchSize
FullBatch == Len(batch) >= BatchSize

LimitReached == limit # NoLimit /\ given = limit

\* The consumer of events asks for the next one.
Resume ==
  /\ pc = "held" /\ ~FullBatch /\ ~LimitReached
  /\ pc' = "poll"
  /\ UNCHANGED <<limit, published, committed, consumer, run, ckpt, copies, counts>>

\* islice() drops the generator when it is asked for one event more than the
\* limit: the consumer is closed and commits the message in hand, whatever has
\* come of it.  The checkpoint is not saved.
CutByLimit ==
  /\ pc = "held" /\ ~FullBatch /\ LimitReached
  /\ pc' = "tail"
  /\ committed' = stored /\ rest' = <<>>
  /\ UNCHANGED <<limit, published, stored, consumed, run, ckpt, copies, counts>>

InBatch == {batch[i] : i \in DOMAIN batch}
Accepted == [s \in Spans |-> IF s \in InBatch THEN copies[s] + 1 ELSE copies[s]]

Sending == batch # <<>> /\ ((pc = "held" /\ FullBatch) \/ pc = "tail")

\* The batch is uploaded, or printed: of a dry run the API hears nothing.
UploadOk ==
  /\ Sending
  /\ copies' = IF dry THEN copies ELSE Accepted
  /\ printed' = IF dry THEN printed \cup InBatch ELSE printed
  /\ batch' = <<>>
  /\ UNCHANGED <<limit, published, committed, pc, consumer, dry, given, lastPos, ckpt,
                 counts>>

\* A run is broken in the midst of it, after which the group stands at offset.
Break(offset) ==
  /\ faults < MaxFaults
  /\ faults' = faults + 1
  /\ unclosed' = IF offset < stored THEN unclosed + 1 ELSE unclosed
  /\ GiveUp(offset)
  /\ UNCHANGED <<limit, published, ckpt, dryRuns>>

\* upload() raises, whether or not the API has accepted the batch.  The generator,
\* if still suspended, may be closed with its consumer or end with the process.
UploadFails(arrived) ==
  /\ Sending /\ ~dry
  /\ \E offset \in {committed, stored} : Break(offset)
  /\ copies' = IF arrived THEN Accepted ELSE copies

\* The process is killed.
Kill ==
  /\ pc # "idle"
  /\ Break(committed)
  /\ UNCHANGED copies

EndRun ==
  /\ pc = "tail" /\ batch = <<>>
  /\ GiveUp(committed)
  /\ UNCHANGED <<limit, published, ckpt, copies, counts>>

Next == \/ Publish
        \/ \E isDry \in BOOLEAN : StartRun(isDry)
        \/ AutoCommit
        \/ PollMessage \/ PollUnreadable \/ PollError \/ Stop
        \/ Skip \/ RaiseOnSpan \/ Yield \/ Resume \/ CutByLimit
        \/ UploadOk \/ (\E arrived \in BOOLEAN : UploadFails(arrived)) \/ Kill
        \/ EndRun

Spec == Init /\ [][Next]_vars

\* The scheduler starts runs, and these go on; poll() cannot come back empty for
\* ever while there is a message.
FairSpec ==
  /\ Spec
  /\ WF_vars(StartRun(FALSE))
  /\ SF_vars(PollMessage) /\ SF_vars(PollUnreadable)
  /\ WF_vars(Stop) /\ WF_vars(Skip) /\ WF_vars(RaiseOnSpan) /\ WF_vars(Yield)
  /\ WF_vars(Resume) /\ WF_vars(CutByLimit) /\ WF_vars(UploadOk) /\ WF_vars(EndRun)

-----------------------------------------------------------------------------
\* What a run has in hand: spans that have been read and not got rid of, or that
\* only a dry run has got rid of.
InHand == InBatch \cup printed \cup {rest[i] : i \in DOMAIN rest}

Passed(n) == {s \in UNION {SpansOf(m) : m \in 1..n} : KindOf[s] = "span"}

\* The offset only moves on, so what it has passed is read by no later run.
Lost == {s \in Passed(committed) : copies[s] = 0 /\ s \notin InHand}

TypeOK ==
  /\ limit \in Limits
  /\ pc \in {"idle", "poll", "held", "tail"} /\ dry \in BOOLEAN
  /\ published \in 0..Len(Topic) /\ committed \in 0..published
  /\ pc # "idle" => stored \in committed..published
  /\ consumed \in 0..MaxMessages
  /\ rest # <<>> => /\ stored \in Messages
                     /\ \E i \in DOMAIN Topic[stored] :
                          rest = SubSeq(Topic[stored], i, Len(Topic[stored]))
  /\ batch \in Seq(Spans) /\ Len(batch) <= BatchSize /\ printed \subseteq Spans
  /\ given \in Nat /\ (limit # NoLimit => given <= limit)
  /\ copies \in [Spans -> Nat]
  /\ {lastPos, ckpt, faults, dryRuns, unclosed} \subseteq Nat

\* A run that is neither broken, dry, cut by a limit nor stopped by a message loses
\* nothing: neither a clock that is behind, nor an offset that is committed before
\* its spans are sent, does any harm by itself.
OnlyDisturbedRunsLose ==
  [][Lost' # Lost =>
       \/ faults' > faults \/ dry
       \/ pc = "held" /\ LimitReached /\ pc' = "tail"
       \/ pc = "poll" /\ pc' = "idle" /\ IF rest = <<>> THEN stored + 1 \in Unreadable
                                          ELSE KindOf[NextSpan] = "poison"]_vars

\* What a disturbance costs is in hand at the time: less than a batch more than the
\* message that is being read, and no message that has not been begun.
Sizes == {Len(Topic[m]) : m \in Messages}
LossesAreInHand ==
  [][/\ Lost' \ Lost \subseteq InHand
     /\ ~dry => \E n \in Sizes : Cardinality(Lost' \ Lost) < BatchSize + n]_vars

\* A span is accepted again only after a run that ended without closing its
\* consumer: limits, raising messages and failed uploads by themselves repeat nothing.
CopiesBounded == \A s \in Spans : copies[s] <= 1 + unclosed

\* No message stops those behind it: every span that is published is accepted, or
\* lost with the run that had it in hand.
EverySpanSettles ==
  \A s \in Spans :
    s \in Passed(published) ~> (copies[s] > 0 \/ s \in Lost)
=============================================================================
