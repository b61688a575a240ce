# Verification of iga-activity-collectors

This directory holds TLA+ specifications of the activity collectors, the TLC
configurations that check them on small instances, and proofs about them that
TLAPS checks for every value of their constants. File names below are relative
to the repository's root (`src/iga_collectors/base.py`, `examples/...`). In
`PROJECT.json` the same paths carry the prefix `src/`.

Contents

1. The system: its parts, their state, how they interact, what is hard
2. What makes each part correct
3. The modules, and how they correspond to the code
4. The runs: what each one asks, its bounds, and what it shows
5. Fairness
6. What is proved, and how
7. Where code and documentation disagree
8. Modelling notes, and observations that are not findings
9. What is not modelled, and the plan

## 1. The system

A *collector* reads activity records from one source (Okta, Entra, a log file, a
database, ...), correlates each with an identity, maps it to an event and hands
it to an *uploader*, which sends events in batches, as a CSV and a mapping
document, to the IGA API. A process does one run and exits; a CronJob or a
crontab starts the next one. All that outlives a process is one JSON file of
checkpoints.

| Part | Code | State | Operations |
|---|---|---|---|
| Collector run | `base.py` `BaseCollector.run` | `since`, `last_position`, as locals of a generator | poll, correlate, map, yield, save the checkpoint once `poll()` is exhausted |
| Declarative collectors | `field_mapping.py` `DeclarativeMappedCollector` | the field map | `poll()` (checkpoint filter), `_record_to_activity`, `map_to_event` |
| Consumer | `discovery.py` `run_and_upload`, `_batched` | the batch, the events let through by `--limit` | collect a batch, upload it, upload the rest at the end |
| Checkpoint file | `base.py` `CheckpointStore` | a JSON file: `collector_id` to position | `get`, `set` (read, change, write back; no lock) |
| Driver | `__main__.py`, `discovery.py` `load_collectors`, `run_all` | the loaded collectors, the failures, the exit code | load, run one or all, dry runs, exit |
| Token client | `uploader.py` `TokenClient` | `_cached_token`, `_expires_at` | `get_token`, `_fetch_token` |
| Uploader | `uploader.py` `IGAUploader`, `DryRunUploader` | none of its own | `upload` (one request per batch) or print |
| Payload | `mapping.py` | none | `events_to_csv`, `build_mapping_doc`, `build_upload_payload` |
| Sources | `examples/*` | a window, a page, a split | `poll_records`: what to ask for, until when, page by page |
| Combined Entra collector | `examples/entra` | three collectors with a checkpoint each | one generator over three `run()`s |
| Kafka source | `examples/otel` | the consumer group's offset at the broker | `poll_records` until idle; the client library commits by itself |
| Field maps | `field_mapping.py` `resolve_path`, `FIELD_TRANSFORMS`, `_resolve_field` | none | a field's value from a raw record and a spec |
| Logging | `logging_setup.py`, `run()` | the levels of the package's logger and of its handler | set once per process; overridden for a `run()` |
| Configuration | `config.py` | environment | read once |

How they interact. Everything in a process is sequential, but `run()` is a
*generator*: the consumer pulls one event at a time, uploads while `run()` is
suspended at its `yield`, and may never resume it. So the order of a run's
side effects (record read, event batched, batch uploaded, checkpoint saved) is
decided by two functions in two files. Processes share the checkpoint file, and
may overlap where the scheduler lets them. All else is requests to a source and
to the API, which fail, time out, or are carried out without an answer.

What is hard, and hardly reached by a unit test (the full list, line by line, is
`hazards` in `PROJECT.json`):

* **order of effects**: a batch that is accepted before its checkpoint is saved is
  delivered again after a crash; a checkpoint that is saved before its batch is
  accepted loses events. The code does the former for full batches and the latter
  for the final one;
* **runs that end early**, by an exception at any point, a kill, or `--limit`, with
  a generator left suspended;
* **sources** out of order, with equal times, with records that come up late, with
  pages that show what arrived meanwhile, windows with rounded bounds, windows
  split into pieces, first runs that find nothing;
* **records that raise**, which the next run meets again;
* **a file without a lock**, emptied before it is written, and read by everybody;
* **three streams behind one generator**, with a batch that spans them;
* **two memories of what has been read**: the Kafka group's offset decides where the
  next run begins and is committed whatever becomes of the events; the checkpoint
  is kept besides;
* **clean-up in a generator's `finally`**: the log level, the Kafka consumer, at the
  moment the generator is closed, which is not always when its run is over;
* **failures that must stay local**: one collector in `run_all`, one stream in
  the combined collector, one batch whose columns conflict.

## 2. What makes each part correct

* *Run and consumer*: what the checkpoint passes has been delivered; it never
  moves back; what a failure costs is bounded; an event is repeated only in
  consequence of a run that failed; nothing is dropped because it raised; every
  event is settled in the end.
* *Checkpoint file*: an entry never covers more than has been sent, is about to be
  sent as a final batch, or was lost with one, whoever else writes; without
  overlapping processes no entry is lost and only a kill makes the file unreadable.
* *Driver*: one collector's failure keeps no other from running and shows in the
  exit code; a collector's log level holds for its own run only.
* *Token client*: a token does not expire on its way for having lain in the cache; one
  that lives too short is not cached.
* *Sources*: consecutive windows leave no gap behind the checkpoint.
* *Combined collector*: each stream by itself is as good as a collector of its own.
* *Kafka source*: a run that ends in order loses nothing, one that does not loses no more
  than it has in hand; spans are repeated only if an offset was not committed; no
  message blocks those behind it.
* *Field maps*: what a source sends makes a record raise only in the ways that are known;
  a missing value is never taken for a success.
* *Payload*: an event is a tree, whatever the field map; the mapping document says of
  every CSV column where it belongs, or the batch is refused.

## 3. The modules

```
                     Delivery            what a collector promises
                    /        \
             Pipeline        Combined    three streams, each implementing Delivery
            /        \              \
 PipelineProofs   MCPipeline    CombinedProofs

 Sources    which records a run asks for         (in front of Pipeline)
            -- SourcesProofs
 Offsets    the same for the Kafka source, with its own end of a run
            -- OffsetsProofs
 FieldMap --> Payload   from a raw record to an upload (Pipeline's kinds of records, "poison" and
                        "misfit" among them, and what its UploadOk sends) -- PayloadProofs
 CheckpointFile   get() and set() step by step   (below Pipeline's ckpt)
            -- CheckpointFileProofs
 TokenClient -- TokenClientProofs                (below Pipeline's uploads)
 Driver     one process, whose runs are Pipeline's, with the log level around them
            -- DriverProofs
```

### Delivery (abstract)

What a collector promises whatever happens to its runs: events ahead of the
position are delivered at least once; the position moves forward only, and passes
an event only if it is delivered or *held*; fewer events are held than a batch
has; what is held is settled once and as a whole, by going out in one batch
(maybe with others, `Deliver`) or by being lost (`Lose`). Nothing is promised of
records that turn up behind newer ones (`late`). The others are events of a
source out of order: its checkpoint is the position of the record read last, so
that of one final batch some events may be covered by it and some not. That takes
a final batch of two, hence batches of three, and is the reason for the bound of
`combined_streams`.

### Pipeline (detailed, the core)

One collector over all its runs. `pc` says where the generator and its consumer
are: `"poll"` (generator running), `"held"` (suspended at `yield event`), `"tail"`
(exhausted, checkpoint saved, final batch still to go out), `"cut"` (stopped by
`--limit`).

| Code | Model |
|---|---|
| `since = store.get(...)`, `last_position = since`; what `poll_records` returns | `StartRun`, `FetchPage` |
| `poll()`: `_record_to_activity` returns None or, if it has not raised, the record is not newer than `since` | `Skip`, `PassedByPoll` |
| `correlate()` is None, or `map_to_event()` is None: `continue` (advancing `last_position`) | `Drop`, `DroppedByRun` |
| `_record_to_activity` raises (before the filter); `raise UncorrelatedActivityError`, `map_to_event()` raises (after it) | `RaiseOnRecord`, `StopsRun`, `RaisesInRun` |
| `yield event`; `_batched` appends it | `Yield` |
| the consumer asks for the next event; `last_position = next_position(activity)` | `Resume` |
| `islice(events, limit)` | `CutByLimit` |
| end of `run()`: `store.set` if the position has moved | `Exhaust` |
| `uploader.upload(batch)` | `UploadOk`, `UploadRejected`, `UploadUnanswered` |
| the process dies, or the source does | `Crash`, `PollFails` |

A record is a member of `Records` with a time and a *kind*, which is what the
framework makes of it (`event`, `uncorrelated`, `unmapped`, `misfit`, which makes
`map_to_event` raise, `incomplete`, and `poison`, which makes the field map raise). The
source lets records appear (`Arrive`), in order or not, at any moment, so also between two
pages of one run (`FetchPage`). It returns what is newer than the checkpoint, and any
of the rest: a log file returns all it has, an API with rounded bounds some of what the
checkpoint covers. That matters because `poll()` looks at the time of a record only
after the field map has been through it (`field_mapping.py:407-411`): a record that makes the
field map raise ends a run even from behind the checkpoint, as long as its source returns
it. A record that `run()` would raise on is filtered out there. History variables keep
how often the API has accepted each record, which were forfeited, and how many
runs ended without a checkpoint.

### CheckpointFile

Two processes, each running its collectors one after the other; `get()` and the
read, truncate and write of `set()` are steps of their own, because `write_text()`
opens the file for writing (which empties it) before it writes. A run delivers its full
batches (`RunReads`), saves its position, and only then has its final batch delivered
(`FinalBatch`, `pc = "tail"`), which may fail, or be cut off by a kill; `forfeited` keeps
the events of such batches until another run has delivered them after all. `overlaps` is the
deployment: `concurrencyPolicy: Forbid` in `deployment/k8s-cronjob.yaml`, or a
crontab that starts the next run whether or not the last one is through. `saved`
keeps what each collector wrote last, for comparison.

### TokenClient

`get_token`, `_fetch_token` and the upload that carries the token, with a clock.
The server counts a token's life from when it issues it, the client from when it
has read the answer (`received`), and the request needs time as well. Nothing bounds
what a request takes: the timeouts of 30 s (`uploader.py:30-31`) are for each silence of
the server, and two of them exceed the buffer of 30 s anyway.

### Driver

`main` in the modes that run collectors (`--collector`, `--dry-run`, both,
neither), `load_collectors` file by file, and `run_all`. A file is its stem, what
loading makes of it, and the keys of its `.json` that the driver looks at
(`dry_run`, `log_level`). Files are loaded in path order, and collectors run in
the order in which their stems were first loaded (`Before`): a later file of the
same stem takes the earlier one's collector, not its place in the order. What is
uploaded, what the checkpoint becomes, and what a handler makes of a log line are
left out: the first two are Pipeline's, of the last section 7 speaks.

| Code | Model |
|---|---|
| the next collector; `run()` begins: save the level, set the override | `BeginRun`, `Before`, `LevelFor` |
| `poll()` is exhausted: `finally` | `Drain` |
| `run_and_upload` returns, also after `--limit` | `EndRun` |
| `run()` raises: its `finally` runs | `RunRaises` |
| `upload()` raises while `run()` is suspended at its `yield`, or for the last batch; so does a dry run's, if an event cannot be printed | `UploadFails` |
| the suspended generator is found and closed | `CollectGarbage` |

`UploadFails(FALSE)` is an upload without an answer. `requests` then raises from within
urllib3, whose frames and exceptions refer to each other, and the traceback holds
`run_and_upload`'s frame with the generator: it is not closed with the `except`
clause of `run_all`, as it is after an `UploadError`, but by the garbage collector.
`left` keeps such generators with the level that each will restore.

### Combined

`EntraCombinedCollector`: directory audits, sign-ins and service principal
sign-ins, each with a checkpoint, behind one generator. `Available` and the
`Swallow` actions are `_run_sp_sign_ins`, which takes an `HTTPError` for the end
of the stream. Three instances of Delivery say what each stream gets out of it.

### Sources

The `poll_records` of every shipped source, reduced to what decides which records
a run is given: how the window's bounds are rounded, whether it has an end, whether
pages show newer records, whether the answer is sorted, how many logs are asked for
one after the other, splitting at 24 hours, a limit. Each collector is a record of
these (`Okta`, `Azure == [Acme EXCEPT ...]`, ...), and `Init` chooses one.

| Sources | start | end | order | special |
|---|---|---|---|---|
| Okta, Google Cloud, Entra sign-ins | second of `since` | open, pages | ascending | |
| Acme | second of `since` | open, pages | any | |
| Azure | second of `since` | second of `now` | any | |
| Google Workspace | as Azure | as Azure | any | two logs |
| Office 365 | as Azure | as Azure | any | 24 h windows |
| AWS | exact | exact | any | |
| Jaeger | exact | exact | any | limit |
| Salesforce | files begun after `since` | one answer | any | files appear when complete |
| JDBC | after `since` | one answer | ascending | no lookback |
| Entra service principal sign-ins | all of it | open, pages | any | no lookback |
| Log file | all of it | one answer | ascending | no lookback |
| Active Directory, Windows event log | all of it | one answer | any | no lookback |

### Offsets

`OTelKafkaSpanCollector` over all its runs. `committed` is the group's offset at the
broker, `stored` the consumer's own; `AutoCommit` is the library's thread, which may
commit what `poll()` has returned at any moment. `GiveUp` is the end of a run at
an offset: at `stored` if the consumer is closed on the way (`finally` in
`poll_records`), at `committed` if not. Whether an upload that raises closes
the consumer depends on what refers to the generator (see Driver), so `UploadFails`
allows both. `filter_by_checkpoint` is False: the checkpoint is kept, and nothing reads
it but the next run's `last_position`.

### FieldMap

`resolve_path`, the fourteen transforms and `_resolve_field`, as operators. A Python
value is a record with a tag (`Null`, `Bool`, `Number`, `Str`, `JsonText`, `Dict`, `List`,
`Datetime`); of a text is kept what a transform looks for in it, so
`Str("naive time")` stands for every time without an offset, and a text that is JSON
for its value. `Raised` is an exception.

### Payload

From a raw record to an upload. `Mapped` is `_record_to_activity` (the first field that
raises, or is required and missing, decides), `MapRecord` and `SetField` are
`map_to_event`, which nests field after field into the shell (`set_dotted`); a batch's
events are flattened into columns, and `build_mapping_doc` nests the sorted columns
again, with a `"column"` entry at each leaf. A path is a sequence of keys, a nested
dict the set of its leaves' paths; a field whose value is an object brings several.
Whether a path may run through another's end is what the two nesting functions
disagree about.

## 4. The runs

A run that is expected to hold covers the complete state space of its instance;
the table gives its distinct states. Those of the last row stop at the violation that
section 7 describes. All holding runs but `pipeline_stops` check a type invariant
besides (`IInv` contains `TypeOK`).

| Run | States | Asks |
|---|---|---|
| `pipeline_any_order` | 352,101 | Under every order, lateness and fault: the inductive invariant `IInv`, `CheckpointMonotone`, `ForfeitsLessThanABatch`, refinement of Delivery, and that every event settles |
| `pipeline_stops` | 1,286,377 | With runs cut short by a limit, a fault or a record: `NoSilentLoss`, `CopiesBounded`, `PoisonNeverPassed`, `PoisonBlocks` |
| `file_shared` | 4,956,369 | `EntriesAreSent`, `NoLostUpdate`, `UnreadableOnlyAfterKill`, `UnreadableStays` |
| `token_buffer` | 156,072 | `TokenArrivesLive`, `ShortLivedIsFetchedAfresh` |
| `driver_exit` | 3,175,578 | `FailuresIsolated`, `LevelsKeptApart` |
| `combined_streams` | 159,735 | each stream implements Delivery (`StreamsDeliver`), the shared batch costs less than a batch, every event settles |
| `sources_windows` | 203,789 | `NothingSkipped`, `AscendingReadOnce`, `EveryEventIsRead` |
| `payload_doc` | 140,372 | `DocMatchesColumns`, `RefusedForConflictsOnly`, `OrdinaryRecordsNeverRaise`, `SuccessNeedsEvidence` |
| `offsets` | 16,129 | `OnlyDisturbedRunsLose`, `LossesAreInHand`, `CopiesBounded`, `EverySpanSettles` |
| `final_batch`, `failing_stream`, `level_scope` | to the violation | see section 7 |

**`pipeline_any_order`** (`Pipeline_any_order.cfg`). Four records at times 1, 2, 3, 3,
the second uncorrelated; batches of two, no limit; the source out of order and
with late arrivals; faults anywhere, in the first two runs that are broken
(`MaxBroken = 2`). Three events and batches of two are the smallest instance with a
full batch *and* a partial final batch in one run, which is where the order of
effects matters; two records with one time are what the strict comparison of
`poll()` can lose; two broken runs allow a failure in the run that repairs a
failure. `IInv` is the invariant of the proofs, so that the instance checks what
section 6 proves.

**`pipeline_stops`**. Seven records, at times 1, 2, 3, 3, 4, 5, 6: an event, an incomplete
one, an event, one that makes the field map raise, an uncorrelated one (which raises, since
`store_uncorrelated` is set), one that makes `map_to_event` raise, an event. The source is in
order, but records may turn up late, and those behind the checkpoint may be returned again.
Batches of two and `--limit 3`: runs break after a full batch, without an answer to it, and
before their first, and the limit cuts with a batch half full. `MaxCuts = 2` and
`MaxBroken = 2` let a run be cut, broken and cut again. What repeats are the events of all of
these. A raising record that comes late stops its collector from behind the
checkpoint. Deadlock is not checked: no run starts when the bounds are used up.

**`file_shared`**. Two processes, two collectors, sources of two events; overlapping
and not; any part of what a run reads goes out in full batches, the rest after its
position is saved. Two processes are enough for a lost update and for two writes that overlie
each other, and two collectors for one process's save undoing another's. Processes
are symmetric (they start alike and nothing tells them apart), collectors are
left asymmetric because of a `CHOOSE`.

**`token_buffer`**. A buffer of 3, requests that take any time, so that the two ways of a
token come to less than the buffer, the same and more; lifetimes of 0, 1, 3, 4 and 7: none, within, at, just above and well
above the buffer. The clock stops at 14, which is two full lifetimes; nothing
happens after that, so deadlock is not checked.

**`driver_exit`**. Up to three files of three stems with every disposition and
configuration, in every mode: two files are enough for one to shadow, precede or
follow the other, and for a level to be left behind for a second run; with a
third, one that shadows the first is run before the second, and a third collector
runs after two that have failed. (`level_scope` has two files.) The process logs at
INFO, and a file may ask for DEBUG, ERROR or nothing: one level on each side of
the process's. The garbage collector may come at any step or never. A process
ends, so deadlock is not checked.

**`combined_streams`**. Two events in each of three streams, batches of three, two
faults anywhere, with and without the licence. A batch can hold all of one stream
and the beginning of the next, or the end of one, or of each of them; and the
service principal sign-ins, which come in any order, can end with a batch of two, only one
of which their checkpoint covers.

**`sources_windows`**. Ticks of half a second, a lookback of 4, windows and log
files of 2, up to two events in one of two logs at any of the times 5 to 9, a clock
up to 9, one failing run. Rounding needs a tick finer than a second, and a split
needs a lookback longer than the window; two events suffice for one to be read and
another to be skipped by the checkpoint of the first. When the clock has stopped
runs go on, so that reading is a matter of the runs and not of the bound.

**`payload_doc`**. Two families of field maps. *Paths*: the keys `actor`, `column` and
`ingest_metadata`, so that there are keys before and after `column` in the alphabet,
and every pair of paths of up to three keys that begin alike, in either order; one field's
value may be an object with or without entries; a shell that sets something
nested. Two fields make any conflict of two paths, and with batches of two events the
conflict can also be made of two events that are in order by themselves. *Specs*:
every transform (and one that does not exist) for the outcome, with and without a
default, and every transform for the time, before and after each other, with source paths
that index, descend, parse JSON or fall back; records with a value of every tag, each
text that a transform knows and one that none does, and `Year10000 = 5` and `Beyond = 9`
for the counts that are too large for a date, which is caught, and for a C integer, which is
not.

**`offsets`**. Four messages: of two spans; of three, the second of which raises; one that
is not JSON; one whose second span comes from a clock that is behind all others'. Batches
of two and limits of 1, 3 and none end runs at the edge of a message, within one, and
with a batch that is full or not; `MaxMessages = 3` ends some before the topic does. Two
broken runs and one dry one; the state space is covered with every interleaving of
`AutoCommit`.

**Mutants.** Each property has a mutant in `PROJECT.json`: a definition of the model
changed as a plausible bug would change the code (the filter lets ties through, the
checkpoint is saved in a `finally`, the columns are not sorted, the streams share
an identifier, a log is asked for up to the time of its own request). With it, TLC
refutes the property in the very same instance. The mutants' operators stand right before
the definitions that they replace, marked `Mutant`.

## 5. Fairness

* *Pipeline, Combined*: weak fairness of `StartRun` and of the generator's and the
  consumer's steps. The scheduler starts the next run (`schedule: "*/15 * * * *"` in
  `deployment/k8s-cronjob.yaml`, or cron), and a sequential program goes on if
  nothing disturbs it. Faults have no fairness; but they are finite (`MaxBroken`,
  `MaxFaults`). Were there a fault in every run, nothing would settle, and the code
  claims nothing else. Arrivals need not happen.
* *Sources*: the clock, the start of runs, and the steps of a run. `NextPage`, the
  extra page of a source without an end, is not fair: a run that meets no newer
  events on its pages must do as well.
* *Offsets*: `StartRun(FALSE)` and the steps of a run, as in Pipeline. `Stop` is weakly fair
  and enabled whenever no message is in hand, since `poll()` may return None although there
  are messages (the consumer has not joined its group yet). So `PollMessage` and
  `PollUnreadable` are strongly fair: if messages can be polled again and again, one is
  in the end. `AutoCommit`, dry runs and faults are not fair.
* *CheckpointFile, TokenClient, Driver, Payload*: safety only.

## 6. What is proved

TLAPS checks these for every value of the constants that meets their module's
assumption: any set of records (which need not be finite), times, kinds, batch size
and limit (`RecordsAssumption`, `ConfigAssumption`), any lifetimes and any buffer
(`TokenAssumption`), any files, stems and levels (`DriverAssumption`), any keys, field
maps and records (`PayloadAssumption`), any processes and collectors
(`FileAssumption`), any numbers of events in the three streams (`CombinedAssumption`), any
topic (`OffsetsAssumption`), any lookback, window, period and limit
(`SourcesAssumption`). Most of the assumptions only say what the constants range
over. The others:

* `PayloadAssumption`: `Rank` gives an order of the keys (it stands for the order in
  which Python sorts column names); the shell of an event is a tree; no two fields of
  a map have one name (they are the keys of a dict); `Keys` holds all keys that records
  bring along; a raw record is a dict, and neither it nor a default is an exception
  (`Raised`);
* `OffsetsAssumption`: a span is what stands at one place of one message, so none occurs
  twice, and a message that cannot be read has none;
* `SourcesAssumption`: lookback, window and period are whole seconds, and the clock's
  bound is not before its beginning.

TLC evaluates the assumptions in every run. The bounds on faults and on the clock are
constants too: what holds for every bound holds without one.

### PipelineProofs

| Theorem | Says |
|---|---|
| `TypeCorrect` | `Spec => []TypeOK` |
| `Invariant` | `Spec => []IInv` |
| `NothingLostSilently` | `Spec => []NoSilentLoss`: the checkpoint passes only what is accepted, held, forfeited with a final batch, or late |
| `CheckpointNeverBack` | `Spec => CheckpointMonotone`, also for sources out of order |
| `ForfeitsAreSmall` | `Spec => ForfeitsLessThanABatch` |
| `PoisonHolds` | `Spec => PoisonNeverPassed`, also for sources out of order and for late records |
| `PoisonStops` | `InOrder` implies `Spec => PoisonBlocks` |
| `RepeatsAreCounted` | `InOrder` implies `Spec => []CopiesBounded` |
| `DeliveryIsImplemented` | `Spec => ImplementsDelivery`, that is, `Promise!Spec` |

`NoSilentLoss` is not inductive: it says nothing about the moment before
`Exhaust`, when the checkpoint is about to jump to `lastPos`. The strengthening
`IInv` adds what the argument needs:

* `PositionsInStep`: during a run `since` is the checkpoint, and `lastPos` is at or
  ahead of it and the time of something fetched. From it follows that the
  checkpoint never moves back, although `last_position` itself does in sources
  out of order;
* `UnfetchedAreNewer`: what was not given to this run, and is not late, is newer
  than everything that was. So the jump to `lastPos` passes nothing that has not
  been fetched;
* `SeenAccountedFor`: an event that the run has gone past and that is ahead of the
  checkpoint is accepted or in the batch. At `Exhaust` everything fetched is seen,
  so what the jump passes is accepted or held;
* `BatchAhead`: until the checkpoint is saved, the batch is ahead of it, so that
  abandoning a run costs nothing but before `"tail"`;
* `BatchBounded`: a batch that waits for more is smaller than `BatchSize`, hence the
  final one is, and so is what a failure forfeits.

One lemma per action (or pair of like actions) shows `IInv'`, and all ways in
which a run ends share `EndStep`. `CheckpointNeverBack` and `ForfeitsAreSmall` are
action properties that follow from `IInv` in the step's first state.

On `IInv` rest three more invariants. `PoisonInv`: a run has gone past nothing that stops
it (`RaisingUnseen`), and the checkpoint is behind what raises and came on time
(`RaisersAhead`); it moves only when everything fetched has been gone past, and then nothing
fetched stops the run (`ExhaustedUnstopped`). `NothingBehindPoison`: in order, what is behind a
raising record that came on time has neither been seen nor accepted, and what is behind one
that the run was given late has not been seen by that run.
`CopiesInv`: what is ahead of the checkpoint has been accepted at most once for each
run counted in `broken + cuts`, and by the run under way only if it is seen
(`CopiesInStep`); at `Exhaust` the position covers everything seen, because the run reads
in order (`ReadInOrder`), and what is batched is newer than `since` (`BatchIsNew`).

The hypothesis is the code's own limit, not the proof's. Out of order, the
checkpoint is the position of the record read *last*, and events that it does not
cover are repeated without any run having failed; and something newer than a raising
record may be read before it. In order means of pages too that the next one goes on where
the last one ended (`FetchPage`); a late record is then either ahead of what the run has been given,
or left to the next run, whose filter drops it. The instance `pipeline_stops` meets the hypothesis.

`DeliveryIsImplemented` maps each step to a step of Delivery or to a stutter: arrivals to
`Publish`, an accepted batch to `Deliver` (`AcceptedDelivers`), `Exhaust` to `Advance`
(`ExhaustDelivers`), a dropped one to `Lose` or to nothing
(`DroppedDelivers`). `BatchMovesOn` says that a run with something in its batch has a position
ahead of the checkpoint: otherwise `Exhaust` would leave a batch that is not held.

### CheckpointFileProofs

| Theorem | Says |
|---|---|
| `TypeCorrect` | `Spec => []TypeOK` |
| `NoEntryAhead` | `Spec => []EntriesAreSent`, however processes overlap and are killed |
| `UpdatesAreKept` | `Spec => []NoLostUpdate` |
| `OnlyKillsDestroy` | `Spec => []UnreadableOnlyAfterKill` |
| `NothingHealsTheFile` | `Spec => UnreadableStays` |

For any number of processes and collectors. `NoEntryAhead` says that an entry covers only
events which are *accounted for*: sent, forfeited with a failed final batch, or held by a
process as its final batch. `PositionsAreSent` extends this to
every position on its way: the entries of the file, the `since` of each run, and the dict that
each process is about to write, which besides covers the batch that this process has in hand
(`InHand`) and begins to hold with the write. What is accounted for stays so (`AccountsGrow`): a
held batch is sent or forfeited when its run ends. A lost update writes an older dict, and an
older dict covers only what was accounted for by then. The next two rest on `Alone` (without overlap at most one
process is not idle) and `FileInStep` (what that process has read is what the file
holds). The last one needs only the types: every way to a write begins with a read.

### TokenClientProofs

`TokensArriveLive` and `ShortLivedTokens`. No duration is bounded; the first says how much
of it a token survives: its way to the client and its way to the API may take as long as the
buffer together, and what it lay in the cache does not count. The invariant relates
`expiresAt` to when the token was read (`CacheBounded`: the client reckons a token's end from
there, and stops using it `Buffer` before that), and the time a token was handed out
to both (`HandedInTime`). `TypeCorrect` is `Spec => []TypeOK`.

### PayloadProofs

| Theorem | Says |
|---|---|
| `NoEvidenceNoSuccess` | `Spec => []SuccessNeedsEvidence`: no event says "success" of a record that has nothing there, unless the field map says so or the transform is Google Cloud's |
| `EventsAreTrees` | `map_to_event` never leaves a value above another, whatever the order of the fields |
| `DocumentsMatchColumns` | `Spec => []DocMatchesColumns` |
| `RefusalsAreConflicts` | `Spec => []RefusedForConflictsOnly` |
| `OrdinaryRecordsPass` | `Spec => []OrdinaryRecordsNeverRaise`: with a well-formed field map, only values that a transform is known to trip over raise |
| `TypeCorrect` | `Spec => []TypeOK` |

The first goes through the fourteen transforms: what each makes of `None`
(`NullIsNoSuccess`), and hence what `_resolve_field` can make of a path that leads
nowhere (`SuccessHasEvidence`).

The second is the invariant `EventPaths`. The fields are set in any order and may overlap;
`set_dotted` raises when its path runs through a value, and replaces all that is below
its end (`SetDottedTree`).

The last two concern `build_mapping_doc`: it raises when a path runs through a leaf, and would replace a nested dict by a leaf without a word if the
longer path came first. That it never does rests on `sorted()`. The invariant
`DocInStep` says that what has been entered comes before what has not, that it is a
tree, and that the document has a leaf for each column entered. `BeforeAsymmetric`
shows that a path is sorted before those below it, `EnteringKeepsTree` that the next
one in order either collides or replaces nothing, and `CollisionHasReason` that
something entered is above what collides, or has a key `column` in the way.

`OrdinaryRecordsPass` goes through the transforms again: none raises on a value that is not
`Awkward` for it (`TransformRaises`), one that parses times returns a time or nothing
(`TimeOrNothing`), one of outcomes what `new_event_shell` takes, or nothing
(`OutcomeOrNothing`). So an ordinary record is mapped (`OrdinaryIsMapped`), and `set_dotted`
finds no value in its way, since the paths of a well-formed map and those of the shell form
a tree.

### DriverProofs

| Theorem | Says |
|---|---|
| `LevelsAreKeptApart` | `Spec => []LevelsKeptApart` |
| `FailuresAreIsolated` | `Spec => []FailuresIsolated` |
| `TypeCorrect` | `Spec => []TypeOK` |

`LevelsInStep` adds to the first what `run()` has saved to restore: the process's level,
as long as no generator is left suspended.

`FailuresIsolated` speaks of the exit alone. Its invariant follows the whole
process: `Loading` (what has been loaded for a stem is a file with that stem,
so that no two stems share one, `LoadedApart`), `Running` (what has been taken up was to be
run, and is completed, failed or under way, and only one of these; `SameToRun` keeps what is
to be run the same). `FinishIsolated` puts them together when nothing is left to run; with
`--collector` an exception is the exit itself.

### CombinedProofs

| Theorem | Says |
|---|---|
| `TypeCorrect` | `Spec => []TypeOK` |
| `ForfeitsAreSmall` | `Spec => ForfeitsLessThanABatch` |
| `StreamsAreDelivered` | `Spec => StreamsDeliver`: `Audits!Spec`, `UserSignIns!Spec` and `AppSignIns!Spec` |

The invariant is that of Pipeline, stream by stream: what the run of the current stream
has read is ahead of that stream's checkpoint (`ReadAhead`), and accepted or in the batch
(`SeenAccountedFor`); what else is in the batch is of streams before it (`BatchInStep`).
The lemmas `AcceptedStep`, `DroppedStep`, `YieldStep` and `StreamEndsStep` say what a step
is to any one stream, `EveryStreamSteps` puts them together, and the three instances of
Delivery each take the step from there, in their own terms. A forfeited batch may hold
events of all three streams; that the events in it which are covered by checkpoints are
fewer than a batch is `CoveredLessThanABatch`: of a full batch the newest is not yet covered.

### OffsetsProofs

| Theorem | Says |
|---|---|
| `TypeCorrect` | `Spec => []TypeOK` |
| `RepeatsAreUnclosedRuns` | `Spec => []CopiesBounded` |
| `LossesNeedADisturbance` | `Spec => OnlyDisturbedRunsLose` |
| `LossesAreSmall` | `Spec => LossesAreInHand` |

For any topic. `stored` divides the spans into those that the run has read and those *ahead*;
`ReadAccountedFor` says of the former that they are accepted or in hand, unless the group
has passed them before; `BatchIsRead` that what is in the batch is among them; `AheadNotCounted` of the
latter that only unclosed runs have sent them. `TailIsClosed` says that the generator, and
with it the consumer, is closed before the final batch goes out. A run
ends at `stored`, or is counted in `unclosed` (`Endings`), which gives the first bound;
`OrdinaryStepsLoseNothing` and `PassesWhatIsRead` give the two action properties.

### SourcesProofs

| Theorem | Says |
|---|---|
| `TypeCorrect` | `Spec => []TypeOK` |
| `NothingIsSkipped` | `Spec => []NothingSkipped` |
| `AscendingIsReadOnce` | `Spec => []AscendingReadOnce` |

For all fifteen collectors at once: `SourceFacts` says what they have in common (`Regular`), and the
proof uses nothing else. The argument has three parts.

* *What a run covers.* `Begin` is where it starts. `RunCovers` says that every event which is old
  enough for a request from `Begin` (`Reaches`) and has been asked for (`AskedFor`: by an
  earlier log, an earlier window, or this answer) is read, answered or cut off.
  It is *known* to have been there if it is before the rounded end of a window (`BeforeEnd`), or,
  where a request has no end, if it is before something that was answered
  (`BeforeAnswer`). What happens later is not known (`NewerIsNotKnown`), so the clock disturbs
  nothing. `CoveredOrBefore` is the step from one window to the next: an event that the rounded
  beginning of a window leaves out was before the rounded end of the window in front of it.
* *What the checkpoint passes.* It moves to the time of something read, which is not after the
  run's end (`AnswersInRun`), so whatever it passes is known (`CompleteRuns`). Of log files all
  rows or none are read, and the checkpoint is the time of a row: `NoneSkipped` therefore speaks of
  files (`NotNewer`), which is the strengthening that Salesforce needs.
* *First runs.* While there is no checkpoint, a run begins where the promise does, or the last,
  empty, run has covered what is before its own beginning (`BaseReaches`, `EmptyRuns`,
  `OldEnough`).

`InOrder` adds for the second property that a sorted source is read in order, over pages that show
what has arrived meanwhile too; so what is read is newer than the checkpoint, and what was read
before is not.

### What the proofs have changed

Invariants that would not go through have led to three corrections of the models. The first
two were formulas that the instances of the time could not tell from the right ones; the last,
one that said less than it seemed to.

* Delivery demanded that what is held goes out by itself. That is false for a source out of
  order, but only with batches of three: now `Deliver` lets others go along, and
  `combined_streams` has that size.
* `WellFormed` (Payload) allowed transforms that do not exist, which raise on every record.
* The type invariant of Offsets had an implication that swallowed the conjunct before it.

### Only model-checked

Liveness (`EveryEventSettles`, `EveryEventIsRead`, `EverySpanSettles`), which is beyond
the prover, and the three violations of section 7. Every other property of the runs is
stated by a theorem. What the recursive functions of FieldMap compute for every input is
not proved beyond what the theorems say of their outcomes.

## 7. Where code and documentation disagree

* **`final_batch`**: `_batched` hands over its last, partial batch only when the
  generator is exhausted, and `run()` has then saved its checkpoint
  (`base.py:301-303`). If this upload fails, or the process dies in between,
  the retried Job starts behind these events and they are never delivered. The
  trace: one event, one run, one rejected upload.
  `deployment/k8s-cronjob.yaml:83` means to "retry transient failures". That no more than
  this is ever lost is `ForfeitsLessThanABatch`.
* **`failing_stream`**: the combined Entra collector's docstring says that "a failure
  in one stream does not affect the others' checkpoints"
  (`entra_collector.py:21`). The first stream's last events wait in a batch shared
  with the next stream when its checkpoint is saved; if the next one cannot be
  read, the batch is dropped, and the first stream's checkpoint stands in front of
  events that no run reads.
* **`level_scope`**: `docs/logging.md:62` says of a collector's `log_level` that "The override
  is scoped to the collector's `run()` call and restored automatically on exit, even if
  the collector raises." It is restored by `finally` in a generator (`base.py:311`). If an
  upload gets no answer, the exception's reference cycles keep that generator, and the
  next collectors run at the first one's level, until the garbage collector closes
  it, in the midst of some later run. With a `log_level` of ERROR their start and
  complete lines are missing. The trace: two collectors, the first with a
  `log_level`, one upload that times out. `LevelsKeptApart` says that this is the only way.
Disagreements without a run of their own. Each follows from a line or two of the code,
which the modules translate as they are; a property could only repeat the line,
and none of those checked excepts them as if the documentation were right.

* `UncorrelatedActivityError` is documented (`base.py:79`) as raised when "the collector is
  not configured to store uncorrelated activities". `run()` raises it with
  `store_uncorrelated` (`base.py:279`), and drops the record without it; nothing is ever
  stored. In effect one such record blocks its collector (`PoisonBlocks`).
* "0 - every discovered collector ran and uploaded successfully" (`__main__.py:14`). A file
  that cannot be loaded is logged and skipped (`discovery.py:179-188`), and is not among the
  failures that decide the exit code.
* The same, and "All collectors succeeded" (`README.md:166`), for files that load: of two
  with one stem the later replaces the earlier (`discovery.py:193`), which is not even
  mentioned in the log.
* "1 - fatal error before any collector could run" (`__main__.py:15`, also `README.md:167`).
  With `--collector` the exception of the run itself leaves `main` (`__main__.py:271`), and
  the interpreter exits with 1.
* Of `--dry-run`, "Checkpoint state is never read or written" (`__main__.py:67`,
  `README.md:119`). The file in the temporary directory is part of the base configuration
  (`__main__.py:164`), and a collector whose `.json` has a `checkpoint_path` overrides it
  (`discovery.py:120`): a dry run moves that one past events that it has only printed.
* `dry_run` in a collector's `.json` "prints events to stdout instead of uploading"
  (`README.md:112`). Only `run_all` looks at it (`discovery.py:260`); with `--collector` the
  events are uploaded.
* A `log_level` of "`DEBUG` prints raw records and mapped event dicts" (`README.md:113`),
  "useful for debugging one collector at `DEBUG` without flooding logs from the others"
  (`docs/logging.md:50`). `configure_logging` has set the level of the handler too
  (`logging_setup.py:93`), and that drops what a process at INFO would not log.

## 8. Modelling notes and observations

* `Limit = 0` stands for no limit; `--limit 0` itself is not modelled.
* A limit of events cuts every run at the same place: the same events are delivered
  again by each, and those behind are never reached (`CopiesBounded` allows
  one more copy for each cut run).
* Out-of-order sources repeat events without any failure, since the checkpoint is the
  position of the record read *last*. So `CopiesBounded` is checked for sources in order only.
* What comes late is excepted from `NoSilentLoss` and from all that rests on it: it is behind
  something the source had already, and the filter is meant to drop it if the
  checkpoint has passed that. `PoisonNeverPassed` and `PoisonBlocks` speak of late records too.
* `FailuresIsolated` and the exit codes: it speaks of the collectors that were loaded, in every
  mode. Files that are not loaded, or are replaced by others, leave no trace in the exit
  code; section 7 holds that against the documentation.
* Dry runs end with 0 whether or not a collector has failed (`Finish`); `README.md:166` says so.
* TokenClient: that a token does not expire on its way at all cannot be said of this code, since
  nothing bounds a request by the buffer (section 3). `TokenArrivesLive` says what the
  buffer does guarantee.
* `base.py:95` speaks of one file per collector instance; `main` gives all of them
  one path.
* Sources: the events of a tick come before the requests of the tick, since ties with
  the checkpoint are Pipeline's matter (a tie that turns up later is `late` there). The
  answer of a request with an end, or of one answer, is taken when it is made. Later pages of a
  request without an end show everything unread, also where the order is unknown (Acme, Entra's
  service principal sign-ins): a cursor that leaves out what has moved behind it would lose
  records, and the code has no way to notice. Office 365 windows content by the time of its
  publication, which stands here for the time of its events, and a log file is taken to be
  written in the order of its times. With
  Office 365's inclusive bounds a record on a split may be read twice. What Jaeger's limit
  cuts off is excepted (`leftOut`): the code promises nothing of it.
* Sources, first runs: while there is no checkpoint each run starts a lookback before
  itself. Nothing is promised when such runs are further apart than that (`Continues`).
  For Salesforce the file must also have been published meanwhile, which takes its
  period. With daily files and the default lookback of a day (86400 s) a first run
  asks for files begun within the last day, and these are not complete yet: only a
  longer lookback, or hourly files, find anything.
* Combined: every record is an event, since what `run()` drops or raises on is
  Pipeline's matter, and a stream is asked once.
* Offsets: a limit ends a run in the midst of a message, whose offset is committed with it, so
  that `--limit` loses spans here, where it repeats events elsewhere; a dry run commits the
  offsets of what it prints, since it has a checkpoint file of its own but the same group.
  Both are beyond what the docstring admits (`otel_collector.py:19-23`), and exceptions in
  `OnlyDisturbedRunsLose`. A raising span loses the other spans of its message but blocks
  nothing, unlike a raising record in Pipeline. `consumed` counts a message when it has been
  polled, the code when its spans are through: nothing looks at it in between.
* FieldMap: a fallback path is taken if a path before it is absent, not if the transform
  makes nothing of it. `False` counts as 0, so Graph's error code `False` is a success. Google
  Cloud's absent status is a success by convention, which
  `docs/writing_a_collector.md:343` warns of; `SuccessNeedsEvidence` excepts it. Values have
  no identity: that a dict which two fields share is changed by a path below one of them
  is not modelled (no shipped field map does so).
* Payload: cells are left out, and with them that a datetime, as the value of a field of the
  event, cannot be encoded. A field's value is an object of scalars at most. Two fields of a
  map have different paths, as keys of one dict have. An event that itself has a key
  `column` can be refused without any conflict; `RefusedForConflictsOnly` says so.
* CheckpointFile: a reader that meets the file in the midst of a write is modelled by the
  empty file; "garbled" is what is left when two writers' texts overlie each other.

## 9. Not modelled, and the plan

Not modelled, with the reason: the connectivity probe and `--check`, `--list` (no
state); CSV cells and their encoding; the wording of logs; parsing of each source's
records; the RACF collector (a stub).

Not modelled of modelled parts: the column lookup of `TabularActivityCollector` (a pure
function); discovery's file-name filter; a dict that is shared between fields or with
the field map (section 8); `dry_run` over several runs of one collector, which keeps
its real checkpoint and so passes events that were only printed.

Order in which the project was built and goes on. Modules of the core come first,
because all others rely on what a run promises:

1. Delivery, Pipeline, PipelineProofs (done): runs, batches and checkpoints.
2. CheckpointFile, TokenClient and its proofs, Driver (done): what runs share, and the
   process around them with its log levels.
3. Combined, Sources, Offsets (done): the sources.
4. FieldMap, Payload (done): from records to uploads.
5. Proofs (done): PipelineProofs with the refinement of Delivery, TokenClientProofs,
   PayloadProofs, DriverProofs, CheckpointFileProofs, CombinedProofs, OffsetsProofs,
   SourcesProofs. Every safety property of the runs is stated by a theorem.
6. To go on with: dry runs as a mode of Pipeline's runs, with the real checkpoint that
   they keep; that a run of Sources, at any of its requests, is a run of Pipeline.

To run the checks by hand: `tlc -config Pipeline_any_order.cfg MCPipeline` (the
module of each configuration is in `PROJECT.json`), and `tlapm PipelineProofs.tla`.
