--------------------------- MODULE CheckpointFile ---------------------------
(***************************************************************************)
(* The one JSON file in which every collector of every process keeps its   *)
(* position: CheckpointStore.get and set (base.py) step by step, called    *)
(* from runs of which only what they read, deliver and save, in this       *)
(* order, is kept: full batches first, then the position, then the final   *)
(* batch (the rest of a run is Pipeline's matter).  A process runs its     *)
(* collectors one after the other (run_all in discovery.py); two processes *)
(* overlap where the scheduler lets them.  Each source is a sequence of    *)
(* events at times 1, 2, 3, ...                                            *)
(***************************************************************************)
EXTENDS Naturals

CONSTANTS
  Procs,       \* processes, one per scheduled start that may be alive at once
  Collectors,  \* collectors, each with a collector_id of its own
  MaxTime      \* bound: the events of a source

ASSUME FileAssumption == MaxTime \in Nat /\ Collectors # {}

VARIABLES
  overlaps,     \* how it is deployed: FALSE iff concurrencyPolicy is Forbid
  file,         \* "absent", "json", or one of Unreadable
  entries,      \* the entries of a "json" file
  head,         \* the newest event of each source
  sent,         \* history: the events of each source accepted by the API
  forfeited,    \* history: those not among them whose final batch has failed
  pc,           \* where each process is
  todo,         \* the collectors it has yet to run
  current,      \* the one it is running, AnyCollector between runs
  since,        \* the position that one's run started from
  data,         \* the dict that set() is about to write
  batch,        \* the final batch, which goes out after set()
  saved,        \* history: the position each collector saved last
  interrupted,  \* history: whether a process was killed between truncate and write
  blocked       \* history: whether a collector has found the file unreadable

procVars == <<pc, todo, current, since, data, batch>>
fileVars == <<file, entries>>
vars == <<overlaps, fileVars, head, sent, forfeited, procVars, saved, interrupted,
          blocked>>

Places == {"idle", "next", "run", "load", "truncate", "write", "tail"}
Times == 0..MaxTime
Dict == [Collectors -> Times]   \* 0: the collector has no entry
AnyCollector == CHOOSE c \in Collectors : TRUE
NoEntries == [c \in Collectors |-> 0]

\* write_text() opens the file, which empties it, and then writes.  Neither an
\* empty file nor one in which two writes overlie each other is JSON.
Unreadable == {"empty", "garbled"}
Readable == file \notin Unreadable
SetFile(state, dict) == file' = state /\ entries' = dict

Init ==
  /\ overlaps \in BOOLEAN
  /\ file = "absent" /\ entries = NoEntries
  /\ head = NoEntries
  /\ sent = [c \in Collectors |-> {}]
  /\ forfeited = [c \in Collectors |-> {}]
  /\ pc = [p \in Procs |-> "idle"]
  /\ todo = [p \in Procs |-> {}]
  /\ current = [p \in Procs |-> AnyCollector]
  /\ since = [p \in Procs |-> 0]
  /\ data = [p \in Procs |-> NoEntries]
  /\ batch = [p \in Procs |-> {}]
  /\ saved = NoEntries
  /\ interrupted = FALSE /\ blocked = FALSE

-----------------------------------------------------------------------------
Arrive(c) ==
  /\ head[c] < MaxTime
  /\ head' = [head EXCEPT ![c] = @ + 1]
  /\ UNCHANGED <<overlaps, fileVars, sent, forfeited, procVars, saved, interrupted,
                 blocked>>

Start(p) ==
  /\ pc[p] = "idle"
  /\ overlaps \/ \A q \in Procs : pc[q] = "idle"
  /\ pc' = [pc EXCEPT ![p] = "next"]
  /\ todo' = [todo EXCEPT ![p] = Collectors]
  /\ UNCHANGED <<overlaps, fileVars, head, sent, forfeited, current, since, data, batch,
                 saved, interrupted, blocked>>

\* The locals of a run, its batch included, do not outlive it.
Leave(p, where) ==
  /\ pc' = [pc EXCEPT ![p] = where]
  /\ current' = [current EXCEPT ![p] = AnyCollector]
  /\ since' = [since EXCEPT ![p] = 0]
  /\ data' = [data EXCEPT ![p] = NoEntries]
  /\ batch' = [batch EXCEPT ![p] = {}]

\* json.loads() raises; run_all goes on to the next collector.
Blocked(p) ==
  /\ ~Readable
  /\ blocked' = TRUE
  /\ Leave(p, "next")
  /\ UNCHANGED <<overlaps, fileVars, head, sent, forfeited, saved, interrupted>>

\* A collector's run begins with get().
Get(p, c) ==
  /\ pc[p] = "next" /\ c \in todo[p]
  /\ todo' = [todo EXCEPT ![p] = @ \ {c}]
  /\ \/ Blocked(p)
     \/ /\ Readable
        /\ current' = [current EXCEPT ![p] = c]
        /\ since' = [since EXCEPT ![p] = entries[c]]
        /\ pc' = [pc EXCEPT ![p] = "run"]
        /\ UNCHANGED <<overlaps, fileVars, head, sent, forfeited, data, batch, saved,
                       interrupted, blocked>>

\* The API takes these events of p's collector.
Accept(p, events) ==
  /\ sent' = [sent EXCEPT ![current[p]] = @ \cup events]
  /\ forfeited' = [forfeited EXCEPT ![current[p]] = @ \ events]

\* Mutant: the record at the checkpoint is delivered again.
DeliverFromSince(p, upTo) == Accept(p, since[p]..upTo)

Deliver(p, upTo) == Accept(p, (since[p] + 1)..upTo)

\* The source is read to its end, and the full batches, up to the event at full, are
\* delivered; run() saves its position if it has moved, with the rest still in the
\* batch of _batched.
RunReads(p) ==
  LET position == head[current[p]] IN
  /\ pc[p] = "run"
  /\ \E full \in since[p]..position :
       /\ Deliver(p, full)
       /\ IF position = since[p]
          THEN Leave(p, "next")
          ELSE /\ data' = [data EXCEPT ![p][current[p]] = position]
               /\ batch' = [batch EXCEPT ![p] = (full + 1)..position]
               /\ pc' = [pc EXCEPT ![p] = "load"]
               /\ UNCHANGED <<current, since>>
  /\ UNCHANGED <<overlaps, fileVars, head, todo, saved, interrupted, blocked>>

\* Mutant: a failed run saves where the source stands.
RunFailsSaving(p) ==
  /\ pc[p] = "run"
  /\ \E upTo \in since[p]..head[current[p]] : Deliver(p, upTo)
  /\ data' = [data EXCEPT ![p][current[p]] = head[current[p]]]
  /\ pc' = [pc EXCEPT ![p] = "load"]
  /\ UNCHANGED <<overlaps, fileVars, head, todo, current, since, batch, saved,
                 interrupted, blocked>>

\* The source or the API fails after some of the full batches; run_all isolates the
\* failure.
RunFails(p) ==
  /\ pc[p] = "run"
  /\ \E upTo \in since[p]..head[current[p]] : Deliver(p, upTo)
  /\ Leave(p, "next")
  /\ UNCHANGED <<overlaps, fileVars, head, todo, saved, interrupted, blocked>>

\* Mutants: set() writes its own entry only, or takes an unreadable file for an
\* empty one.
LoadOwnEntry(p) ==
  /\ pc[p] = "load"
  /\ pc' = [pc EXCEPT ![p] = "truncate"]
  /\ UNCHANGED <<overlaps, fileVars, head, sent, forfeited, todo, current, since, data,
                 batch, saved, interrupted, blocked>>

LoadAnything(p) ==
  /\ pc[p] = "load"
  /\ data' = [data EXCEPT ![p] =
                  [entries EXCEPT ![current[p]] = data[p][current[p]]]]
  /\ pc' = [pc EXCEPT ![p] = "truncate"]
  /\ UNCHANGED <<overlaps, fileVars, head, sent, forfeited, todo, current, since, batch,
                 saved, interrupted, blocked>>

\* set(): read all entries, change one ...  If they cannot be read, run() raises with
\* its last batch not handed over.
Load(p) ==
  /\ pc[p] = "load"
  /\ UNCHANGED todo
  /\ \/ Blocked(p)
     \/ /\ Readable
        /\ data' = [data EXCEPT ![p] =
                        [entries EXCEPT ![current[p]] = data[p][current[p]]]]
        /\ pc' = [pc EXCEPT ![p] = "truncate"]
        /\ UNCHANGED <<overlaps, fileVars, head, sent, forfeited, current, since, batch,
                       saved, interrupted, blocked>>

\* Mutant: the file is opened for writing without being emptied.
TruncateNot(p) ==
  /\ pc[p] = "truncate"
  /\ pc' = [pc EXCEPT ![p] = "write"]
  /\ UNCHANGED <<overlaps, fileVars, head, sent, forfeited, todo, current, since, data,
                 batch, saved, interrupted, blocked>>

\* ... and write them all back, in two steps of the operating system.
Truncate(p) ==
  /\ pc[p] = "truncate"
  /\ SetFile("empty", NoEntries)
  /\ pc' = [pc EXCEPT ![p] = "write"]
  /\ UNCHANGED <<overlaps, head, sent, forfeited, todo, current, since, data, batch, saved,
                 interrupted, blocked>>

\* Over what another process wrote since, a shorter text leaves that one's end.
Write(p) ==
  /\ pc[p] = "write"
  /\ \/ SetFile("json", data[p])
     \/ /\ file # "empty" /\ ~(file = "json" /\ entries = data[p])
        /\ SetFile("garbled", NoEntries)
  /\ saved' = [saved EXCEPT ![current[p]] = data[p][current[p]]]
  /\ data' = [data EXCEPT ![p] = NoEntries]
  /\ pc' = [pc EXCEPT ![p] = "tail"]
  /\ UNCHANGED <<overlaps, head, sent, forfeited, todo, current, since, batch, interrupted,
                 blocked>>

\* What a run that ends in its tail has not delivered is behind its saved position.
Forfeit(p) ==
  forfeited' = IF pc[p] = "tail"
               THEN [forfeited EXCEPT ![current[p]] = @ \cup (batch[p] \ sent[current[p]])]
               ELSE forfeited

\* run() has returned, and _batched hands over what it still has: the upload is
\* accepted, or it fails and run_all isolates the failure.
FinalBatch(p) ==
  /\ pc[p] = "tail"
  /\ \/ Accept(p, batch[p])
     \/ Forfeit(p) /\ UNCHANGED sent
  /\ Leave(p, "next")
  /\ UNCHANGED <<overlaps, fileVars, head, todo, saved, interrupted, blocked>>

Exit(p) ==
  /\ pc[p] = "next" /\ todo[p] = {}
  /\ pc' = [pc EXCEPT ![p] = "idle"]
  /\ UNCHANGED <<overlaps, fileVars, head, sent, forfeited, todo, current, since, data,
                 batch, saved, interrupted, blocked>>

Kill(p) ==
  /\ pc[p] # "idle"
  /\ Leave(p, "idle")
  /\ Forfeit(p)
  /\ todo' = [todo EXCEPT ![p] = {}]
  /\ interrupted' = (interrupted \/ pc[p] = "write")
  /\ UNCHANGED <<overlaps, fileVars, head, sent, saved, blocked>>

-----------------------------------------------------------------------------
Save(p) == Load(p) \/ Truncate(p) \/ Write(p)

Runs(p) == \/ \E c \in Collectors : Get(p, c)
           \/ RunReads(p) \/ Save(p) \/ FinalBatch(p) \/ Exit(p)

Next == \/ \E c \in Collectors : Arrive(c)
        \/ \E p \in Procs : Start(p) \/ Runs(p) \/ RunFails(p) \/ Kill(p)

Spec == Init /\ [][Next]_vars

-----------------------------------------------------------------------------
TypeOK ==
  /\ overlaps \in BOOLEAN
  /\ file \in {"absent", "json"} \cup Unreadable /\ entries \in Dict
  /\ head \in Dict
  /\ sent \in [Collectors -> SUBSET (1..MaxTime)]
  /\ forfeited \in [Collectors -> SUBSET (1..MaxTime)]
  /\ pc \in [Procs -> Places]
  /\ todo \in [Procs -> SUBSET Collectors]
  /\ current \in [Procs -> Collectors]
  /\ since \in [Procs -> Times]
  /\ data \in [Procs -> Dict]
  /\ batch \in [Procs -> SUBSET (1..MaxTime)]
  /\ saved \in Dict
  /\ interrupted \in BOOLEAN /\ blocked \in BOOLEAN

\* No entry covers an event that no run has delivered, is about to deliver as its
\* final batch, or has forfeited with one, even when processes overlap, overwrite each
\* other's entries and are killed: a lost update sets a collector back, which repeats
\* events, but never sets it forward, and what another process has taken up from the
\* file is accounted for by the one that holds it.
Held(c) == UNION {batch[p] : p \in {q \in Procs : pc[q] = "tail" /\ current[q] = c}}

Accounted(c) == sent[c] \cup forfeited[c] \cup Held(c)

EntriesAreSent ==
  Readable => \A c \in Collectors : 1..entries[c] \subseteq Accounted(c)

\* Where processes do not overlap, no collector's save undoes another's: the
\* file holds what each collector saved last.
NoLostUpdate ==
  ~overlaps => (Readable => entries = saved)

\* Where processes do not overlap, nothing but a kill in the middle of a write
\* leaves the file unreadable, and no collector ever finds it so otherwise.
UnreadableOnlyAfterKill ==
  ~overlaps /\ ~interrupted => /\ ~blocked
                               /\ ~Readable => \E p \in Procs : pc[p] = "write"

\* The file does not heal: once it is unreadable and no write is under way, no
\* collector of any later process gets as far as writing it, since set() and
\* get() both have to read it first.
NobodyWriting == \A p \in Procs : pc[p] \notin {"truncate", "write"}

UnreadableStays ==
  [][~Readable /\ NobodyWriting => ~Readable' /\ NobodyWriting']_vars
=============================================================================
