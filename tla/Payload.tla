------------------------------ MODULE Payload ------------------------------
(***************************************************************************)
(* From a raw record to the mapping document of an upload: a record's      *)
(* fields are resolved (FieldMap) and nested into an event, by             *)
(* _record_to_activity and map_to_event (field_mapping.py); a batch of     *)
(* events is flattened into columns, and these are nested again into a     *)
(* document, by build_upload_payload (mapping.py).  Both nest dotted paths *)
(* one after the other, and neither has been told that no path may run     *)
(* through another's end.                                                  *)
(*                                                                         *)
(* A path is a sequence of keys; "column" is one that events may use too.  *)
(* A nested dict is the set of the paths of its leaves: cells are left     *)
(* out.  A field's value may be a dict itself, whose values are no dicts.  *)
(***************************************************************************)
EXTENDS FieldMap, FiniteSets

CONSTANTS
  Rank,      \* the keys there are, each with its place in the alphabet
  MaxDepth,  \* bound: the length of a field's path
  FieldMaps, \* the field maps
  Records(_),\* the records that are mapped with a field map
  MaxBatch,  \* batch_size
  Shell      \* the paths that new_event_shell sets

Keys == DOMAIN Rank
Column == "column"
Paths == UNION {[1..n -> Keys] : n \in 1..MaxDepth}

IsAbove(p, q) == Len(p) < Len(q) /\ \A i \in 1..Len(p) : p[i] = q[i]
IsTree(S) == \A p, q \in S : ~IsAbove(p, q)

\* A field is named for a path of the event, or is one of those that are taken out
\* first.  The names of a field map are the keys of a dict: no two are the same.
NativeActorId == <<"_native_actor_id">>
EventTime == <<"_event_time">>
Outcome == <<"outcome">>
Action == <<"action">>
Reserved == {NativeActorId, EventTime, Outcome, Action}
PathFields(map) == {i \in DOMAIN map : map[i].name \notin Reserved}

HasSource(spec) == spec.literal # Absent \/ spec.source # NoSource

\* A raw record is a dict, and an exception is no value of a record or a field map.
ASSUME PayloadAssumption ==
  /\ Rank \in [Keys -> Nat] /\ Column \in Keys
  /\ \A k, l \in Keys : Rank[k] = Rank[l] => k = l
  /\ {MaxDepth, MaxBatch} \subseteq Nat
  /\ Shell \subseteq Paths /\ IsTree(Shell)
  /\ \A map \in FieldMaps :
       /\ \A i \in PathFields(map) : map[i].name \in Paths
       /\ \A i, j \in DOMAIN map : i # j => map[i].name # map[j].name
       /\ \A i \in DOMAIN map : map[i].spec.default # Raised
       /\ \A r \in Records(map) :
            /\ r.tag = "dict"
            /\ \A i \in DOMAIN map :
                 HasSource(map[i].spec) => Raw(r, map[i].spec) # Raised
       /\ \A r \in Records(map), i \in PathFields(map) :
            LET value == FieldValue(r, map[i].spec)
            IN  value.tag = "dict" => DOMAIN value.dict \subseteq Keys

VARIABLES
  fields,   \* the field map: names and specs, in order
  pc,       \* "idle", "map" (map_to_event), "doc" (build_mapping_doc), "done",
            \* "refused" (it raised), "poison" (mapping a record raised)
  record,   \* the record that is mapped
  outcome,  \* the outcome of its event
  resolved, \* the fields with a value that are not yet in the event
  event,    \* the event so far
  batch,    \* the events of the batch
  columns,  \* the columns of the CSV
  todo,     \* those not yet in the document
  doc       \* the document, as paths to the strings in it

mapping == <<record, outcome, resolved, event>>
upload == <<columns, todo, doc>>
vars == <<fields, pc, mapping, batch, upload>>

Init ==
  /\ fields \in FieldMaps
  /\ pc = "idle"
  /\ record = Null /\ outcome = Null
  /\ resolved = {} /\ event = {} /\ batch = {}
  /\ columns = {} /\ todo = {} /\ doc = {}

-----------------------------------------------------------------------------
Value(r, i) == FieldValue(r, fields[i].spec)

\* The fields at which _record_to_activity leaves its loop.
Stops(r) ==
  {i \in DOMAIN fields :
     Value(r, i) = Raised \/ (Value(r, i) = Null /\ fields[i].spec.required)}

\* The value of a field that the field map may or may not have.
Named(r, name) ==
  IF \E i \in DOMAIN fields : fields[i].name = name
  THEN Value(r, CHOOSE i \in DOMAIN fields : fields[i].name = name)
  ELSE Null

\* How _record_to_activity ends: the first stop decides; then an event needs an
\* actor and a time, and the time has to be one.
Mapped(r) ==
  CASE \E i \in Stops(r) : Value(r, i) = Raised /\ \A j \in Stops(r) : i <= j -> "raises"
    [] Stops(r) = {} ->
         IF Null \in {Named(r, NativeActorId), Named(r, EventTime)}
         THEN "dropped"
         ELSE IF Named(r, EventTime).tag # "datetime" THEN "raises" ELSE "mapped"
    [] OTHER -> "dropped"

Outcomes == {Str(o) : o \in {"success", "failure", "partial", "unknown"}}

\* map_to_event says "unknown" for every value that counts as false.
OutcomeOf(r) ==
  LET value == Named(r, Outcome) IN IF Truthy(value) THEN value ELSE Unknown

DropRecord(r) ==
  /\ pc = "idle" /\ Mapped(r) = "dropped"
  /\ UNCHANGED vars

\* Mapping the record raises, or new_event_shell does because of the outcome.
PoisonRecord(r) ==
  /\ pc = "idle"
  /\ Mapped(r) = "raises" \/ (Mapped(r) = "mapped" /\ OutcomeOf(r) \notin Outcomes)
  /\ pc' = "poison"
  /\ record' = r
  /\ UNCHANGED <<fields, outcome, resolved, event, batch, upload>>

\* An activity whose event's shell has been made.
MapRecord(r) ==
  /\ pc = "idle" /\ Cardinality(batch) < MaxBatch
  /\ Mapped(r) = "mapped" /\ OutcomeOf(r) \in Outcomes
  /\ pc' = "map"
  /\ record' = r /\ outcome' = OutcomeOf(r)
  /\ resolved' = {i \in PathFields(fields) : Value(r, i) # Null}
  /\ event' = Shell
  /\ UNCHANGED <<fields, batch, upload>>

\* The paths of the leaves that a value brings along.
Leaves(p, v) == IF v.tag = "dict" THEN {p \o <<k>> : k \in DOMAIN v.dict} ELSE {p}

\* Mutant: what was below the path stays.
SetDottedBeside(tree, p, v) == tree \cup Leaves(p, v)

SetDotted(tree, p, v) == {q \in tree : q # p /\ ~IsAbove(p, q)} \cup Leaves(p, v)

\* The next field in the map's order; a path through a value that is not a dict
\* raises.
SetField ==
  /\ pc = "map"
  /\ \E i \in resolved :
       /\ \A j \in resolved : i <= j
       /\ resolved' = resolved \ {i}
       /\ IF \E q \in event : IsAbove(q, fields[i].name)
          THEN pc' = "poison" /\ UNCHANGED event
          ELSE /\ event' = SetDotted(event, fields[i].name, Value(record, i))
               /\ UNCHANGED pc
  /\ UNCHANGED <<fields, record, outcome, batch, upload>>

\* What was known of the record is gone.
Forget ==
  /\ record' = Null /\ outcome' = Null
  /\ resolved' = {} /\ event' = {}

Emit ==
  /\ pc = "map" /\ resolved = {}
  /\ pc' = "idle"
  /\ batch' = batch \cup {event}
  /\ Forget
  /\ UNCHANGED <<fields, upload>>

-----------------------------------------------------------------------------
\* events_to_csv: the union of the events' flattened paths.
ToCsv ==
  /\ pc = "idle" /\ batch # {}
  /\ pc' = "doc"
  /\ columns' = UNION batch /\ todo' = UNION batch
  /\ doc' = {}
  /\ UNCHANGED <<fields, mapping, batch>>

\* Lexicographic order, a path before what is below it.
Before(p, q) ==
  \/ IsAbove(p, q)
  \/ \E i \in 1..Len(p) : /\ i <= Len(q) /\ Rank[p[i]] < Rank[q[i]]
                          /\ \A j \in 1..(i - 1) : p[j] = q[j]

\* Mutant: the columns are in the order in which a set returns them.
IsNextUnsorted(p) == p \in todo

IsNext(p) == p \in todo /\ \A q \in todo \ {p} : Before(p, q)

At(p, key) == p \o <<key>>
AtOrBelow(p, S) == {q \in S : q = p \/ IsAbove(p, q)}

\* Mutant: two columns must not share a parent.
CollidesAtAnyParent(p) ==
  \E n \in 1..(Len(p) - 1) : AtOrBelow(SubSeq(p, 1, n), doc) # {}

\* One of the nodes that p passes has an entry "column".
Collides(p) ==
  \E n \in 1..(Len(p) - 1) : AtOrBelow(At(SubSeq(p, 1, n), Column), doc) # {}

SetNested(p) ==
  /\ pc = "doc" /\ IsNext(p)
  /\ IF Collides(p)
     THEN pc' = "refused" /\ UNCHANGED <<todo, doc>>
     ELSE /\ doc' = (doc \ AtOrBelow(p, doc)) \cup {At(p, Column)}
          /\ todo' = todo \ {p}
          /\ UNCHANGED pc
  /\ UNCHANGED <<fields, mapping, batch, columns>>

Built ==
  /\ pc = "doc" /\ todo = {}
  /\ pc' = "done"
  /\ UNCHANGED <<fields, mapping, batch, upload>>

\* The next batch, or the next run.
StartOver ==
  /\ pc \in {"done", "refused", "poison"}
  /\ pc' = "idle"
  /\ Forget /\ batch' = {}
  /\ columns' = {} /\ todo' = {} /\ doc' = {}
  /\ UNCHANGED fields

Next == \/ \E r \in Records(fields) : DropRecord(r) \/ PoisonRecord(r) \/ MapRecord(r)
        \/ SetField \/ Emit
        \/ ToCsv \/ (\E p \in todo : SetNested(p)) \/ Built
        \/ StartOver

Spec == Init /\ [][Next]_vars

-----------------------------------------------------------------------------
\* Every event is a tree, whatever the field map and the order of its fields.
TypeOK ==
  /\ fields \in FieldMaps
  /\ pc \in {"idle", "map", "doc", "done", "refused", "poison"}
  /\ record # Null <=> pc \in {"map", "poison"}
  /\ outcome \in Outcomes \cup {Null}
  /\ resolved \subseteq PathFields(fields)
  /\ IsTree(event) /\ event \subseteq Seq(Keys)
  /\ Cardinality(batch) <= MaxBatch /\ \A e \in batch : IsTree(e)
  /\ todo \subseteq columns /\ columns \subseteq Seq(Keys)

\* A document that is uploaded says of every column of the CSV where it belongs,
\* and of nothing else.  No column is both a value and a parent of others, although
\* the events that say so may have been made from different records.
DocMatchesColumns ==
  pc = "done" => IsTree(columns) /\ doc = {At(p, Column) : p \in columns}

\* A batch is refused for no other reason, as long as no event uses the key that
\* the document's leaves are told by.
RefusedForConflictsOnly ==
  pc = "refused" =>
    ~IsTree(columns) \/ \E p \in columns : \E i \in 1..Len(p) : p[i] = Column

\* What can be said of a field map without a record.
Transforms ==
  TimeParsers \cup OutcomeTransforms \cup {Identity, "access_key_to_credential_type"}
SaysOutcome(spec) ==
  /\ spec.default \in Outcomes \cup {Absent}
  /\ IF spec.literal # Absent THEN spec.transform = Identity /\ spec.literal \in Outcomes
                              ELSE spec.transform \in OutcomeTransforms
WellFormed(map) ==
  /\ \A i \in DOMAIN map : HasSource(map[i].spec) /\ map[i].spec.transform \in Transforms
  /\ \A i \in DOMAIN map : map[i].name = EventTime =>
       map[i].spec.transform \in TimeParsers /\ map[i].spec.default = Absent
  /\ \A i \in DOMAIN map : map[i].name = Outcome => SaysOutcome(map[i].spec)
  /\ \A i \in PathFields(map) : map[i].spec.transform \in {Identity, "access_key_to_credential_type"}
  /\ IsTree(Shell \cup {map[i].name : i \in PathFields(map)})

\* The values that a transform is known to trip over.
Awkward(transform, v) ==
  \/ transform = "otel_status_code_to_outcome" /\ v.tag \in {"dict", "list"}
  \/ /\ transform \in {"unix_nanos_to_datetime", "micros_to_datetime"}
     /\ IsIntLike(v) /\ AsInt(v) >= Beyond
  \/ /\ transform = "parse_salesforce_timestamp"
     /\ v = Str("compact time, odd fraction")

\* A record raises, and so stops its collector for good, only if the field map is
\* at fault or a value is one of those: never for a path that leads nowhere, a value
\* of another type than expected, or a text that says something else.
OrdinaryRecordsNeverRaise ==
  pc = "poison" =>
    \/ ~WellFormed(fields)
    \/ \E i \in DOMAIN fields :
         Awkward(fields[i].spec.transform, Raw(record, fields[i].spec))

\* No evidence is not success: an event says that something succeeded only if its
\* record has a value where the outcome is looked for.  Google Cloud's status, which
\* is absent for success, is the exception; a literal or a default is the field
\* map's own decision.
SuccessNeedsEvidence ==
  pc = "map" /\ outcome = Success =>
    \E i \in DOMAIN fields :
      /\ fields[i].name = Outcome
      /\ \/ Raw(record, fields[i].spec) # Null
         \/ fields[i].spec.transform = "gcp_status_code_to_outcome"
         \/ fields[i].spec.default = Success
=============================================================================
