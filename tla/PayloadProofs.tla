--------------------------- MODULE PayloadProofs ---------------------------
(* Proofs about FieldMap and Payload, for all field maps, records and batches. *)
EXTENDS Payload, FiniteSetTheorems, SequenceTheorems, TLAPS

-----------------------------------------------------------------------------
(* No evidence is not success. *)

\* Of a missing value only Google Cloud's transform makes a success.
LEMMA NullIsNoSuccess ==
  ASSUME NEW name, Transform(name, Null) = Success
  PROVE  name = "gcp_status_code_to_outcome"
<1> USE DEF Null, Success, Str
<1>1. name # Identity
  BY DEF Transform, Identity
<1>2. name # "error_code_presence_to_outcome"
  BY DEF Transform, Identity, ErrorCodePresence
<1>3. name # "access_key_to_credential_type"
  BY DEF Transform, Identity, AccessKey, Truthy
<1>4. name # "sailpoint_result_to_outcome"
  BY DEF Transform, Identity, SailpointResult
<1>5. name # "parse_iso8601"
  BY DEF Transform, Identity, ParseIso8601
<1>6. name # "bool_to_outcome"
  BY DEF Transform, Identity, BoolToOutcome
<1>7. name # "graph_signin_error_code_to_outcome"
  BY DEF Transform, Identity, GraphSignin, Number, Bool, Failure
<1>8. name # "azure_status_to_outcome"
  BY DEF Transform, Identity, AzureStatus
<1>9. name # "o365_status_to_outcome"
  BY DEF Transform, Identity, O365Status, Failure
<1>10. name # "parse_salesforce_timestamp"
  BY DEF Transform, Identity, SalesforceTimestamp
<1>11. name \notin {"unix_nanos_to_datetime", "micros_to_datetime"}
  BY DEF Transform, Identity, FromTimestamp, IsIntLike
<1>12. name # "otel_status_code_to_outcome"
  BY DEF Transform, Identity, OtelStatus, Number, Bool
<1> QED
  BY <1>1, <1>2, <1>3, <1>4, <1>5, <1>6, <1>7, <1>8, <1>9, <1>10, <1>11, <1>12
     DEF Transform, Identity, Raised

\* What a spec resolves to is a success with a value, a literal or a default that
\* says so, or by Google Cloud's convention.
LEMMA SuccessHasEvidence ==
  ASSUME NEW r, NEW spec, FieldValue(r, spec) = Success
  PROVE  \/ Raw(r, spec) # Null
         \/ spec.transform = "gcp_status_code_to_outcome"
         \/ spec.default = Success
<1>1. Null # Success /\ Raised # Null /\ Raised # Success
  BY DEF Null, Success, Str, Raised
<1>2. CASE Raw(r, spec) = Null
  <2>1. Transform(spec.transform, Null) = Success \/ spec.default = Success
    BY <1>1, <1>2 DEF FieldValue
  <2> QED
    BY <2>1, NullIsNoSuccess
<1> QED
  BY <1>2

\* An event's outcome is that of the record it is made from.
OutcomeOfRecord == pc = "map" => outcome = OutcomeOf(record)

LEMMA OutcomeOfRecordStep == OutcomeOfRecord /\ [Next]_vars => OutcomeOfRecord'
<1> SUFFICES ASSUME OutcomeOfRecord, [Next]_vars
             PROVE  OutcomeOfRecord'
  OBVIOUS
<1> USE DEF OutcomeOfRecord, OutcomeOf, Named, Value
<1>1. ASSUME NEW r, MapRecord(r)
      PROVE  OutcomeOfRecord'
  BY <1>1 DEF MapRecord
<1>2. CASE SetField
  BY <1>2 DEF SetField
<1>3. ASSUME NEW r, DropRecord(r) \/ PoisonRecord(r)
      PROVE  OutcomeOfRecord'
  BY <1>3 DEF DropRecord, PoisonRecord, vars, mapping, upload
<1>4. CASE Emit \/ ToCsv \/ (\E p \in todo : SetNested(p)) \/ Built \/ StartOver
  BY <1>4 DEF Emit, ToCsv, SetNested, Built, StartOver, mapping
<1>5. CASE UNCHANGED vars
  BY <1>5 DEF vars, mapping
<1> QED
  BY <1>1, <1>2, <1>3, <1>4, <1>5 DEF Next

\* An event says that something succeeded only if its record has a value where the
\* outcome is looked for, or the field map decides so by itself.
THEOREM NoEvidenceNoSuccess == Spec => []SuccessNeedsEvidence
<1>1. Init => OutcomeOfRecord
  BY DEF Init, OutcomeOfRecord
<1>2. OutcomeOfRecord => SuccessNeedsEvidence
  <2> SUFFICES ASSUME OutcomeOfRecord, pc = "map", outcome = Success
               PROVE  \E i \in DOMAIN fields :
                        /\ fields[i].name = Outcome
                        /\ \/ Raw(record, fields[i].spec) # Null
                           \/ fields[i].spec.transform = "gcp_status_code_to_outcome"
                           \/ fields[i].spec.default = Success
    BY DEF SuccessNeedsEvidence
  <2>1. Unknown # Success /\ Null # Success
    BY DEF Unknown, Success, Str, Null
  <2>2. Named(record, Outcome) = Success
    BY <2>1 DEF OutcomeOfRecord, OutcomeOf
  <2>3. PICK i \in DOMAIN fields : /\ fields[i].name = Outcome
                                   /\ Value(record, i) = Success
    BY <2>1, <2>2 DEF Named
  <2> QED
    BY <2>3, SuccessHasEvidence DEF Value
<1> QED
  BY <1>1, <1>2, OutcomeOfRecordStep, PTL DEF Spec

-----------------------------------------------------------------------------
(* Paths. *)

Path == {p \in Seq(Keys) : Len(p) \in Nat \ {0}}

\* The paths that may name a field are paths.
LEMMA NamesArePaths == Paths \subseteq Path
<1> SUFFICES ASSUME NEW p \in Paths
             PROVE  p \in Path
  OBVIOUS
<1>1. PICK n \in 1..MaxDepth : p \in [1..n -> Keys]
  BY DEF Paths
<1>2. n \in Nat \ {0}
  BY PayloadAssumption
<1>3. p \in Seq(Keys)
  BY <1>1, <1>2, SeqDef
<1>4. Len(p) = n
  BY <1>1, <1>2, <1>3, LenProperties
<1> QED
  BY <1>2, <1>3, <1>4 DEF Path

\* One key more.
LEMMA AtPath ==
  ASSUME NEW p \in Path, NEW key \in Keys
  PROVE  /\ At(p, key) \in Path
         /\ Len(At(p, key)) = Len(p) + 1
         /\ \A i \in 1..Len(p) : At(p, key)[i] = p[i]
         /\ At(p, key)[Len(p) + 1] = key
<1>1. p \in Seq(Keys) /\ Len(p) \in Nat \ {0}
  BY DEF Path
<1>2. <<key>> \in Seq(Keys) /\ Len(<<key>>) = 1 /\ <<key>>[1] = key
  OBVIOUS
<1>3. /\ At(p, key) \in Seq(Keys)
      /\ Len(At(p, key)) = Len(p) + 1
      /\ \A i \in 1..(Len(p) + 1) :
           At(p, key)[i] = IF i <= Len(p) THEN p[i] ELSE <<key>>[i - Len(p)]
  BY <1>1, <1>2, ConcatProperties DEF At
<1>4. \A i \in 1..Len(p) : At(p, key)[i] = p[i]
  BY <1>1, <1>3
<1>5. At(p, key)[Len(p) + 1] = key
  BY <1>1, <1>2, <1>3
<1> QED
  BY <1>1, <1>3, <1>4, <1>5 DEF Path

\* The first keys of a path.
LEMMA PrefixPath ==
  ASSUME NEW p \in Path, NEW n \in 1..Len(p)
  PROVE  /\ SubSeq(p, 1, n) \in Path
         /\ Len(SubSeq(p, 1, n)) = n
         /\ \A i \in 1..n : SubSeq(p, 1, n)[i] = p[i]
<1>1. p \in Seq(Keys) /\ Len(p) \in Nat \ {0} /\ n \in Nat \ {0}
  BY DEF Path
<1>2. \A i \in 1..n : p[i] \in Keys
  BY <1>1, ElementOfSeq
<1>3. /\ SubSeq(p, 1, n) \in Seq(Keys)
      /\ Len(SubSeq(p, 1, n)) = IF 1 <= n THEN n - 1 + 1 ELSE 0
      /\ \A i \in 1..(n - 1 + 1) : SubSeq(p, 1, n)[i] = p[1 + i - 1]
  BY <1>1, <1>2, SubSeqProperties
<1> QED
  BY <1>1, <1>3 DEF Path

\* Paths with the same keys are the same.
LEMMA SamePath ==
  ASSUME NEW p \in Path, NEW q \in Path,
         Len(p) = Len(q), \A i \in 1..Len(p) : p[i] = q[i]
  PROVE  p = q
  BY SeqEqual DEF Path

\* What is above a path with one key more is the path itself or above it.
LEMMA AboveAt ==
  ASSUME NEW p \in Path, NEW q \in Path, NEW key \in Keys, IsAbove(q, At(p, key))
  PROVE  q = p \/ IsAbove(q, p)
<1>1. Len(p) \in Nat /\ Len(q) \in Nat
  BY DEF Path
<1>2. Len(q) <= Len(p) /\ \A i \in 1..Len(q) : q[i] = p[i]
  BY <1>1, AtPath DEF IsAbove
<1> QED
  BY <1>1, <1>2, SamePath DEF IsAbove

\* What is below a path with one key more is below it.
LEMMA AtAbove ==
  ASSUME NEW p \in Path, NEW q \in Path, NEW key \in Keys,
         At(p, key) = q \/ IsAbove(At(p, key), q)
  PROVE  IsAbove(p, q)
<1>1. Len(p) \in Nat /\ Len(q) \in Nat
  BY DEF Path
<1>2. /\ Len(At(p, key)) = Len(p) + 1
      /\ \A i \in 1..Len(p) : At(p, key)[i] = p[i]
  BY AtPath
<1>3. CASE At(p, key) = q
  BY <1>1, <1>2, <1>3 DEF IsAbove
<1>4. CASE IsAbove(At(p, key), q)
  BY <1>1, <1>2, <1>4 DEF IsAbove
<1> QED
  BY <1>3, <1>4

-----------------------------------------------------------------------------
(* Events are trees. *)

\* A field's value brings along paths at its own or one below it, all as long.
LEMMA LeavesPaths ==
  ASSUME NEW p \in Path, NEW v, v.tag = "dict" => DOMAIN v.dict \subseteq Keys
  PROVE  \/ Leaves(p, v) = {p}
         \/ /\ Leaves(p, v) \subseteq Path
            /\ \A l \in Leaves(p, v) : \E key \in Keys : l = At(p, key)
  BY AtPath DEF Leaves, At

\* Setting a path that leads through no value leaves a tree.
LEMMA SetDottedTree ==
  ASSUME NEW tree \in SUBSET Path, IsTree(tree), NEW p \in Path,
         \A q \in tree : ~IsAbove(q, p),
         NEW v, v.tag = "dict" => DOMAIN v.dict \subseteq Keys
  PROVE  SetDotted(tree, p, v) \subseteq Path /\ IsTree(SetDotted(tree, p, v))
<1> DEFINE rest == {q \in tree : q # p /\ ~IsAbove(p, q)}
<1>1. Leaves(p, v) \subseteq Path
  BY LeavesPaths
<1>2. ASSUME NEW q \in rest, NEW l \in Leaves(p, v)
      PROVE  ~IsAbove(q, l)
  BY <1>2, LeavesPaths, AboveAt
<1>3. ASSUME NEW q \in rest, NEW l \in Leaves(p, v)
      PROVE  ~IsAbove(l, q)
  BY <1>3, LeavesPaths, AtAbove
<1>4. ASSUME NEW k \in Leaves(p, v), NEW l \in Leaves(p, v)
      PROVE  ~IsAbove(k, l)
  <2>1. CASE Leaves(p, v) = {p}
    BY <1>4, <2>1 DEF IsAbove, Path
  <2>2. CASE \A m \in Leaves(p, v) : \E key \in Keys : m = At(p, key)
    <3>1. Len(k) = Len(p) + 1 /\ Len(l) = Len(p) + 1
      BY <1>4, <2>2, AtPath
    <3> QED
      BY <3>1 DEF IsAbove, Path
  <2> QED
    BY <2>1, <2>2, LeavesPaths
<1> QED
  BY <1>1, <1>2, <1>3, <1>4 DEF SetDotted, IsTree

EventPaths ==
  /\ fields \in FieldMaps
  /\ resolved \subseteq PathFields(fields)
  /\ pc = "map" => record \in Records(fields)
  /\ event \subseteq Path /\ IsTree(event)
  /\ \A e \in batch : e \subseteq Path /\ IsTree(e)

LEMMA EventPathsInit == Init => EventPaths
  BY DEF Init, EventPaths, IsTree

LEMMA EventPathsStep == EventPaths /\ [Next]_vars => EventPaths'
<1> SUFFICES ASSUME EventPaths, [Next]_vars
             PROVE  EventPaths'
  OBVIOUS
<1> USE DEF EventPaths
<1>1. ASSUME NEW r \in Records(fields), DropRecord(r) \/ PoisonRecord(r)
      PROVE  EventPaths'
  BY <1>1 DEF DropRecord, PoisonRecord, vars, mapping, upload
<1>2. ASSUME NEW r \in Records(fields), MapRecord(r)
      PROVE  EventPaths'
  <2>1. Shell \subseteq Path /\ IsTree(Shell)
    BY PayloadAssumption, NamesArePaths
  <2> QED
    BY <1>2, <2>1 DEF MapRecord
<1>3. CASE SetField
  <2>1. PICK i \in resolved :
          IF \E q \in event : IsAbove(q, fields[i].name)
          THEN pc' = "poison" /\ UNCHANGED event
          ELSE /\ event' = SetDotted(event, fields[i].name, Value(record, i))
               /\ UNCHANGED pc
    BY <1>3 DEF SetField
  <2>2. /\ pc = "map" /\ resolved' \subseteq resolved
        /\ UNCHANGED <<fields, record, batch>>
    BY <1>3 DEF SetField
  <2>3. fields[i].name \in Path
    BY PayloadAssumption, NamesArePaths
  <2>4. LET value == Value(record, i)
        IN  value.tag = "dict" => DOMAIN value.dict \subseteq Keys
    BY <2>2, PayloadAssumption DEF Value
  <2>5. event' \subseteq Path /\ IsTree(event')
    BY <2>1, <2>3, <2>4, SetDottedTree
  <2> QED
    BY <2>1, <2>2, <2>5
<1>4. CASE Emit
  BY <1>4 DEF Emit, Forget, IsTree
<1>5. CASE ToCsv \/ (\E p \in todo : SetNested(p)) \/ Built
  BY <1>5 DEF ToCsv, SetNested, Built, mapping
<1>6. CASE StartOver
  BY <1>6 DEF StartOver, Forget, IsTree
<1>7. CASE UNCHANGED vars
  BY <1>7 DEF vars, mapping
<1> QED
  BY <1>1, <1>2, <1>3, <1>4, <1>5, <1>6, <1>7 DEF Next

\* Whatever the field map, the order of its fields and the record, what map_to_event
\* builds is a tree, and so is every event that is handed on.
THEOREM EventsAreTrees == Spec => [](IsTree(event) /\ \A e \in batch : IsTree(e))
<1>1. EventPaths => IsTree(event) /\ \A e \in batch : IsTree(e)
  BY DEF EventPaths
<1> QED
  BY <1>1, EventPathsInit, EventPathsStep, PTL DEF Spec

-----------------------------------------------------------------------------
(* The mapping document. *)

\* The order of the columns has no two that are each before the other.
LEMMA BeforeAsymmetric ==
  ASSUME NEW p \in Path, NEW q \in Path, Before(p, q)
  PROVE  ~Before(q, p)
<1> SUFFICES ASSUME Before(q, p)
             PROVE  FALSE
  OBVIOUS
<1>1. /\ Len(p) \in Nat /\ Len(q) \in Nat
      /\ \A i \in 1..Len(p) : p[i] \in Keys
      /\ \A i \in 1..Len(q) : q[i] \in Keys
      /\ \A key \in Keys : Rank[key] \in Nat
  BY ElementOfSeq, PayloadAssumption DEF Path
<1>2. CASE IsAbove(p, q)
  <2>1. Len(p) < Len(q) /\ \A i \in 1..Len(p) : p[i] = q[i]
    BY <1>2 DEF IsAbove
  <2>2. ~IsAbove(q, p)
    BY <1>1, <2>1 DEF IsAbove
  <2>3. PICK i \in 1..Len(q) : i <= Len(p) /\ Rank[q[i]] < Rank[p[i]]
    BY <2>2 DEF Before
  <2> QED
    BY <1>1, <2>1, <2>3
<1>3. CASE ~IsAbove(p, q)
  <2>1. PICK i \in 1..Len(p) : /\ i <= Len(q) /\ Rank[p[i]] < Rank[q[i]]
                               /\ \A j \in 1..(i - 1) : p[j] = q[j]
    BY <1>3 DEF Before
  <2>2. CASE IsAbove(q, p)
    <3>1. q[i] = p[i]
      BY <1>1, <2>1, <2>2 DEF IsAbove
    <3> QED
      BY <1>1, <2>1, <3>1
  <2>3. CASE ~IsAbove(q, p)
    <3>1. PICK j \in 1..Len(q) : /\ j <= Len(p) /\ Rank[q[j]] < Rank[p[j]]
                                 /\ \A m \in 1..(j - 1) : q[m] = p[m]
      BY <2>3 DEF Before
    <3>2. CASE i < j
      <4>1. q[i] = p[i]
        BY <1>1, <2>1, <3>1, <3>2
      <4> QED
        BY <1>1, <2>1, <4>1
    <3>3. CASE j < i
      <4>1. p[j] = q[j]
        BY <1>1, <2>1, <3>1, <3>3
      <4> QED
        BY <1>1, <3>1, <4>1
    <3>4. CASE i = j
      BY <1>1, <2>1, <3>1, <3>4
    <3> QED
      BY <1>1, <2>1, <3>1, <3>2, <3>3, <3>4
  <2> QED
    BY <2>2, <2>3
<1> QED
  BY <1>2, <1>3

\* The columns that are in the document.
Entered == columns \ todo
Leaf(q) == At(q, Column)

\* What has been entered comes before what has not, and is a tree, and the document
\* has a leaf for each of its columns.
DocInStep ==
  /\ columns \subseteq Path /\ todo \subseteq columns
  /\ pc \in {"doc", "done"} =>
       /\ IsTree(Entered)
       /\ doc = {Leaf(q) : q \in Entered}
       /\ \A q \in Entered, p \in todo : Before(q, p)
  /\ pc = "done" => todo = {}
  /\ RefusedForConflictsOnly

\* A column that collides with the document is below one that has been entered, or
\* that one has a key "column".
LEMMA CollisionHasReason ==
  ASSUME DocInStep, pc = "doc", NEW p \in todo, Collides(p)
  PROVE  ~IsTree(columns) \/ \E q \in columns : \E i \in 1..Len(q) : q[i] = Column
<1>1. PICK n \in 1..(Len(p) - 1) : AtOrBelow(At(SubSeq(p, 1, n), Column), doc) # {}
  BY DEF Collides
<1>2. p \in Path /\ p \in columns /\ Len(p) \in Nat /\ n \in 1..Len(p)
  BY DEF DocInStep, Path
<1> DEFINE above == SubSeq(p, 1, n)
<1>3. /\ above \in Path /\ Len(above) = n
      /\ \A i \in 1..n : above[i] = p[i]
  BY <1>2, PrefixPath
<1> HIDE DEF above
<1>4. IsAbove(above, p)
  BY <1>1, <1>2, <1>3 DEF IsAbove
<1>5. PICK q \in Entered : Leaf(q) = At(above, Column) \/ IsAbove(At(above, Column), Leaf(q))
  BY <1>1 DEF above, AtOrBelow, DocInStep
<1>6. q \in Path /\ q \in columns /\ Len(q) \in Nat
  BY DEF Entered, DocInStep, Path
<1>7. Column \in Keys
  BY PayloadAssumption
<1>8. /\ Len(At(above, Column)) = n + 1
      /\ \A i \in 1..n : At(above, Column)[i] = above[i]
      /\ At(above, Column)[n + 1] = Column
  BY <1>2, <1>3, <1>7, AtPath
<1>9. /\ Len(Leaf(q)) = Len(q) + 1
      /\ \A i \in 1..Len(q) : Leaf(q)[i] = q[i]
  BY <1>6, <1>7, AtPath DEF Leaf
<1>10. CASE Leaf(q) = At(above, Column)
  <2>1. Len(q) = n
    BY <1>2, <1>6, <1>8, <1>9, <1>10
  <2>2. \A i \in 1..n : q[i] = above[i]
    BY <1>8, <1>9, <1>10, <2>1
  <2>3. q = above
    BY <1>3, <1>6, <2>1, <2>2, SamePath
  <2> QED
    BY <1>2, <1>4, <1>6, <2>3 DEF IsTree
<1>11. CASE IsAbove(At(above, Column), Leaf(q))
  <2>1. n + 1 \in 1..Len(q) /\ q[n + 1] = Column
    BY <1>2, <1>6, <1>8, <1>9, <1>11 DEF IsAbove
  <2> QED
    BY <1>6, <2>1
<1> QED
  BY <1>5, <1>10, <1>11

\* The next column in order, unless it collides, keeps what is entered a tree, and
\* replaces nothing.
LEMMA EnteringKeepsTree ==
  ASSUME DocInStep, pc = "doc", NEW p \in todo, IsNext(p), ~Collides(p)
  PROVE  /\ \A q \in Entered : ~IsAbove(q, p) /\ ~IsAbove(p, q) /\ q # p
         /\ AtOrBelow(p, doc) = {}
<1>1. p \in Path /\ Entered \subseteq Path /\ Column \in Keys
  BY PayloadAssumption DEF Entered, DocInStep
<1>2. ASSUME NEW q \in Entered
      PROVE  ~IsAbove(q, p)
  <2> SUFFICES ASSUME IsAbove(q, p)
               PROVE  FALSE
    OBVIOUS
  <2>1. q \in Path /\ Len(q) \in Nat \ {0} /\ Len(p) \in Nat
    BY <1>1 DEF Path
  <2>2. Len(q) \in 1..(Len(p) - 1) /\ Len(q) \in 1..Len(p)
    BY <2>1 DEF IsAbove
  <2>3. \A i \in 1..Len(q) : q[i] = p[i]
    BY DEF IsAbove
  <2>4. /\ SubSeq(p, 1, Len(q)) \in Path /\ Len(SubSeq(p, 1, Len(q))) = Len(q)
        /\ \A i \in 1..Len(q) : SubSeq(p, 1, Len(q))[i] = p[i]
    BY <1>1, <2>2, PrefixPath
  <2>5. SubSeq(p, 1, Len(q)) = q
    BY <2>1, <2>3, <2>4, SamePath
  <2>6. Leaf(q) \in doc
    BY DEF DocInStep
  <2>7. AtOrBelow(At(q, Column), doc) # {}
    BY <2>6 DEF AtOrBelow, Leaf
  <2> QED
    BY <2>2, <2>5, <2>7 DEF Collides
<1>3. ASSUME NEW q \in Entered
      PROVE  ~IsAbove(p, q)
  <2>1. Before(q, p)
    BY DEF DocInStep
  <2> QED
    BY <1>1, <2>1, BeforeAsymmetric DEF Before
<1>4. ASSUME NEW q \in Entered
      PROVE  q # p
  BY DEF Entered
<1>5. ASSUME NEW q \in Entered
      PROVE  Leaf(q) # p /\ ~IsAbove(p, Leaf(q))
  <2>1. q \in Path
    BY <1>1
  <2>2. Leaf(q) # p
    BY <1>1, <1>2, <2>1, AtAbove DEF Leaf
  <2>3. ~IsAbove(p, Leaf(q))
    BY <1>1, <1>3, <1>4, <2>1, AboveAt DEF Leaf
  <2> QED
    BY <2>2, <2>3
<1>6. AtOrBelow(p, doc) = {}
  BY <1>5 DEF AtOrBelow, DocInStep
<1> QED
  BY <1>2, <1>3, <1>4, <1>6

LEMMA DocInStepInit == Init => DocInStep
  BY DEF Init, DocInStep, RefusedForConflictsOnly

LEMMA DocInStepStep == EventPaths /\ DocInStep /\ [Next]_vars => DocInStep'
<1> SUFFICES ASSUME EventPaths, DocInStep, [Next]_vars
             PROVE  DocInStep'
  OBVIOUS
<1>1. ASSUME NEW r \in Records(fields), DropRecord(r) \/ PoisonRecord(r) \/ MapRecord(r)
      PROVE  DocInStep'
  BY <1>1 DEF DropRecord, PoisonRecord, MapRecord, vars, mapping, upload, DocInStep,
              Entered, RefusedForConflictsOnly
<1>2. CASE SetField \/ Emit
  BY <1>2 DEF SetField, Emit, upload, DocInStep, RefusedForConflictsOnly
<1>3. CASE ToCsv
  <2>1. pc' = "doc" /\ columns' = UNION batch /\ todo' = UNION batch /\ doc' = {}
    BY <1>3 DEF ToCsv
  <2>2. UNION batch \subseteq Path
    BY DEF EventPaths
  <2> QED
    BY <2>1, <2>2 DEF DocInStep, Entered, IsTree, RefusedForConflictsOnly
<1>4. ASSUME NEW p \in todo, SetNested(p)
      PROVE  DocInStep'
  <2>1. pc = "doc" /\ IsNext(p) /\ columns' = columns
    BY <1>4 DEF SetNested
  <2>2. CASE Collides(p)
    <3>1. pc' = "refused" /\ todo' = todo /\ doc' = doc
      BY <1>4, <2>2 DEF SetNested
    <3> QED
      BY <2>1, <2>2, <3>1, CollisionHasReason DEF DocInStep, RefusedForConflictsOnly
  <2>3. CASE ~Collides(p)
    <3>1. /\ pc' = pc /\ todo' = todo \ {p}
          /\ doc' = (doc \ AtOrBelow(p, doc)) \cup {At(p, Column)}
      BY <1>4, <2>3 DEF SetNested
    <3>2. Entered' = Entered \cup {p}
      BY <2>1, <3>1 DEF Entered, DocInStep
    <3>3. /\ \A q \in Entered : ~IsAbove(q, p) /\ ~IsAbove(p, q) /\ q # p
          /\ AtOrBelow(p, doc) = {}
      BY <2>1, <2>3, EnteringKeepsTree
    <3>4. doc' = {Leaf(q) : q \in Entered'}
      BY <2>1, <3>1, <3>2, <3>3 DEF DocInStep, Leaf
    <3>5. ~IsAbove(p, p)
      BY DEF IsAbove, DocInStep, Path
    <3>6. IsTree(Entered')
      BY <2>1, <3>2, <3>3, <3>5 DEF IsTree, DocInStep
    <3>7. \A q \in Entered', s \in todo' : Before(q, s)
      BY <2>1, <3>1, <3>2 DEF IsNext, DocInStep
    <3> QED
      BY <2>1, <3>1, <3>4, <3>6, <3>7 DEF DocInStep, RefusedForConflictsOnly
  <2> QED
    BY <2>2, <2>3
<1>5. CASE Built
  BY <1>5 DEF Built, upload, DocInStep, Entered, RefusedForConflictsOnly
<1>6. CASE StartOver
  BY <1>6 DEF StartOver, DocInStep, RefusedForConflictsOnly
<1>7. CASE UNCHANGED vars
  BY <1>7 DEF vars, upload, DocInStep, Entered, RefusedForConflictsOnly
<1> QED
  BY <1>1, <1>2, <1>3, <1>4, <1>5, <1>6, <1>7 DEF Next

LEMMA DocInvariant == Spec => [](EventPaths /\ DocInStep)
  BY EventPathsInit, EventPathsStep, DocInStepInit, DocInStepStep, PTL DEF Spec

\* A document that is uploaded has a place for every column of the CSV and for nothing
\* else, and no column is a parent of another, whatever the batch is made of.
THEOREM DocumentsMatchColumns == Spec => []DocMatchesColumns
<1>1. DocInStep => DocMatchesColumns
  BY DEF DocInStep, DocMatchesColumns, Entered, Leaf
<1> QED
  BY <1>1, DocInvariant, PTL

\* A batch is refused only if two of its columns are in each other's way, or one uses
\* the key "column".
THEOREM RefusalsAreConflicts == Spec => []RefusedForConflictsOnly
<1>1. DocInStep => RefusedForConflictsOnly
  BY DEF DocInStep
<1> QED
  BY <1>1, DocInvariant, PTL

-----------------------------------------------------------------------------
(* Ordinary records never raise. *)

\* A transform trips over nothing but the values that are known for it.
LEMMA TransformRaises ==
  ASSUME NEW name \in Transforms, NEW v, v # Raised, Transform(name, v) = Raised
  PROVE  Awkward(name, v)
<1> USE DEF Raised, Null, Success, Failure, Unknown, Str
<1>1. name # Identity
  BY DEF Transform, Identity
<1>2. name # "error_code_presence_to_outcome"
  BY DEF Transform, Identity, ErrorCodePresence
<1>3. name # "access_key_to_credential_type"
  BY DEF Transform, Identity, AccessKey
<1>4. name # "sailpoint_result_to_outcome"
  BY DEF Transform, Identity, SailpointResult
<1>5. name # "parse_iso8601"
  BY DEF Transform, Identity, ParseIso8601, Datetime
<1>6. name # "bool_to_outcome"
  BY DEF Transform, Identity, BoolToOutcome
<1>7. name # "graph_signin_error_code_to_outcome"
  BY DEF Transform, Identity, GraphSignin
<1>8. name # "azure_status_to_outcome"
  BY DEF Transform, Identity, AzureStatus
<1>9. name # "o365_status_to_outcome"
  BY DEF Transform, Identity, O365Status
<1>10. CASE name = "parse_salesforce_timestamp"
  <2>1. SalesforceTimestamp(v) = Raised
    BY <1>10 DEF Transform, Identity
  <2>2. v = Str("compact time, odd fraction")
    BY <2>1 DEF SalesforceTimestamp, Datetime
  <2> QED
    BY <1>10, <2>2 DEF Awkward
<1>11. name # "gcp_status_code_to_outcome"
  BY DEF Transform, Identity, GcpStatus
<1>12. CASE name \in {"unix_nanos_to_datetime", "micros_to_datetime"}
  <2>1. FromTimestamp(v) = Raised
    BY <1>12 DEF Transform, Identity
  <2>2. IsIntLike(v) /\ AsInt(v) >= Beyond
    BY <2>1 DEF FromTimestamp, Datetime
  <2> QED
    BY <1>12, <2>2 DEF Awkward
<1>13. CASE name = "otel_status_code_to_outcome"
  <2>1. OtelStatus(v) = Raised
    BY <1>13 DEF Transform, Identity
  <2>2. v.tag \in {"dict", "list"}
    BY <2>1 DEF OtelStatus
  <2> QED
    BY <1>13, <2>2 DEF Awkward
<1> QED
  BY <1>1, <1>2, <1>3, <1>4, <1>5, <1>6, <1>7, <1>8, <1>9, <1>10, <1>11, <1>12, <1>13
     DEF Transforms, TimeParsers, OutcomeTransforms

\* What a parser of times returns is one, or nothing.
LEMMA TimeOrNothing ==
  ASSUME NEW name \in TimeParsers, NEW v
  PROVE  Transform(name, v) \in {Null, Raised} \/ Transform(name, v).tag = "datetime"
<1>1. CASE name = "parse_iso8601"
  BY <1>1 DEF Transform, Identity, ParseIso8601, Datetime
<1>2. CASE name = "parse_salesforce_timestamp"
  <2>1. Transform(name, v) = SalesforceTimestamp(v)
    BY <1>2 DEF Transform, Identity
  <2>2. \A says : Str(says).tag # "datetime"
    BY DEF Str
  <2>3. \/ v.tag = "datetime" /\ SalesforceTimestamp(v) = v
        \/ SalesforceTimestamp(v) \in {Datetime(TRUE), Raised, Null}
    BY <2>2 DEF SalesforceTimestamp
  <2> QED
    BY <2>1, <2>3 DEF Datetime
<1>3. CASE name \in {"unix_nanos_to_datetime", "micros_to_datetime"}
  BY <1>3 DEF Transform, Identity, FromTimestamp, Datetime
<1> QED
  BY <1>1, <1>2, <1>3 DEF TimeParsers

\* What a transform of outcomes returns is one that new_event_shell takes, or nothing.
LEMMA OutcomeOrNothing ==
  ASSUME NEW name \in OutcomeTransforms, NEW v
  PROVE  Transform(name, v) \in Outcomes \cup {Null, Raised}
<1>1. {Success, Failure, Unknown} \subseteq Outcomes
  BY DEF Outcomes, Success, Failure, Unknown
<1>2. CASE name = "error_code_presence_to_outcome"
  BY <1>1, <1>2 DEF Transform, Identity, ErrorCodePresence
<1>3. CASE name = "sailpoint_result_to_outcome"
  BY <1>1, <1>3 DEF Transform, Identity, SailpointResult
<1>4. CASE name = "bool_to_outcome"
  BY <1>1, <1>4 DEF Transform, Identity, BoolToOutcome
<1>5. CASE name = "graph_signin_error_code_to_outcome"
  BY <1>1, <1>5 DEF Transform, Identity, GraphSignin
<1>6. CASE name = "azure_status_to_outcome"
  BY <1>1, <1>6 DEF Transform, Identity, AzureStatus
<1>7. CASE name = "o365_status_to_outcome"
  BY <1>1, <1>7 DEF Transform, Identity, O365Status
<1>8. CASE name = "gcp_status_code_to_outcome"
  BY <1>1, <1>8 DEF Transform, Identity, GcpStatus
<1>9. CASE name = "otel_status_code_to_outcome"
  BY <1>1, <1>9 DEF Transform, Identity, OtelStatus
<1> QED
  BY <1>2, <1>3, <1>4, <1>5, <1>6, <1>7, <1>8, <1>9 DEF OutcomeTransforms

\* No value of the record is one that the transform it is given to is known to trip
\* over.
Ordinary(r) ==
  \A i \in DOMAIN fields : ~Awkward(fields[i].spec.transform, Raw(r, fields[i].spec))

\* Mapping an ordinary record with a well-formed field map does not raise.
LEMMA OrdinaryIsMapped ==
  ASSUME fields \in FieldMaps, WellFormed(fields), NEW r \in Records(fields), Ordinary(r)
  PROVE  Mapped(r) # "raises" /\ OutcomeOf(r) \in Outcomes
<1> DEFINE result(i) == Transform(fields[i].spec.transform, Raw(r, fields[i].spec))
<1>1. ASSUME NEW i \in DOMAIN fields
      PROVE  /\ Raw(r, fields[i].spec) # Raised
             /\ result(i) # Raised
             /\ fields[i].spec.default # Raised
  <2>1. HasSource(fields[i].spec) /\ fields[i].spec.transform \in Transforms
    BY DEF WellFormed
  <2>2. Raw(r, fields[i].spec) # Raised /\ fields[i].spec.default # Raised
    BY <2>1, PayloadAssumption
  <2>3. ~Awkward(fields[i].spec.transform, Raw(r, fields[i].spec))
    BY DEF Ordinary
  <2> QED
    BY <2>1, <2>2, <2>3, TransformRaises
<1>2. ASSUME NEW i \in DOMAIN fields
      PROVE  /\ Value(r, i) = IF result(i) = Null /\ fields[i].spec.default # Absent
                              THEN fields[i].spec.default ELSE result(i)
             /\ Value(r, i) # Raised
  BY <1>1 DEF Value, FieldValue
<1> HIDE DEF result
<1>3. Named(r, EventTime) = Null \/ Named(r, EventTime).tag = "datetime"
  <2>1. CASE \E i \in DOMAIN fields : fields[i].name = EventTime
    <3> DEFINE at == CHOOSE i \in DOMAIN fields : fields[i].name = EventTime
    <3>1. at \in DOMAIN fields /\ fields[at].name = EventTime
      BY <2>1
    <3>2. Named(r, EventTime) = Value(r, at)
      BY <2>1 DEF Named
    <3> HIDE DEF at
    <3>3. fields[at].spec.transform \in TimeParsers /\ fields[at].spec.default = Absent
      BY <3>1 DEF WellFormed
    <3>4. Value(r, at) = result(at)
      BY <1>2, <3>1, <3>3
    <3>5. result(at) \in {Null, Raised} \/ result(at).tag = "datetime"
      BY <3>3, TimeOrNothing DEF result
    <3> QED
      BY <1>1, <3>1, <3>2, <3>4, <3>5
  <2>2. CASE ~\E i \in DOMAIN fields : fields[i].name = EventTime
    BY <2>2 DEF Named
  <2> QED
    BY <2>1, <2>2
<1>4. Mapped(r) # "raises"
  <2>1. ~\E i \in Stops(r) : Value(r, i) = Raised /\ \A j \in Stops(r) : i <= j
    BY <1>2 DEF Stops
  <2>2. CASE Stops(r) = {}
    <3>1. Mapped(r) = IF Null \in {Named(r, NativeActorId), Named(r, EventTime)}
                      THEN "dropped"
                      ELSE IF Named(r, EventTime).tag # "datetime" THEN "raises" ELSE "mapped"
      BY <2>1, <2>2 DEF Mapped
    <3> QED
      BY <1>3, <3>1
  <2>3. CASE Stops(r) # {}
    <3>1. Mapped(r) = "dropped"
      BY <2>1, <2>3 DEF Mapped
    <3> QED
      BY <3>1
  <2> QED
    BY <2>2, <2>3
<1>5. Named(r, Outcome) \in Outcomes \cup {Null}
  <2>1. CASE \E i \in DOMAIN fields : fields[i].name = Outcome
    <3> DEFINE at == CHOOSE i \in DOMAIN fields : fields[i].name = Outcome
    <3>1. at \in DOMAIN fields /\ fields[at].name = Outcome
      BY <2>1
    <3>2. Named(r, Outcome) = Value(r, at)
      BY <2>1 DEF Named
    <3> HIDE DEF at
    <3>3. SaysOutcome(fields[at].spec)
      BY <3>1 DEF WellFormed
    <3>4. result(at) \in Outcomes \cup {Null, Raised}
      <4>1. CASE fields[at].spec.literal # Absent
        <5>1. fields[at].spec.transform = Identity /\ fields[at].spec.literal \in Outcomes
          BY <3>3, <4>1 DEF SaysOutcome
        <5>2. Raw(r, fields[at].spec) = fields[at].spec.literal
          BY <4>1 DEF Raw
        <5>3. \A v : Transform(Identity, v) = v
          BY DEF Transform, Identity
        <5> QED
          BY <5>1, <5>2, <5>3 DEF result
      <4>2. CASE fields[at].spec.literal = Absent
        <5>1. fields[at].spec.transform \in OutcomeTransforms
          BY <3>3, <4>2 DEF SaysOutcome
        <5> QED
          BY <5>1, OutcomeOrNothing DEF result
      <4> QED
        BY <4>1, <4>2
    <3>5. fields[at].spec.default \in Outcomes \cup {Absent}
      BY <3>3 DEF SaysOutcome
    <3> QED
      BY <1>1, <1>2, <3>1, <3>2, <3>4, <3>5
  <2>2. CASE ~\E i \in DOMAIN fields : fields[i].name = Outcome
    BY <2>2 DEF Named
  <2> QED
    BY <2>1, <2>2
<1>6. OutcomeOf(r) \in Outcomes
  <2>1. Unknown \in Outcomes
    BY DEF Unknown, Outcomes
  <2>2. ~Truthy(Null)
    BY DEF Truthy, Null
  <2> QED
    BY <1>5, <2>1, <2>2 DEF OutcomeOf
<1> QED
  BY <1>4, <1>6

\* What is in an event is in every event, or was put there by a field, at the field's
\* path or one key below it.
Origin(q) ==
  \/ q \in Shell
  \/ \E i \in PathFields(fields) :
       q = fields[i].name \/ \E key \in Keys : q = At(fields[i].name, key)

Origins == \A q \in event : Origin(q)

LEMMA OriginsStep == EventPaths /\ Origins /\ [Next]_vars => Origins'
<1> SUFFICES ASSUME EventPaths, Origins, [Next]_vars
             PROVE  Origins'
  OBVIOUS
<1>1. UNCHANGED fields
  BY DEF Next, DropRecord, PoisonRecord, MapRecord, SetField, Emit, ToCsv, SetNested, Built,
         StartOver, vars
<1>2. \A q : Origin(q)' = Origin(q)
  BY <1>1 DEF Origin, PathFields
<1>3. CASE event' \subseteq event \/ event' = Shell
  BY <1>2, <1>3 DEF Origins, Origin
<1>4. CASE SetField
  <2>1. PICK i \in resolved :
          \/ UNCHANGED event
          \/ event' = SetDotted(event, fields[i].name, Value(record, i))
    BY <1>4 DEF SetField
  <2>2. i \in PathFields(fields) /\ pc = "map"
    BY <1>4 DEF EventPaths, SetField
  <2> DEFINE value == Value(record, i)
  <2>3. value.tag = "dict" => DOMAIN value.dict \subseteq Keys
    BY <2>2, PayloadAssumption DEF EventPaths, Value
  <2>4. \A q \in Leaves(fields[i].name, value) : Origin(q)
    BY <2>2, <2>3 DEF Leaves, At, Origin
  <2> QED
    BY <1>2, <2>1, <2>4 DEF SetDotted, Origins
<1>5. CASE ~SetField
  <2>1. event' \subseteq event \/ event' = Shell
    BY <1>5 DEF Next, DropRecord, PoisonRecord, MapRecord, Emit, Forget, ToCsv, SetNested,
                Built, StartOver, vars, mapping
  <2> QED
    BY <1>3, <2>1
<1> QED
  BY <1>4, <1>5

\* With a well-formed field map no field's path leads through a value.
LEMMA NothingInTheWay ==
  ASSUME EventPaths, Origins, WellFormed(fields), NEW i \in PathFields(fields),
         NEW q \in event
  PROVE  ~IsAbove(q, fields[i].name)
<1> DEFINE named == {fields[j].name : j \in PathFields(fields)}
<1>1. IsTree(Shell \cup named)
  BY DEF WellFormed
<1>2. named \subseteq Path /\ fields[i].name \in named
  BY PayloadAssumption, NamesArePaths DEF EventPaths
<1>3. CASE q \in Shell \cup named
  BY <1>1, <1>2, <1>3 DEF IsTree
<1>4. CASE \E p \in named, key \in Keys : q = At(p, key)
  <2>1. PICK p \in named, key \in Keys : q = At(p, key)
    BY <1>4
  <2>2. ~IsAbove(p, fields[i].name)
    BY <1>1, <1>2 DEF IsTree
  <2> QED
    BY <1>2, <2>1, <2>2, AtAbove
<1> QED
  BY <1>3, <1>4 DEF Origins, Origin

LEMMA OrdinaryStep ==
  ASSUME EventPaths, Origins, OrdinaryRecordsNeverRaise, [Next]_vars
  PROVE  OrdinaryRecordsNeverRaise'
<1>1. UNCHANGED fields
  BY DEF Next, DropRecord, PoisonRecord, MapRecord, SetField, Emit, ToCsv, SetNested, Built,
         StartOver, vars
<1>2. ASSUME NEW r \in Records(fields), PoisonRecord(r)
      PROVE  OrdinaryRecordsNeverRaise'
  <2>1. record' = r /\ (Mapped(r) = "raises" \/ OutcomeOf(r) \notin Outcomes)
    BY <1>2 DEF PoisonRecord
  <2>2. ~WellFormed(fields) \/ ~Ordinary(r)
    BY <2>1, OrdinaryIsMapped DEF EventPaths
  <2> QED
    BY <1>1, <2>1, <2>2 DEF Ordinary, OrdinaryRecordsNeverRaise
<1>3. CASE SetField
  <2>1. ~WellFormed(fields) \/ pc' = pc
    BY <1>3, NothingInTheWay DEF SetField, EventPaths
  <2>2. pc = "map"
    BY <1>3 DEF SetField
  <2> QED
    BY <1>1, <2>1, <2>2 DEF OrdinaryRecordsNeverRaise
<1>4. CASE ~SetField /\ ~\E r \in Records(fields) : PoisonRecord(r)
  <2>1. pc' = "poison" => UNCHANGED <<pc, record>>
    BY <1>4 DEF Next, DropRecord, MapRecord, Emit, ToCsv, SetNested, Built, StartOver, vars,
                mapping
  <2> QED
    BY <1>1, <2>1 DEF OrdinaryRecordsNeverRaise
<1> QED
  BY <1>2, <1>3, <1>4

\* A record stops its collector for good only if the field map is at fault or a value is
\* one of those that a transform is known to trip over.
THEOREM OrdinaryRecordsPass == Spec => []OrdinaryRecordsNeverRaise
<1>1. Init => Origins /\ OrdinaryRecordsNeverRaise
  BY DEF Init, Origins, OrdinaryRecordsNeverRaise
<1> QED
  BY <1>1, OriginsStep, OrdinaryStep, DocInvariant, PTL DEF Spec

-----------------------------------------------------------------------------
(* Types. *)

\* A record is known exactly while it is mapped or has raised; a record that is being
\* mapped has a place left in the batch.
StateTypes ==
  /\ pc \in {"idle", "map", "doc", "done", "refused", "poison"}
  /\ record # Null <=> pc \in {"map", "poison"}
  /\ outcome \in Outcomes \cup {Null}
  /\ IsFiniteSet(batch) /\ Cardinality(batch) <= MaxBatch
  /\ pc = "map" => Cardinality(batch) < MaxBatch

LEMMA StateTypesInit == Init => StateTypes
  BY PayloadAssumption, FS_EmptySet DEF Init, StateTypes

LEMMA StateTypesStep == EventPaths /\ StateTypes /\ [Next]_vars => StateTypes'
<1> SUFFICES ASSUME EventPaths, StateTypes, [Next]_vars
             PROVE  StateTypes'
  OBVIOUS
<1> USE DEF StateTypes
<1>1. /\ IsFiniteSet({}) /\ Cardinality({}) = 0 /\ MaxBatch \in Nat
      /\ \A r \in Records(fields) : r # Null
  BY PayloadAssumption, FS_EmptySet DEF EventPaths, Null
<1>2. ASSUME NEW r \in Records(fields), DropRecord(r) \/ PoisonRecord(r)
      PROVE  StateTypes'
  BY <1>1, <1>2 DEF DropRecord, PoisonRecord, vars, mapping
<1>3. ASSUME NEW r \in Records(fields), MapRecord(r)
      PROVE  StateTypes'
  BY <1>1, <1>3 DEF MapRecord
<1>4. CASE SetField
  BY <1>4 DEF SetField
<1>5. CASE Emit
  <2>1. /\ pc = "map" /\ pc' = "idle" /\ batch' = batch \cup {event}
        /\ record' = Null /\ outcome' = Null
    BY <1>5 DEF Emit, Forget
  <2>2. /\ IsFiniteSet(batch')
        /\ Cardinality(batch') = Cardinality(batch)
             \/ Cardinality(batch') = Cardinality(batch) + 1
    BY <2>1, FS_AddElement
  <2>3. Cardinality(batch) \in Nat
    BY FS_CardinalityType
  <2> QED
    BY <1>1, <2>1, <2>2, <2>3
<1>6. CASE ToCsv \/ (\E p \in todo : SetNested(p)) \/ Built
  BY <1>6 DEF ToCsv, SetNested, Built, mapping
<1>7. CASE StartOver
  BY <1>1, <1>7 DEF StartOver, Forget
<1>8. CASE UNCHANGED vars
  BY <1>8 DEF vars, mapping
<1> QED
  BY <1>2, <1>3, <1>4, <1>5, <1>6, <1>7, <1>8 DEF Next

\* The variables keep their types, every event is a tree, and a batch has at most
\* batch_size of them.
THEOREM TypeCorrect == Spec => []TypeOK
<1>1. EventPaths /\ DocInStep /\ StateTypes => TypeOK
  <2> SUFFICES ASSUME EventPaths, DocInStep, StateTypes
               PROVE  TypeOK
    OBVIOUS
  <2>1. Path \subseteq Seq(Keys)
    BY DEF Path
  <2> QED
    BY <2>1 DEF EventPaths, DocInStep, StateTypes, TypeOK
<1> QED
  BY <1>1, StateTypesInit, StateTypesStep, DocInvariant, PTL DEF Spec
=============================================================================
