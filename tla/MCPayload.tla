----------------------------- MODULE MCPayload -----------------------------
EXTENDS Payload

Alphabet == [actor |-> 1, column |-> 2, ingest_metadata |-> 3]

\* Something nested in the shell's ingest_metadata.
ShellPaths == {<<"ingest_metadata", "actor">>}

Spec1(source, transform, default, required) ==
  [source |-> source, literal |-> Absent, transform |-> transform, default |-> default,
   required |-> required]
Plain(k) == Spec1(<<<<Key(k)>>>>, Identity, Absent, FALSE)
Literal(v) == [Plain("") EXCEPT !.source = NoSource, !.literal = v]
Field(name, spec) == [name |-> name, spec |-> spec]

\* One or two paths after actor and time: every way in which paths can conflict,
\* those that begin with different keys never do.  One of the two fields may be a
\* dict in some records and not in others.
Required == <<Field(NativeActorId, Literal(Str("someone"))),
              Field(EventTime, Spec1(<<<<Key("at")>>>>, "parse_iso8601", Absent, TRUE))>>
PathMaps ==
  {Required \o <<Field(p, Plain("a"))>> : p \in Paths} \cup
  {Required \o <<Field(pq[1], Plain("a")), Field(pq[2], Plain("b"))>> :
     pq \in {pq \in Paths \X Paths : pq[1] # pq[2] /\ pq[1][1] = pq[2][1]}}
Objects == {Dict([actor |-> Str("someone")]), Dict(<<>>)}
PathRecords ==
  {Dict([k \in ks \cup {"at"} |-> IF k = "a" THEN v ELSE Str("aware time")]) :
     ks \in SUBSET {"a", "b"}, v \in Objects \cup {Str("aware time")}}

\* Every transform, a list of paths, texts that are JSON, indices, defaults, literals,
\* and the mistakes that a field map can contain.
ActorSpecs ==
  {Spec1(<<<<Key("user"), Key("id")>>, <<KeyAt("users", 0)>>>>, Identity, d, TRUE) :
     d \in {Absent, Str("system")}}
TimeSpecs ==
  {Spec1(<<<<Key("at")>>>>, t, Absent, FALSE) : t \in TimeParsers \cup {Identity}}
OutcomeSpecs ==
  {Spec1(<<<<Key("status")>>>>, t, d, FALSE) :
     t \in OutcomeTransforms \cup {Identity, "no such transform"},
     d \in {Absent, Unknown}} \cup
  {Spec1(<<<<Key("status"), ParseJson>>>>, "error_code_presence_to_outcome", Unknown, TRUE),
   Literal(Unknown), Literal(Absent)}
SpecMaps ==
  {<<Field(EventTime, t), Field(NativeActorId, a), Field(Outcome, o)>> :
     t \in TimeSpecs, a \in ActorSpecs, o \in OutcomeSpecs} \cup
  {<<Field(Outcome, o), Field(NativeActorId, a), Field(EventTime, t)>> :
     t \in TimeSpecs, a \in ActorSpecs, o \in OutcomeSpecs}

WithCode == Dict([errorCode |-> Str("denied")])
Statuses == {Null, Bool(TRUE), Bool(FALSE), Number(0), Number(1), Number(2), Str(""), Success, Failure,
             Str("succeeded"), Str("failed"), Str("STATUS_CODE_OK"), Str("other"), WithCode,
             Dict([other |-> Null]), JsonText(WithCode), JsonText(Dict([other |-> Null])),
             List(<<>>)}
Times == {Null, Number(1), JsonText(Number(1)), Number(5), Number(9), Str("aware time"), Str("naive time"),
          Str("compact time"), Str("compact time, odd fraction"), Datetime(FALSE)}
Users == {[user |-> Dict([id |-> Str("someone")])], [user |-> Dict([id |-> Null])],
          [user |-> Str("someone")], [users |-> List(<<Str("someone")>>)]}
Record(u, t, s) ==
  Dict([k \in DOMAIN u \cup {"at", "status"} |->
          IF k = "at" THEN t ELSE IF k = "status" THEN s ELSE u[k]])
SpecRecords ==
  {Record(u, Str("aware time"), s) : u \in Users, s \in Statuses} \cup
  {Record(u, t, s) : u \in Users, t \in Times, s \in {Null, List(<<>>)}}

AllMaps == PathMaps \cup SpecMaps
RecordsFor(map) == IF PathFields(map) # {} THEN PathRecords ELSE SpecRecords
=============================================================================
