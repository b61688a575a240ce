------------------------------ MODULE FieldMap ------------------------------
(***************************************************************************)
(* What one field of a field map makes of a raw record: resolve_path, the  *)
(* transforms and _resolve_field (field_mapping.py), as operators.  A      *)
(* Python value is a record with a tag; of a text all that is kept is what *)
(* the transforms look for in it, or the JSON that it is the text of.      *)
(***************************************************************************)
EXTENDS Naturals, Sequences

CONSTANTS
  Year10000, \* from this number on, a count of nanoseconds or microseconds is of a
             \* year that datetime refuses with the ValueError that the code expects
  Beyond     \* and from this one on, fromtimestamp() overflows

ASSUME BeyondAssumption == Year10000 \in Nat /\ Beyond \in Nat /\ Year10000 <= Beyond

Null == [tag |-> "null"]
Bool(b) == [tag |-> "bool", bool |-> b]
Number(n) == [tag |-> "int", int |-> n]
Str(says) == [tag |-> "str", str |-> says]
JsonText(v) == [tag |-> "json", json |-> v]
Dict(f) == [tag |-> "dict", dict |-> f]
List(s) == [tag |-> "list", list |-> s]
Datetime(aware) == [tag |-> "datetime", aware |-> aware]

Absent == [tag |-> "absent"]   \* no such key in the field's spec
Raised == [tag |-> "raised"]   \* an exception instead of a value

Truthy(v) ==
  CASE v.tag = "null" -> FALSE
    [] v.tag = "bool" -> v.bool
    [] v.tag = "int" -> v.int # 0
    [] v.tag = "str" -> v.str # ""
    [] v.tag = "dict" -> DOMAIN v.dict # {}
    [] v.tag = "list" -> v.list # <<>>
    [] OTHER -> TRUE

-----------------------------------------------------------------------------
\* A segment of a source_path: a key, a key with an index, or "$json".
Key(k) == [segment |-> "key", key |-> k]
KeyAt(k, i) == [segment |-> "index", key |-> k, index |-> i]
ParseJson == [segment |-> "$json"]

HasKey(v, k) == v.tag = "dict" /\ k \in DOMAIN v.dict

Step(v, seg) ==
  CASE seg.segment = "$json" ->
         IF v.tag = "json" THEN v.json ELSE Null
    [] seg.segment = "key" ->
         IF HasKey(v, seg.key) THEN v.dict[seg.key] ELSE Null
    [] seg.segment = "index" ->
         IF /\ HasKey(v, seg.key) /\ v.dict[seg.key].tag = "list"
            /\ seg.index < Len(v.dict[seg.key].list)
         THEN v.dict[seg.key].list[seg.index + 1] ELSE Null

ResolvePath(record, path) ==
  LET at[n \in 0..Len(path)] == IF n = 0 THEN record ELSE Step(at[n - 1], path[n])
  IN  at[Len(path)]

-----------------------------------------------------------------------------
\* The transforms.  Python takes TRUE for 1 and FALSE for 0.
AsInt(v) == CASE v.tag = "bool" -> IF v.bool THEN 1 ELSE 0
              [] v.tag = "int" -> v.int
              [] v.tag = "json" /\ v.json.tag = "int" -> v.json.int
              [] OTHER -> 0
IsIntLike(v) ==
  v.tag \in {"bool", "int"} \/ (v.tag = "json" /\ v.json.tag = "int")

Success == Str("success")
Failure == Str("failure")
Unknown == Str("unknown")

ErrorCodePresence(v) ==
  IF v.tag # "dict" THEN Null
  ELSE IF HasKey(v, "errorCode") /\ Truthy(v.dict["errorCode"]) THEN Failure ELSE Success

AccessKey(v) == IF Truthy(v) THEN Str("api_key") ELSE Null

\* Mutant: the value is handed on to sailpoint_result_to_outcome, a text or not.
SailpointResultUnguarded(v) ==
  CASE v.tag \notin {"str", "json"} -> Raised
    [] v \in {Success, Failure} -> v
    [] OTHER -> Unknown

SailpointResult(v) ==
  CASE v.tag \notin {"str", "json"} -> Null
    [] v \in {Success, Failure} -> v
    [] OTHER -> Unknown

ParseIso8601(v) ==
  CASE v.tag = "datetime" -> v
    [] v = Str("aware time") -> Datetime(TRUE)
    [] v = Str("naive time") -> Datetime(FALSE)
    [] OTHER -> Null

BoolToOutcome(v) ==
  IF v.tag # "bool" THEN Null ELSE IF v.bool THEN Success ELSE Failure

\* Mutant: no errorCode is as good as a zero.
GraphSigninLenient(v) == IF Truthy(v) THEN Failure ELSE Success

GraphSignin(v) == IF v \in {Number(0), Bool(FALSE)} THEN Success ELSE Failure

AzureStatus(v) ==
  CASE v = Str("succeeded") -> Success
    [] v = Str("failed") -> Failure
    [] OTHER -> Null

O365Status(v) ==
  CASE v \in {Success, Str("succeeded")} -> Success
    [] v \in {Failure, Str("failed")} -> Failure
    [] OTHER -> Null

\* int() of a fraction that is no number is not guarded.
SalesforceTimestamp(v) ==
  CASE v.tag = "datetime" -> v
    [] v = Str("compact time") -> Datetime(TRUE)
    [] v = Str("compact time, odd fraction") -> Raised
    [] OTHER -> Null

GcpStatus(v) == IF Truthy(v) THEN Failure ELSE Success

\* unix_nanos_to_datetime and micros_to_datetime.
FromTimestamp(v) ==
  CASE v.tag = "datetime" -> v
    [] IsIntLike(v) /\ AsInt(v) >= Beyond -> Raised
    [] IsIntLike(v) /\ AsInt(v) < Year10000 -> Datetime(TRUE)
    [] OTHER -> Null

\* A dict lookup: what cannot be hashed raises.
OtelStatus(v) ==
  CASE v.tag \in {"dict", "list"} -> Raised
    [] v \in {Number(1), Bool(TRUE), Str("STATUS_CODE_OK")} -> Success
    [] v \in {Number(2), Str("STATUS_CODE_ERROR")} -> Failure
    [] OTHER -> Null

TimeParsers == {"parse_iso8601", "parse_salesforce_timestamp", "unix_nanos_to_datetime",
                "micros_to_datetime"}
OutcomeTransforms ==
  {"error_code_presence_to_outcome", "sailpoint_result_to_outcome", "bool_to_outcome",
   "graph_signin_error_code_to_outcome", "azure_status_to_outcome",
   "o365_status_to_outcome", "gcp_status_code_to_outcome", "otel_status_code_to_outcome"}

Identity == "identity"   \* also stands for no transform

Transform(name, v) ==
  CASE name = Identity -> v
    [] name = "error_code_presence_to_outcome" -> ErrorCodePresence(v)
    [] name = "access_key_to_credential_type" -> AccessKey(v)
    [] name = "sailpoint_result_to_outcome" -> SailpointResult(v)
    [] name = "parse_iso8601" -> ParseIso8601(v)
    [] name = "bool_to_outcome" -> BoolToOutcome(v)
    [] name = "graph_signin_error_code_to_outcome" -> GraphSignin(v)
    [] name = "azure_status_to_outcome" -> AzureStatus(v)
    [] name = "o365_status_to_outcome" -> O365Status(v)
    [] name = "parse_salesforce_timestamp" -> SalesforceTimestamp(v)
    [] name = "gcp_status_code_to_outcome" -> GcpStatus(v)
    [] name \in {"unix_nanos_to_datetime", "micros_to_datetime"} -> FromTimestamp(v)
    [] name = "otel_status_code_to_outcome" -> OtelStatus(v)
    [] OTHER -> Raised

-----------------------------------------------------------------------------
\* A field's spec: source is the sequence of its source_paths, literal and default
\* may be Absent, and required is a Boolean.
NoSource == <<>>

\* The first path that resolves to a value; the transform has no say in it.
Raw(record, spec) ==
  LET found == {i \in DOMAIN spec.source : ResolvePath(record, spec.source[i]) # Null}
  IN  CASE spec.literal # Absent -> spec.literal
        [] spec.literal = Absent /\ spec.source = NoSource -> Raised
        [] OTHER -> IF found = {} THEN Null
                    ELSE ResolvePath(record, spec.source[CHOOSE i \in found :
                                                           \A j \in found : i <= j])

FieldValue(record, spec) ==
  LET raw == Raw(record, spec)
      value == IF raw = Raised THEN Raised ELSE Transform(spec.transform, raw)
  IN  IF value = Null /\ spec.default # Absent THEN spec.default ELSE value
=============================================================================
