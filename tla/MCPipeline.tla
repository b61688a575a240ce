----------------------------- MODULE MCPipeline -----------------------------
(* Instances of Pipeline: records are named by their place in time.         *)
EXTENDS Pipeline

\* Four events, one after the other.
FourRecords == 1..4
FourTimes == [r \in FourRecords |-> r]
AllEvents == [r \in FourRecords |-> "event"]

\* An uncorrelated record between events, the last two with the same time.
MixedTimes == <<1, 2, 3, 3>>
MixedKinds == <<"event", "uncorrelated", "event", "event">>

\* Records of every kind: the field map raises on 4, at the time of an event; nobody is
\* found for 5, and 6 cannot be mapped.
AllKindsRecords == 1..7
AllKindsTimes == <<1, 2, 3, 3, 4, 5, 6>>
AllKinds == <<"event", "incomplete", "event", "poison", "uncorrelated", "misfit",
              "event">>
=============================================================================
