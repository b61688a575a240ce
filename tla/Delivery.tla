------------------------------ MODULE Delivery ------------------------------
(***************************************************************************)
(* What a collector promises the API, whatever happens to its runs: the    *)
(* events ahead of the position are delivered at least once, in batches;   *)
(* the position only moves forward and passes an event only once it is     *)
(* delivered or held; what is held is less than a batch, and is settled    *)
(* once and as a whole, by going out in one batch, maybe with others, or   *)
(* by being lost.  Pipeline implements this, and so does each of the       *)
(* streams of Combined.                                                    *)
(***************************************************************************)
EXTENDS Naturals, FiniteSets

CONSTANTS Records, TimeOf, Kind, BatchSize

VARIABLES
  visible,   \* the records there are
  late,      \* those that nothing is promised of: they came behind others
  position,  \* how far the collector claims to have come
  held,      \* events it has claimed and not yet delivered
  copies,    \* how often each record has been delivered
  lost       \* events claimed and never delivered

deliveryVars == <<visible, late, position, held, copies, lost>>

Events == {r \in Records : Kind[r] = "event"}

Init ==
  /\ visible = {} /\ late = {} /\ position = 0
  /\ held = {} /\ lost = {}
  /\ copies = [r \in Records |-> 0]

Publish(r) ==
  /\ r \notin visible
  /\ visible' = visible \cup {r}
  /\ late' \in {late, late \cup {r}}
  /\ TimeOf[r] <= position => r \in late'
  /\ UNCHANGED <<position, held, copies, lost>>

AddCopies(S) == copies' = [r \in Records |-> IF r \in S THEN copies[r] + 1
                                                        ELSE copies[r]]

\* A batch: what is held, all of it, and what the position has not passed.
Deliver(S) ==
  /\ held \subseteq S
  /\ S \subseteq visible \cap Events /\ Cardinality(S) \in 1..BatchSize
  /\ \A r \in S : TimeOf[r] > position \/ r \in held
  /\ AddCopies(S)
  /\ held' = {}
  /\ UNCHANGED <<visible, late, position, lost>>

\* Everything up to p that was on time is accounted for.
Advance(p, S) ==
  /\ held = {}
  /\ p > position
  /\ S \subseteq visible \cap Events /\ Cardinality(S) < BatchSize
  /\ \A r \in (visible \cap Events) \ late :
       TimeOf[r] > position /\ TimeOf[r] <= p => copies[r] > 0 \/ r \in S
  /\ position' = p
  /\ held' = S
  /\ UNCHANGED <<visible, late, copies, lost>>

Lose ==
  /\ held # {}
  /\ held' = {} /\ lost' = lost \cup held
  /\ UNCHANGED <<visible, late, position, copies>>

Next == \/ \E r \in Records : Publish(r)
        \/ \E S \in SUBSET visible : Deliver(S)
        \/ \E S \in SUBSET visible : \E r \in visible : Advance(TimeOf[r], S)
        \/ Lose

Spec == Init /\ [][Next]_deliveryVars
=============================================================================
