------------------------ MODULE CheckpointFileProofs ------------------------
(* Proofs about CheckpointFile, for any number of processes and collectors. *)
EXTENDS CheckpointFile, TLAPS

\* A dict has a position for each collector, and setting one makes another dict.
LEMMA Dicts ==
  /\ NoEntries \in Dict
  /\ \A d \in Dict, c \in Collectors :
       /\ d[c] \in Times
       /\ \A t \in Times : [d EXCEPT ![c] = t] \in Dict
  BY FileAssumption DEF Dict, Times, NoEntries

LEMMA AnyIsCollector == AnyCollector \in Collectors
  BY FileAssumption DEF AnyCollector

LEMMA LeaveTypes ==
  ASSUME TypeOK, NEW p \in Procs, NEW where \in {"idle", "next"}, Leave(p, where)
  PROVE  /\ pc' \in [Procs -> Places]
         /\ current' \in [Procs -> Collectors]
         /\ since' \in [Procs -> Times]
         /\ data' \in [Procs -> Dict]
         /\ batch' \in [Procs -> SUBSET (1..MaxTime)]
<1>1. pc' \in [Procs -> Places] /\ current' \in [Procs -> Collectors]
  BY AnyIsCollector DEF TypeOK, Leave, Places
<1>2. since' \in [Procs -> Times] /\ data' \in [Procs -> Dict]
  BY FileAssumption, Dicts DEF TypeOK, Leave, Times
<1>3. batch' \in [Procs -> SUBSET (1..MaxTime)]
  BY DEF TypeOK, Leave
<1> QED
  BY <1>1, <1>2, <1>3

LEMMA BlockedTypes ==
  ASSUME TypeOK, NEW p \in Procs, Blocked(p),
         todo' \in [Procs -> SUBSET Collectors]
  PROVE  TypeOK'
  BY LeaveTypes DEF TypeOK, Blocked, fileVars

LEMMA AcceptTypes ==
  ASSUME TypeOK, NEW p \in Procs, NEW events \in SUBSET (1..MaxTime), Accept(p, events)
  PROVE  /\ sent' \in [Collectors -> SUBSET (1..MaxTime)]
         /\ forfeited' \in [Collectors -> SUBSET (1..MaxTime)]
  BY DEF TypeOK, Accept

LEMMA DeliverTypes ==
  ASSUME TypeOK, NEW p \in Procs, NEW upTo \in Times, Deliver(p, upTo)
  PROVE  /\ sent' \in [Collectors -> SUBSET (1..MaxTime)]
         /\ forfeited' \in [Collectors -> SUBSET (1..MaxTime)]
<1>1. since[p] \in Times
  BY DEF TypeOK
<1>2. (since[p] + 1)..upTo \in SUBSET (1..MaxTime)
  BY <1>1, FileAssumption DEF Times
<1> QED
  BY <1>2, AcceptTypes DEF Deliver

LEMMA ForfeitTypes ==
  ASSUME TypeOK, NEW p \in Procs, Forfeit(p)
  PROVE  forfeited' \in [Collectors -> SUBSET (1..MaxTime)]
<1>1. current[p] \in Collectors /\ batch[p] \subseteq 1..MaxTime
  BY DEF TypeOK
<1> QED
  BY <1>1 DEF TypeOK, Forfeit

\* A run starts no further than its source goes, and what it is about to save are
\* positions.
LEMMA TypeStep == TypeOK /\ [Next]_vars => TypeOK'
<1> SUFFICES ASSUME TypeOK, [Next]_vars
             PROVE  TypeOK'
  OBVIOUS
<1>1. ASSUME NEW c \in Collectors, Arrive(c)
      PROVE  TypeOK'
  <2>1. head[c] + 1 \in Times
    BY <1>1, Dicts, FileAssumption DEF TypeOK, Arrive, Times
  <2>2. head' \in Dict
    BY <1>1, <2>1, Dicts DEF TypeOK, Arrive
  <2> QED
    BY <1>1, <2>2 DEF TypeOK, Arrive, fileVars, procVars
<1>2. ASSUME NEW p \in Procs, Start(p)
      PROVE  TypeOK'
  BY <1>2 DEF TypeOK, Start, fileVars, Places
<1>3. ASSUME NEW p \in Procs, NEW c \in Collectors, Get(p, c)
      PROVE  TypeOK'
  <2>1. todo' \in [Procs -> SUBSET Collectors]
    BY <1>3 DEF TypeOK, Get
  <2>2. CASE ~Blocked(p)
    <3>1. entries[c] \in Times
      BY Dicts DEF TypeOK
    <3>2. /\ since' \in [Procs -> Times] /\ current' \in [Procs -> Collectors]
          /\ pc' \in [Procs -> Places]
      BY <1>3, <2>2, <3>1 DEF TypeOK, Get, Places
    <3> QED
      BY <1>3, <2>1, <2>2, <3>2 DEF TypeOK, Get, fileVars
  <2> QED
    BY <2>1, <2>2, BlockedTypes
<1>4. ASSUME NEW p \in Procs, RunReads(p)
      PROVE  TypeOK'
  <2> DEFINE position == head[current[p]]
  <2>1. current[p] \in Collectors /\ position \in Times /\ since[p] \in Times
    BY Dicts DEF TypeOK
  <2>2. PICK full \in since[p]..position :
               /\ Deliver(p, full)
               /\ IF position = since[p]
                  THEN Leave(p, "next")
                  ELSE /\ data' = [data EXCEPT ![p][current[p]] = position]
                       /\ batch' = [batch EXCEPT ![p] = (full + 1)..position]
                       /\ pc' = [pc EXCEPT ![p] = "load"]
                       /\ UNCHANGED <<current, since>>
    BY <1>4 DEF RunReads
  <2>3. full \in Times /\ (full + 1)..position \in SUBSET (1..MaxTime)
    BY <2>1, FileAssumption DEF Times
  <2>4. /\ sent' \in [Collectors -> SUBSET (1..MaxTime)]
        /\ forfeited' \in [Collectors -> SUBSET (1..MaxTime)]
    BY <2>2, <2>3, DeliverTypes
  <2>5. CASE position = since[p]
    BY <1>4, <2>2, <2>4, <2>5, LeaveTypes DEF TypeOK, RunReads, fileVars
  <2>6. CASE position # since[p]
    <3>1. [data[p] EXCEPT ![current[p]] = position] \in Dict
      BY <2>1, Dicts DEF TypeOK
    <3>2. data' = [data EXCEPT ![p] = [data[p] EXCEPT ![current[p]] = position]]
      BY <2>2, <2>6 DEF TypeOK
    <3>3. data' \in [Procs -> Dict]
      BY <3>1, <3>2 DEF TypeOK
    <3>4. batch' \in [Procs -> SUBSET (1..MaxTime)] /\ pc' \in [Procs -> Places]
      BY <2>2, <2>3, <2>6 DEF TypeOK, Places
    <3> QED
      BY <1>4, <2>2, <2>4, <2>6, <3>3, <3>4 DEF TypeOK, RunReads, fileVars
  <2> QED
    BY <2>5, <2>6
<1>5. ASSUME NEW p \in Procs, RunFails(p)
      PROVE  TypeOK'
  <2>1. PICK upTo \in since[p]..head[current[p]] : Deliver(p, upTo)
    BY <1>5 DEF RunFails
  <2>2. since[p] \in Times /\ head[current[p]] \in Times
    BY Dicts DEF TypeOK
  <2>3. upTo \in Times
    BY <2>2, FileAssumption DEF Times
  <2>4. /\ sent' \in [Collectors -> SUBSET (1..MaxTime)]
        /\ forfeited' \in [Collectors -> SUBSET (1..MaxTime)]
    BY <2>1, <2>3, DeliverTypes
  <2> QED
    BY <1>5, <2>4, LeaveTypes DEF TypeOK, RunFails, fileVars
<1>6. ASSUME NEW p \in Procs, Load(p)
      PROVE  TypeOK'
  <2>1. current[p] \in Collectors
    BY DEF TypeOK
  <2>2. CASE ~Blocked(p)
    <3>1. [entries EXCEPT ![current[p]] = data[p][current[p]]] \in Dict
      BY <2>1, Dicts DEF TypeOK
    <3>2. data' \in [Procs -> Dict] /\ pc' \in [Procs -> Places]
      BY <1>6, <2>2, <3>1 DEF TypeOK, Load, Places
    <3> QED
      BY <1>6, <2>2, <3>2 DEF TypeOK, Load, fileVars
  <2> QED
    BY <1>6, <2>1, <2>2, BlockedTypes DEF TypeOK, Load
<1>7. ASSUME NEW p \in Procs, Truncate(p)
      PROVE  TypeOK'
  BY <1>7, Dicts DEF TypeOK, Truncate, SetFile, Unreadable, Places
<1>8. ASSUME NEW p \in Procs, Write(p)
      PROVE  TypeOK'
  <2>1. current[p] \in Collectors /\ data[p] \in Dict /\ data[p][current[p]] \in Times
    BY Dicts DEF TypeOK
  <2>2. saved' \in Dict
    BY <1>8, <2>1, Dicts DEF TypeOK, Write
  <2>3. file' \in {"json", "garbled"} /\ entries' \in Dict
    BY <1>8, <2>1, Dicts DEF Write, SetFile
  <2>4. data' \in [Procs -> Dict] /\ pc' \in [Procs -> Places]
    BY <1>8, Dicts DEF TypeOK, Write, Places
  <2> QED
    BY <1>8, <2>2, <2>3, <2>4 DEF TypeOK, Write, Unreadable
<1>9. ASSUME NEW p \in Procs, FinalBatch(p)
      PROVE  TypeOK'
  <2>1. batch[p] \in SUBSET (1..MaxTime)
    BY DEF TypeOK
  <2>2. /\ sent' \in [Collectors -> SUBSET (1..MaxTime)]
        /\ forfeited' \in [Collectors -> SUBSET (1..MaxTime)]
    BY <1>9, <2>1, AcceptTypes, ForfeitTypes DEF FinalBatch, TypeOK
  <2> QED
    BY <1>9, <2>2, LeaveTypes DEF TypeOK, FinalBatch, fileVars
<1>10. ASSUME NEW p \in Procs, Exit(p)
       PROVE  TypeOK'
  BY <1>10 DEF TypeOK, Exit, fileVars, Places
<1>11. ASSUME NEW p \in Procs, Kill(p)
       PROVE  TypeOK'
  <2>1. todo' \in [Procs -> SUBSET Collectors]
    BY <1>11 DEF TypeOK, Kill
  <2>2. interrupted' \in BOOLEAN
    BY <1>11 DEF Kill
  <2> QED
    BY <1>11, <2>1, <2>2, LeaveTypes, ForfeitTypes DEF TypeOK, Kill, fileVars
<1>12. CASE UNCHANGED vars
  BY <1>12 DEF TypeOK, vars, fileVars, procVars
<1> QED
  BY <1>1, <1>2, <1>3, <1>4, <1>5, <1>6, <1>7, <1>8, <1>9, <1>10, <1>11, <1>12
     DEF Next, Runs, Save

\* However many processes share the file, it holds a position for every collector.
THEOREM TypeCorrect == Spec => []TypeOK
<1>1. Init => TypeOK
  <2> SUFFICES ASSUME Init PROVE TypeOK
    OBVIOUS
  <2>1. sent \in [Collectors -> SUBSET (1..MaxTime)] /\ forfeited = sent
    BY DEF Init
  <2>2. /\ pc \in [Procs -> Places] /\ todo \in [Procs -> SUBSET Collectors]
        /\ batch \in [Procs -> SUBSET (1..MaxTime)]
    BY DEF Init, Places
  <2>3. /\ current \in [Procs -> Collectors] /\ data \in [Procs -> Dict]
        /\ since \in [Procs -> Times]
    BY FileAssumption, Dicts, AnyIsCollector DEF Init, Times
  <2> QED
    BY <2>1, <2>2, <2>3, Dicts DEF Init, TypeOK
<1> QED
  BY <1>1, TypeStep, PTL DEF Spec

-----------------------------------------------------------------------------
(* What the file says has been delivered.                                   *)

Covered(dict) == \A c \in Collectors : 1..dict[c] \subseteq Accounted(c)

\* A process that saves has its own final batch in hand.
InHand(p, c) == IF c = current[p] THEN batch[p] ELSE {}

\* Every position that is in the file, or on its way from a run into the file, is that
\* of an event that is accounted for like those before it, if only as part of the batch
\* of the process that is about to save it.
PositionsAreSent ==
  /\ Covered(entries)
  /\ \A p \in Procs, c \in Collectors :
       1..data[p][c] \subseteq Accounted(c) \cup InHand(p, c)
  /\ \A p \in Procs : pc[p] \in {"idle", "next", "run", "tail"} => data[p] = NoEntries
  /\ \A p \in Procs : pc[p] = "run" => 1..since[p] \subseteq Accounted(current[p])

LEMMA NothingCovered == \A c \in Collectors : 1..NoEntries[c] = {}
  BY DEF NoEntries

\* What a process holds is settled or still held, and what is settled stays so.
LEMMA AccountsGrow ==
  ASSUME NEW p \in Procs, NEW c \in Collectors,
         \A q \in Procs : q # p => /\ pc'[q] = pc[q] /\ current'[q] = current[q]
                                  /\ batch'[q] = batch[q],
         sent[c] \subseteq sent'[c], forfeited[c] \subseteq sent'[c] \cup forfeited'[c],
         pc[p] = "tail" /\ current[p] = c => batch[p] \subseteq sent'[c] \cup forfeited'[c]
  PROVE  Accounted(c) \subseteq Accounted(c)'
<1>1. ASSUME NEW t \in Held(c)
      PROVE  t \in Accounted(c)'
  <2>1. PICK q \in Procs : pc[q] = "tail" /\ current[q] = c /\ t \in batch[q]
    BY <1>1 DEF Held
  <2>2. CASE q = p
    BY <2>1, <2>2 DEF Accounted
  <2>3. CASE q # p
    <3>1. pc'[q] = "tail" /\ current'[q] = c /\ t \in batch'[q]
      BY <2>1, <2>3
    <3>2. t \in Held(c)'
      BY <3>1 DEF Held
    <3> QED
      BY <3>2 DEF Accounted
  <2> QED
    BY <2>2, <2>3
<1> QED
  BY <1>1 DEF Accounted

\* What is accepted or forfeited in a step that leaves the tail is what was held.
LEMMA SettlingKeeps ==
  ASSUME TypeOK, NEW p \in Procs, NEW c \in Collectors,
         \/ \E events : Accept(p, events)
         \/ Forfeit(p) /\ UNCHANGED sent
  PROVE  /\ sent[c] \subseteq sent'[c]
         /\ forfeited[c] \subseteq sent'[c] \cup forfeited'[c]
<1>1. current[p] \in Collectors
  BY DEF TypeOK
<1> QED
  BY <1>1 DEF TypeOK, Accept, Forfeit

\* Whatever a process leaves its run with, the positions stay accounted for.
LEMMA LeavingKeeps ==
  ASSUME TypeOK, PositionsAreSent, NEW p \in Procs, NEW where \in {"idle", "next"},
         Leave(p, where), entries' = entries,
         \A c \in Collectors : /\ sent[c] \subseteq sent'[c]
                               /\ forfeited[c] \subseteq sent'[c] \cup forfeited'[c],
         pc[p] = "tail" => batch[p] \subseteq sent'[current[p]] \cup forfeited'[current[p]]
  PROVE  PositionsAreSent'
<1> USE DEF TypeOK
<1>1. \A q \in Procs : q # p =>
        /\ pc'[q] = pc[q] /\ current'[q] = current[q] /\ batch'[q] = batch[q]
        /\ data'[q] = data[q] /\ since'[q] = since[q]
  BY DEF Leave
<1>2. pc'[p] \in {"idle", "next"} /\ data'[p] = NoEntries
  BY DEF Leave
<1>3. \A c \in Collectors : Accounted(c) \subseteq Accounted(c)'
  BY <1>1, AccountsGrow
<1>4. Covered(entries)'
  BY <1>3 DEF PositionsAreSent, Covered
<1>5. ASSUME NEW q \in Procs, NEW c \in Collectors
      PROVE  (1..data[q][c] \subseteq Accounted(c) \cup InHand(q, c))'
  <2>1. CASE q = p
    BY <1>2, <2>1, NothingCovered
  <2>2. CASE q # p
    BY <1>1, <1>3, <2>2 DEF PositionsAreSent, InHand
  <2> QED
    BY <2>1, <2>2
<1>6. ASSUME NEW q \in Procs, pc'[q] \in {"idle", "next", "run", "tail"}
      PROVE  data'[q] = NoEntries
  BY <1>1, <1>2, <1>6 DEF PositionsAreSent
<1>7. ASSUME NEW q \in Procs, pc'[q] = "run"
      PROVE  (1..since[q] \subseteq Accounted(current[q]))'
  <2>1. q # p
    BY <1>2, <1>7
  <2>2. pc[q] = "run" /\ current[q] \in Collectors
    BY <1>1, <1>7, <2>1
  <2> QED
    BY <1>1, <1>3, <2>1, <2>2 DEF PositionsAreSent
<1> QED
  BY <1>4, <1>5, <1>6, <1>7 DEF PositionsAreSent

\* The other steps of a process add to what is accounted for, and change one place.
LEMMA StepKeeps ==
  ASSUME TypeOK, PositionsAreSent, NEW p \in Procs,
         \A q \in Procs : q # p =>
           /\ pc'[q] = pc[q] /\ current'[q] = current[q] /\ batch'[q] = batch[q]
           /\ data'[q] = data[q] /\ since'[q] = since[q],
         \A c \in Collectors : /\ sent[c] \subseteq sent'[c]
                               /\ forfeited[c] \subseteq sent'[c] \cup forfeited'[c],
         pc[p] # "tail",
         Covered(entries)',
         \A c \in Collectors : (1..data[p][c] \subseteq Accounted(c) \cup InHand(p, c))',
         pc'[p] \in {"idle", "next", "run", "tail"} => data'[p] = NoEntries,
         pc'[p] = "run" => (1..since[p] \subseteq Accounted(current[p]))'
  PROVE  PositionsAreSent'
<1> USE DEF TypeOK
<1>1. \A c \in Collectors : Accounted(c) \subseteq Accounted(c)'
  BY AccountsGrow
<1>2. ASSUME NEW q \in Procs, NEW c \in Collectors
      PROVE  (1..data[q][c] \subseteq Accounted(c) \cup InHand(q, c))'
  <2>1. CASE q # p
    BY <1>1, <2>1 DEF PositionsAreSent, InHand
  <2> QED
    BY <2>1
<1>3. ASSUME NEW q \in Procs, pc'[q] \in {"idle", "next", "run", "tail"}
      PROVE  data'[q] = NoEntries
  BY <1>3 DEF PositionsAreSent
<1>4. ASSUME NEW q \in Procs, pc'[q] = "run"
      PROVE  (1..since[q] \subseteq Accounted(current[q]))'
  <2>1. CASE q # p
    <3>1. pc[q] = "run" /\ current[q] \in Collectors
      BY <1>4, <2>1
    <3> QED
      BY <1>1, <2>1, <3>1 DEF PositionsAreSent
  <2> QED
    BY <1>4, <2>1
<1> QED
  BY <1>2, <1>3, <1>4 DEF PositionsAreSent

\* A run from a position that is accounted for saves one that is, up to its batch.
LEMMA ReadsKeep ==
  ASSUME TypeOK, PositionsAreSent, NEW p \in Procs, RunReads(p)
  PROVE  PositionsAreSent'
<1> USE DEF TypeOK
<1> DEFINE position == head[current[p]]
<1>1. /\ current[p] \in Collectors /\ position \in Nat /\ since[p] \in Nat
      /\ pc[p] = "run" /\ entries' = entries
  BY Dicts, FileAssumption DEF RunReads, fileVars, Times
<1>2. PICK full \in since[p]..position :
             /\ Deliver(p, full)
             /\ IF position = since[p]
                THEN Leave(p, "next")
                ELSE /\ data' = [data EXCEPT ![p][current[p]] = position]
                     /\ batch' = [batch EXCEPT ![p] = (full + 1)..position]
                     /\ pc' = [pc EXCEPT ![p] = "load"]
                     /\ UNCHANGED <<current, since>>
  BY DEF RunReads
<1>3. \A c \in Collectors : /\ sent[c] \subseteq sent'[c]
                            /\ forfeited[c] \subseteq sent'[c] \cup forfeited'[c]
  BY <1>2, SettlingKeeps DEF Deliver
<1>4. CASE position = since[p]
  BY <1>1, <1>2, <1>3, <1>4, LeavingKeeps
<1>5. CASE position # since[p]
  <2>1. \A q \in Procs : q # p =>
           /\ pc'[q] = pc[q] /\ current'[q] = current[q] /\ batch'[q] = batch[q]
           /\ data'[q] = data[q] /\ since'[q] = since[q]
    BY <1>2, <1>5
  <2>2. /\ data'[p] = [NoEntries EXCEPT ![current[p]] = position]
        /\ batch'[p] = (full + 1)..position /\ pc'[p] = "load" /\ current'[p] = current[p]
    BY <1>1, <1>2, <1>5 DEF PositionsAreSent
  <2>3. \A c \in Collectors : Accounted(c) \subseteq Accounted(c)'
    BY <1>1, <1>3, <2>1, AccountsGrow
  <2>4. (since[p] + 1)..full \subseteq sent'[current[p]]
    BY <1>1, <1>2 DEF Deliver, Accept
  <2>5. 1..position \subseteq 1..since[p] \cup (since[p] + 1)..full \cup (full + 1)..position
    <3> DEFINE from == since[p]
    <3>1. from \in Nat /\ full \in Nat /\ position \in Nat
      BY <1>1
    <3> HIDE DEF from, position
    <3>2. \A t \in 1..position : t <= from \/ (from + 1 <= t /\ t <= full) \/ full + 1 <= t
      BY <3>1
    <3>3. 1..position \subseteq 1..from \cup (from + 1)..full \cup (full + 1)..position
      BY <3>1, <3>2
    <3> QED
      BY <3>3 DEF from
  <2>6. \A c \in Collectors : c = current[p] => 1..since[p] \subseteq Accounted(c)'
    BY <1>1, <2>3 DEF PositionsAreSent
  <2>7. \A c \in Collectors :
           c = current[p] => 1..position \subseteq Accounted(c)' \cup batch'[p]
    BY <2>2, <2>4, <2>5, <2>6 DEF Accounted
  <2>8. ASSUME NEW c \in Collectors
        PROVE  (1..data[p][c] \subseteq Accounted(c) \cup InHand(p, c))'
    <3>1. CASE c = current[p]
      <4>1. data'[p][c] = position /\ InHand(p, c)' = batch'[p]
        BY <1>1, <2>2, <3>1 DEF InHand, NoEntries
      <4>2. 1..position \subseteq Accounted(c)' \cup batch'[p]
        BY <2>7, <3>1
      <4> QED
        BY <4>1, <4>2
    <3>2. CASE c # current[p]
      <4>1. data'[p][c] = NoEntries[c]
        BY <2>2, <3>2 DEF NoEntries
      <4> QED
        BY <4>1, NothingCovered
    <3> QED
      BY <3>1, <3>2
  <2>9. Covered(entries)'
    BY <1>1, <2>3 DEF PositionsAreSent, Covered
  <2> QED
    BY <1>1, <1>3, <2>1, <2>2, <2>8, <2>9, StepKeeps
<1> QED
  BY <1>4, <1>5

\* What a process writes is accounted for as soon as it is in the file: from then on
\* its batch is held.
LEMMA WriteKeeps ==
  ASSUME TypeOK, PositionsAreSent, NEW p \in Procs, Write(p)
  PROVE  PositionsAreSent'
<1> USE DEF TypeOK
<1>1. /\ pc[p] = "write" /\ pc'[p] = "tail" /\ data'[p] = NoEntries
      /\ entries' = data[p] \/ entries' = NoEntries
      /\ UNCHANGED <<sent, forfeited, current, since, batch>>
  BY DEF Write, SetFile
<1>2. \A q \in Procs : q # p =>
         /\ pc'[q] = pc[q] /\ current'[q] = current[q] /\ batch'[q] = batch[q]
         /\ data'[q] = data[q] /\ since'[q] = since[q]
  BY DEF Write
<1>3. \A c \in Collectors : Accounted(c) \subseteq Accounted(c)'
  BY <1>1, <1>2, AccountsGrow
<1>4. \A c \in Collectors : InHand(p, c) \subseteq Accounted(c)'
  BY <1>1 DEF InHand, Accounted, Held
<1>5. ASSUME NEW c \in Collectors
      PROVE  1..entries'[c] \subseteq Accounted(c)'
  <2>1. CASE entries' = data[p]
    BY <1>3, <1>4, <2>1 DEF PositionsAreSent
  <2>2. CASE entries' = NoEntries
    BY <2>2, NothingCovered
  <2> QED
    BY <1>1, <2>1, <2>2
<1>6. Covered(entries)'
  BY <1>5 DEF Covered
<1> QED
  BY <1>1, <1>2, <1>6, NothingCovered, StepKeeps

LEMMA SentStep == TypeOK /\ PositionsAreSent /\ [Next]_vars => PositionsAreSent'
<1> SUFFICES ASSUME TypeOK, PositionsAreSent, [Next]_vars
             PROVE  PositionsAreSent'
  OBVIOUS
<1> USE DEF TypeOK
<1>1. CASE /\ UNCHANGED <<sent, forfeited, pc, current, since, data, batch>>
           /\ UNCHANGED entries
  BY <1>1 DEF PositionsAreSent, Covered, Accounted, Held, InHand
<1>2. ASSUME NEW p \in Procs, Start(p) \/ Exit(p)
      PROVE  PositionsAreSent'
  <2>1. /\ pc[p] \in {"idle", "next"} /\ pc'[p] \in {"idle", "next"}
        /\ \A q \in Procs : q # p => pc'[q] = pc[q]
        /\ UNCHANGED <<sent, forfeited, entries, current, since, data, batch>>
    BY <1>2 DEF Start, Exit, fileVars
  <2>2. \A c \in Collectors : Accounted(c) \subseteq Accounted(c)'
    BY <2>1, AccountsGrow
  <2>3. Covered(entries)'
    BY <2>1, <2>2 DEF PositionsAreSent, Covered
  <2> QED
    BY <2>1, <2>3, NothingCovered, StepKeeps DEF PositionsAreSent
<1>3. ASSUME NEW p \in Procs, Blocked(p), pc[p] # "tail"
      PROVE  PositionsAreSent'
  BY <1>3, LeavingKeeps DEF Blocked, fileVars
<1>4. ASSUME NEW p \in Procs, NEW c \in Collectors, Get(p, c)
      PROVE  PositionsAreSent'
  <2>1. CASE ~Blocked(p)
    <3>1. /\ current' = [current EXCEPT ![p] = c] /\ since' = [since EXCEPT ![p] = entries[c]]
          /\ UNCHANGED <<entries, data, batch, sent, forfeited>>
          /\ pc[p] = "next" /\ pc' = [pc EXCEPT ![p] = "run"]
      BY <1>4, <2>1 DEF Get, fileVars
    <3>2. /\ data'[p] = NoEntries /\ pc'[p] = "run" /\ current'[p] = c
          /\ since'[p] = entries[c]
          /\ \A q \in Procs : q # p => /\ pc'[q] = pc[q] /\ current'[q] = current[q]
                                       /\ since'[q] = since[q]
      BY <3>1 DEF PositionsAreSent
    <3>3. \A d \in Collectors : Accounted(d) \subseteq Accounted(d)'
      BY <3>1, <3>2, AccountsGrow
    <3>4. Covered(entries)' /\ (1..since[p] \subseteq Accounted(current[p]))'
      BY <3>1, <3>2, <3>3 DEF PositionsAreSent, Covered
    <3> QED
      BY <3>1, <3>2, <3>4, NothingCovered, StepKeeps
  <2> QED
    BY <1>3, <1>4, <2>1 DEF Get
<1>5. ASSUME NEW p \in Procs, RunFails(p)
      PROVE  PositionsAreSent'
  BY <1>5, SettlingKeeps, LeavingKeeps DEF RunFails, Deliver, fileVars
<1>6. ASSUME NEW p \in Procs, Load(p)
      PROVE  PositionsAreSent'
  <2>1. CASE ~Blocked(p)
    <3>1. /\ pc[p] = "load" /\ pc'[p] = "truncate"
          /\ data'[p] = [entries EXCEPT ![current[p]] = data[p][current[p]]]
          /\ \A q \in Procs : q # p => pc'[q] = pc[q] /\ data'[q] = data[q]
          /\ UNCHANGED <<entries, since, current, batch, sent, forfeited>>
      BY <1>6, <2>1 DEF Load, fileVars
    <3>2. \A d \in Collectors : Accounted(d) \subseteq Accounted(d)'
      BY <3>1, AccountsGrow
    <3>3. Covered(entries)'
      BY <3>1, <3>2 DEF PositionsAreSent, Covered
    <3>4. ASSUME NEW c \in Collectors
          PROVE  (1..data[p][c] \subseteq Accounted(c) \cup InHand(p, c))'
      <4>1. data'[p][c] \in {entries[c], data[p][c]} /\ InHand(p, c)' = InHand(p, c)
        BY <3>1 DEF Dict, InHand
      <4> QED
        BY <3>2, <4>1 DEF PositionsAreSent, Covered
    <3> QED
      BY <3>1, <3>3, <3>4, StepKeeps
  <2> QED
    BY <1>3, <1>6, <2>1 DEF Load
<1>7. ASSUME NEW p \in Procs, Truncate(p)
      PROVE  PositionsAreSent'
  <2>1. /\ pc[p] = "truncate" /\ pc'[p] = "write" /\ entries' = NoEntries
        /\ \A q \in Procs : q # p => pc'[q] = pc[q]
        /\ UNCHANGED <<data, since, current, batch, sent, forfeited>>
    BY <1>7 DEF Truncate, SetFile
  <2>2. \A c \in Collectors : Accounted(c) \subseteq Accounted(c)'
    BY <2>1, AccountsGrow
  <2>3. Covered(entries)'
    BY <2>1, NothingCovered DEF Covered
  <2>4. ASSUME NEW c \in Collectors
        PROVE  (1..data[p][c] \subseteq Accounted(c) \cup InHand(p, c))'
    BY <2>1, <2>2 DEF PositionsAreSent, InHand
  <2> QED
    BY <2>1, <2>3, <2>4, StepKeeps
<1>8. ASSUME NEW p \in Procs, FinalBatch(p) \/ Kill(p)
      PROVE  PositionsAreSent'
  <2>1. PICK where \in {"idle", "next"} : Leave(p, where)
    BY <1>8 DEF FinalBatch, Kill
  <2>2. /\ entries' = entries
        /\ Accept(p, batch[p]) \/ (Forfeit(p) /\ UNCHANGED sent)
    BY <1>8 DEF FinalBatch, Kill, fileVars
  <2>3. pc[p] = "tail" => batch[p] \subseteq sent'[current[p]] \cup forfeited'[current[p]]
    BY <2>2 DEF Accept, Forfeit
  <2> QED
    BY <2>1, <2>2, <2>3, SettlingKeeps, LeavingKeeps
<1>9. \/ \E c \in Collectors : Arrive(c)
      \/ UNCHANGED vars
      => UNCHANGED <<sent, forfeited, pc, current, since, data, batch, entries>>
  BY DEF Arrive, vars, procVars, fileVars
<1> QED
  BY <1>1, <1>2, <1>4, <1>5, <1>6, <1>7, <1>8, <1>9, ReadsKeep, WriteKeeps
     DEF Next, Runs, Save

\* However the processes overlap, fail and are killed, the file covers no event but those
\* that were delivered, that a live process holds as its final batch, or that were
\* forfeited with one.
THEOREM NoEntryAhead == Spec => []EntriesAreSent
<1>1. Init => PositionsAreSent
  BY NothingCovered DEF Init, PositionsAreSent, Covered
<1>2. PositionsAreSent => EntriesAreSent
  BY DEF PositionsAreSent, Covered, EntriesAreSent
<1> QED
  BY <1>1, <1>2, SentStep, TypeCorrect, PTL DEF Spec

-----------------------------------------------------------------------------
(* Processes that do not overlap.                                           *)

\* At most one process is alive.
Alone == ~overlaps => \A p, q \in Procs : pc[p] # "idle" /\ pc[q] # "idle" => p = q

\* It saves what the file held, but for its collector's own entry, and finds the file
\* as it left it.
FileInStep ==
  ~overlaps =>
    /\ Readable => entries = saved
    /\ \A p \in Procs :
         /\ pc[p] = "truncate" => Readable
         /\ pc[p] = "write" => file = "empty"
         /\ pc[p] \in {"truncate", "write"} =>
              \A c \in Collectors : c # current[p] => data[p][c] = saved[c]
    /\ ~interrupted => /\ ~blocked
                       /\ ~Readable => \E p \in Procs : pc[p] = "write"

LEMMA AloneStep == TypeOK /\ Alone /\ [Next]_vars => Alone'
<1> SUFFICES ASSUME TypeOK, Alone, [Next]_vars
             PROVE  Alone'
  OBVIOUS
<1> USE DEF TypeOK, Alone
<1>1. ASSUME NEW p \in Procs, Start(p)
      PROVE  Alone'
  BY <1>1 DEF Start
<1>2. ASSUME \A q \in Procs : pc'[q] # "idle" => pc[q] # "idle", UNCHANGED overlaps
      PROVE  Alone'
  BY <1>2
<1>3. \/ \E p \in Procs : Start(p)
      \/ (\A q \in Procs : pc'[q] # "idle" => pc[q] # "idle") /\ UNCHANGED overlaps
  <2>1. ASSUME NEW p \in Procs,
               Runs(p) \/ RunFails(p) \/ Kill(p)
        PROVE  (\A q \in Procs : pc'[q] # "idle" => pc[q] # "idle") /\ UNCHANGED overlaps
    <3>1. pc[p] # "idle" /\ UNCHANGED overlaps
      BY <2>1 DEF Runs, Get, Blocked, RunReads, Save, Load, Truncate, Write, FinalBatch, Exit,
                  RunFails, Kill
    <3>2. \E where \in Places :
            pc' = [pc EXCEPT ![p] = where]
      BY <2>1 DEF Runs, Get, Blocked, RunReads, Save, Load, Truncate, Write, FinalBatch, Exit,
                  RunFails, Kill, Leave, Places
    <3> QED
      BY <3>1, <3>2
  <2>2. ASSUME NEW c \in Collectors, Arrive(c)
        PROVE  UNCHANGED <<pc, overlaps>>
    BY <2>2 DEF Arrive, procVars
  <2> QED
    BY <2>1, <2>2 DEF Next, vars, procVars
<1> QED
  BY <1>1, <1>2, <1>3

LEMMA FileInStepStep ==
  ASSUME TypeOK, TypeOK', Alone, FileInStep, [Next]_vars
  PROVE  FileInStep'
<1> SUFFICES ASSUME ~overlaps, UNCHANGED overlaps
             PROVE  FileInStep'
  BY DEF FileInStep, Next, Arrive, Start, Runs, Get, Blocked, RunReads, Save, Load,
         Truncate, Write, FinalBatch, Exit, RunFails, Kill, vars
<1> USE DEF FileInStep, Alone, Readable, Unreadable
<1>1. ASSUME NEW p \in Procs, NEW where \in {"idle", "next", "run", "load", "tail"},
             pc' = [pc EXCEPT ![p] = where], pc[p] # "write",
             \A q \in Procs : q # p => data'[q] = data[q] /\ current'[q] = current[q],
             UNCHANGED <<file, entries, saved, interrupted, blocked>>
      PROVE  FileInStep'
  <2>1. \A q \in Procs : pc'[q] \in {"truncate", "write"} => q # p /\ pc'[q] = pc[q]
    BY <1>1 DEF TypeOK
  <2>2. \A q \in Procs : pc[q] = "write" => pc'[q] = "write"
    BY <1>1 DEF TypeOK
  <2> QED
    BY <1>1, <2>1, <2>2
<1>2. ASSUME NEW p \in Procs, Blocked(p), pc[p] \in {"next", "load"}
      PROVE  FileInStep'
  <2>1. interrupted
    <3> SUFFICES ASSUME ~interrupted PROVE FALSE
      OBVIOUS
    <3>1. PICK q \in Procs : pc[q] = "write"
      BY <1>2 DEF Blocked
    <3> QED
      BY <1>2, <3>1
  <2>2. \A q \in Procs : pc'[q] \in {"truncate", "write"} => q # p /\ pc'[q] = pc[q]
    BY <1>2 DEF TypeOK, Blocked, Leave
  <2>3. \A q \in Procs : q # p => data'[q] = data[q] /\ current'[q] = current[q]
    BY <1>2 DEF TypeOK, Blocked, Leave
  <2> QED
    BY <1>2, <2>1, <2>2, <2>3 DEF Blocked, fileVars
<1>3. ASSUME NEW c \in Collectors, Arrive(c)
      PROVE  FileInStep'
  BY <1>3 DEF Arrive, fileVars, procVars
<1>4. ASSUME NEW p \in Procs, Start(p) \/ Exit(p)
      PROVE  FileInStep'
  BY <1>1, <1>4 DEF Start, Exit, fileVars
<1>5. ASSUME NEW p \in Procs, NEW c \in Collectors, Get(p, c)
      PROVE  FileInStep'
  <2>1. CASE ~Blocked(p)
    <3>1. /\ pc' = [pc EXCEPT ![p] = "run"] /\ pc[p] = "next"
          /\ current' = [current EXCEPT ![p] = c]
          /\ UNCHANGED <<data, file, entries, saved, interrupted, blocked>>
      BY <1>5, <2>1 DEF Get, fileVars
    <3> QED
      BY <1>1, <3>1 DEF TypeOK
  <2> QED
    BY <1>2, <1>5, <2>1 DEF Get
<1>6. ASSUME NEW p \in Procs, RunReads(p) \/ RunFails(p) \/ FinalBatch(p)
      PROVE  FileInStep'
  <2>1. /\ pc[p] \in {"run", "tail"}
        /\ UNCHANGED <<file, entries, saved, interrupted, blocked>>
    BY <1>6 DEF RunReads, RunFails, FinalBatch, fileVars
  <2>2. \E where \in {"next", "load"} : pc' = [pc EXCEPT ![p] = where]
    BY <1>6 DEF RunReads, RunFails, FinalBatch, Leave
  <2>3. \A q \in Procs : q # p => data'[q] = data[q]
    BY <1>6 DEF RunReads, RunFails, FinalBatch, Leave, TypeOK
  <2>4. \A q \in Procs : q # p => current'[q] = current[q]
    BY <1>6 DEF RunReads, RunFails, FinalBatch, Leave, TypeOK
  <2> QED
    BY <1>1, <2>1, <2>2, <2>3, <2>4
<1>7. ASSUME NEW p \in Procs, Load(p)
      PROVE  FileInStep'
  <2>1. current[p] \in Collectors /\ pc[p] = "load"
    BY <1>7 DEF Load, TypeOK
  <2>2. CASE ~Blocked(p)
    <3>1. /\ data' = [data EXCEPT ![p] = [entries EXCEPT ![current[p]] = data[p][current[p]]]]
          /\ pc' = [pc EXCEPT ![p] = "truncate"] /\ Readable
          /\ UNCHANGED <<file, entries, current, saved, interrupted, blocked>>
      BY <1>7, <2>2 DEF Load, fileVars
    <3>2. data'[p] = [saved EXCEPT ![current[p]] = data[p][current[p]]]
      BY <3>1 DEF TypeOK
    <3>3. \A c \in Collectors : c # current[p] => data'[p][c] = saved[c]
      BY <3>2 DEF TypeOK, Dict
    <3>4. \A q \in Procs : pc'[q] \in {"truncate", "write"} => q = p /\ pc'[q] = "truncate"
      BY <2>1, <3>1 DEF TypeOK
    <3> QED
      BY <3>1, <3>3, <3>4
  <2> QED
    BY <1>2, <2>1, <2>2
<1>8. ASSUME NEW p \in Procs, Truncate(p)
      PROVE  FileInStep'
  <2>1. /\ pc[p] = "truncate" /\ pc' = [pc EXCEPT ![p] = "write"] /\ file' = "empty"
        /\ UNCHANGED <<data, current, saved, interrupted, blocked>>
    BY <1>8 DEF Truncate, SetFile
  <2>2. pc'[p] = "write" /\ \A q \in Procs : pc'[q] \in {"truncate", "write"} => q = p
    BY <2>1 DEF TypeOK
  <2> QED
    BY <2>1, <2>2
<1>9. ASSUME NEW p \in Procs, Write(p)
      PROVE  FileInStep'
  <2>1. /\ pc[p] = "write" /\ file' = "json" /\ entries' = data[p]
        /\ saved' = [saved EXCEPT ![current[p]] = data[p][current[p]]]
        /\ UNCHANGED <<current, interrupted, blocked>>
    BY <1>9 DEF Write, SetFile
  <2>2. \A q \in Procs : pc'[q] \notin {"truncate", "write"}
    BY <1>9, <2>1 DEF Write, TypeOK
  <2>3. \A c \in Collectors : entries'[c] = saved'[c]
    BY <2>1 DEF TypeOK, Dict
  <2>4. entries' = saved'
    BY <2>3 DEF TypeOK, Dict
  <2> QED
    BY <2>1, <2>2, <2>4
<1>10. ASSUME NEW p \in Procs, Kill(p)
       PROVE  FileInStep'
  <2>1. \A q \in Procs : pc'[q] = "idle"
    BY <1>10 DEF Kill, Leave, TypeOK
  <2>2. pc[p] # "write" => \A q \in Procs : pc[q] # "write"
    BY <1>10 DEF Kill
  <2> QED
    BY <1>10, <2>1, <2>2 DEF Kill, fileVars
<1>11. CASE UNCHANGED vars
  BY <1>11 DEF vars, fileVars, procVars
<1> QED
  BY <1>3, <1>4, <1>5, <1>6, <1>7, <1>8, <1>9, <1>10, <1>11 DEF Next, Runs, Save

LEMMA FileInvariant == Spec => [](Alone /\ FileInStep)
<1>1. Init => Alone /\ FileInStep
  BY DEF Init, Alone, FileInStep, Readable, Unreadable
<1> QED
  BY <1>1, AloneStep, FileInStepStep, TypeCorrect, PTL DEF Spec

\* Processes that do not overlap keep each other's positions: the file holds what each
\* collector saved last.
THEOREM UpdatesAreKept == Spec => []NoLostUpdate
<1>1. FileInStep => NoLostUpdate
  BY DEF FileInStep, NoLostUpdate
<1> QED
  BY <1>1, FileInvariant, PTL

\* Nor does any of them find the file unreadable, unless one was killed in the middle
\* of a write.
THEOREM OnlyKillsDestroy == Spec => []UnreadableOnlyAfterKill
<1>1. FileInStep => UnreadableOnlyAfterKill
  BY DEF FileInStep, UnreadableOnlyAfterKill
<1> QED
  BY <1>1, FileInvariant, PTL

\* A file that is unreadable stays so, whether or not processes overlap, once no write
\* is under way.
THEOREM NothingHealsTheFile == Spec => UnreadableStays
<1>1. TypeOK /\ [Next]_vars =>
        [~Readable /\ NobodyWriting => ~Readable' /\ NobodyWriting']_vars
  <2> SUFFICES ASSUME TypeOK, [Next]_vars, ~Readable, NobodyWriting
               PROVE  ~Readable' /\ NobodyWriting'
    OBVIOUS
  <2>1. file' = file
    BY DEF NobodyWriting, Next, Arrive, Start, Runs, Get, Blocked, RunReads, Save, Load,
           Truncate, Write, FinalBatch, Exit, RunFails, Kill, vars, fileVars
  <2>2. ASSUME NEW p \in Procs, NEW where \in {"idle", "next", "run", "load", "tail"},
               pc' = [pc EXCEPT ![p] = where]
        PROVE  NobodyWriting'
    BY <2>2 DEF NobodyWriting, TypeOK
  <2>3. \/ UNCHANGED pc
        \/ \E p \in Procs, where \in {"idle", "next", "run", "load", "tail"} :
             pc' = [pc EXCEPT ![p] = where]
    BY DEF NobodyWriting, Next, Arrive, Start, Runs, Get, Blocked, RunReads, Save, Load,
           Truncate, Write, FinalBatch, Exit, RunFails, Kill, Leave, vars, procVars
  <2> QED
    BY <2>1, <2>2, <2>3 DEF Readable, NobodyWriting
<1> QED
  BY <1>1, TypeCorrect, PTL DEF Spec, UnreadableStays
=============================================================================
