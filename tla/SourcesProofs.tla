--------------------------- MODULE SourcesProofs ---------------------------
(* Proofs about Sources, for any lookback, window, period, limit and clock.  *)
EXTENDS Sources, Integers, TLAPS

\* Where the run that is under way began to ask.
Begin == IF ckpt > 0 THEN ckpt
         ELSE IF source.initial = "lookback" THEN until - Lookback ELSE 0

FileAt(t) == t - (t % Period)

\* e is not too old for a request that begins at t.
Reaches(e, t) ==
  /\ source.start = "second" => e.time >= ToSecond(t)
  /\ source.start = "exact" => e.time >= t
  /\ source.start = "after" => e.time > ToSecond(t)
  /\ source.start = "file" => FileStart(e) > ToSecond(t)

\* A request that ends at t, and is not made before it, finds e if it is old enough.
BeforeEnd(e, t) ==
  IF source.start = "file" THEN FileStart(e) + Period <= t
  ELSE IF source.end = "second" THEN e.time <= ToSecond(t) ELSE e.time <= t

\* e came before something that this run has been answered.
BeforeAnswer(e) ==
  /\ source.end \in {"open", "once"}
  /\ \E f \in mine \cup answer :
       IF source.start = "file" THEN FileStart(e) <= FileStart(f) ELSE e.time <= f.time

Known(e, t) == BeforeEnd(e, t) \/ BeforeAnswer(e)

\* This run has asked for e.
AskedFor(e) ==
  \/ e.part < part /\ Known(e, until)
  \/ e.part = part /\ pc = "read" /\ Known(e, to)
  \/ e.part = part /\ pc = "ask" /\ from > Begin /\ Known(e, from)

\* The windows of a run lie between its beginning and its end, and only a source of
\* windows has more than one.
WindowInRun ==
  pc # "idle" => /\ Begin \in 0..from
                 /\ source.special # "windows" => from = Begin /\ to = until

\* What a run has been answered is newer than its checkpoint and not newer than its
\* end, and a log file that it has read was complete.
AnswersInRun ==
  /\ pc = "idle" => answer = {} /\ mine = {}
  /\ pc = "ask" => answer = {} /\ (source.special = "none" /\ source.parts = 1 => mine = {})
  /\ mine # {} => \E e \in mine : lastPos = e.time
  /\ \A e \in mine \cup answer :
       /\ e.time > ckpt
       /\ source.end = "second" => e.time <= ToSecond(until)
       /\ source.end = "exact" => e.time <= until
       /\ source.start = "file" => FileStart(e) + Period <= now
  /\ source.start = "file" /\ ckpt > 0 => FileAt(ckpt) + Period <= now

\* A source that answers in order is read in order, and its checkpoint is the newest
\* event read.
InOrder ==
  source.order = "asc" =>
    /\ \A e \in mine : e.time <= lastPos /\ \A f \in answer : e.time <= f.time
    /\ \A e \in got : e.time <= ckpt
    /\ mine \cap answer = {} /\ leftOut = {}

\* Nothing that the run has asked for is missing.
RunCovers ==
  pc # "idle" =>
    \A e \in events : e.time > ckpt /\ Reaches(e, Begin) /\ AskedFor(e)
                        => e \in mine \cup answer \cup leftOut

\* A run without a checkpoint begins where the promise does, or where the last run,
\* which was empty, has ended.
BaseReaches ==
  pc # "idle" /\ ckpt = 0 => base = Begin \/ (lastRun > 0 /\ until <= lastRun + Reach)

EmptyRuns ==
  ckpt = 0 /\ lastRun > 0 /\ (IF pc = "idle" THEN now ELSE until) <= lastRun + Reach =>
    \A e \in events : Promised(e) /\ BeforeEnd(e, lastRun) => e \in leftOut

\* Of a log file all events are read, or none.
NotNewer(e, t) ==
  IF source.start = "file" THEN FileStart(e) <= FileAt(t) ELSE e.time <= t

NoneSkipped ==
  \A e \in events : Promised(e) /\ NotNewer(e, ckpt) => e \in got \cup leftOut

IInv ==
  /\ TypeOK /\ \A e \in events : e.part \in 1..source.parts
  /\ WindowInRun /\ AnswersInRun /\ InOrder /\ RunCovers /\ BaseReaches /\ EmptyRuns
  /\ NoneSkipped
-----------------------------------------------------------------------------
(* Rounding, and what the sources have in common. *)

\* Rounding down to a multiple of n.
LEMMA RoundDown ==
  ASSUME NEW n \in Nat \ {0}, NEW t \in Nat, NEW u \in Nat
  PROVE  /\ t - (t % n) \in 0..t /\ t < t - (t % n) + n
         /\ t <= u => t - (t % n) <= u - (u % n)
         /\ t - (t % n) > u - (u % n) => t - (t % n) > u
<1>1. /\ t \div n \in Int /\ t % n \in 0..n - 1 /\ t = n * (t \div n) + (t % n)
  OBVIOUS
<1>2. /\ u \div n \in Int /\ u % n \in 0..n - 1 /\ u = n * (u \div n) + (u % n)
  OBVIOUS
<1> QED
  BY <1>1, <1>2

\* What the requests of all sources have in common.
Regular(c) ==
  /\ c.start \in {"second", "exact", "after", "file", "all"}
  /\ c.end \in {"second", "exact", "open", "once"}
  /\ c.special \in {"none", "windows", "limit"} /\ c.parts \in 1..2
  /\ c.initial # "lookback" => c.start \in {"after", "all"}
  /\ c.initial = "lookback" => c.start \in {"second", "exact", "file"}
  /\ c.start = "file" => c.end = "once"
  /\ c.end = "second" => c.start = "second"
  /\ c.end = "exact" <=> c.start = "exact"
  /\ c.end \in {"open", "once"} => c.parts = 1 /\ c.special = "none"
  /\ c.special = "windows" => c.parts = 1
  /\ c.order = "asc" => c.end \in {"open", "once"} /\ c.start # "file"

LEMMA SourceFacts ==
  ASSUME source \in Collectors
  PROVE  Regular(source)
<1>1. Regular(Okta) /\ Regular(GoogleCloud) /\ Regular(EntraSignIns)
  BY DEF Regular, Okta, GoogleCloud, EntraSignIns
<1>2. Regular(Acme) /\ Regular(Azure) /\ Regular(Salesforce)
  BY DEF Regular, Okta, Acme, Azure, Salesforce
<1>3. Regular(GoogleWorkspace) /\ Regular(Office365)
  BY DEF Regular, Okta, Acme, Azure, GoogleWorkspace, Office365
<1>4. Regular(AWS) /\ Regular(Jaeger)
  BY DEF Regular, Okta, Acme, Azure, AWS, Jaeger
<1>5. Regular(JDBC) /\ Regular(LogFile) /\ Regular(ActiveDirectory) /\ Regular(WindowsEventLog)
  BY DEF Regular, Okta, JDBC, LogFile, ActiveDirectory, WindowsEventLog
<1>6. Regular(EntraAppSignIns)
  BY DEF Regular, Okta, JDBC, LogFile, ActiveDirectory, EntraAppSignIns
<1> QED
  BY <1>1, <1>2, <1>3, <1>4, <1>5, <1>6 DEF Collectors

LEMMA ConstantFacts ==
  /\ Second \in Nat \ {0} /\ Lookback \in Nat \ {0} /\ Window \in Nat \ {0}
  /\ Period \in Nat \ {0} /\ Limit \in Nat \ {0}
  /\ MaxTime \in Nat /\ MaxFaults \in Nat /\ Lookback <= MaxTime
  BY SourcesAssumption

LEMMA RoundFacts ==
  /\ \A t \in Nat : ToSecond(t) \in 0..t
  /\ \A t, u \in Nat : t <= u => ToSecond(t) <= ToSecond(u)
  /\ \A t \in Nat : FileAt(t) \in 0..t /\ t < FileAt(t) + Period
  /\ \A t, u \in Nat : t <= u => FileAt(t) <= FileAt(u)
  /\ \A t, u \in Nat : FileAt(t) > FileAt(u) => FileAt(t) > u
<1>1. ASSUME NEW t \in Nat, NEW u \in Nat
      PROVE  ToSecond(t) \in 0..t /\ (t <= u => ToSecond(t) <= ToSecond(u))
  BY RoundDown, ConstantFacts DEF ToSecond
<1>2. ASSUME NEW t \in Nat, NEW u \in Nat
      PROVE  /\ FileAt(t) \in 0..t /\ t < FileAt(t) + Period
             /\ t <= u => FileAt(t) <= FileAt(u)
             /\ FileAt(t) > FileAt(u) => FileAt(t) > u
  BY RoundDown, ConstantFacts DEF FileAt
<1> QED
  BY <1>1, <1>2

LEMMA EventFacts ==
  ASSUME TypeOK
  PROVE  \A e \in events : /\ e.time \in Lookback..now /\ e.time \in Nat \ {0} /\ e.part \in 1..2
                           /\ FileStart(e) = FileAt(e.time)
<1>1. \A e \in events : e \in AllEvents /\ e.time <= now
  BY DEF TypeOK
<1>2. \A e \in AllEvents : e.time \in Lookback..MaxTime /\ e.part \in 1..2
  BY DEF AllEvents
<1>3. now \in Nat
  BY ConstantFacts DEF TypeOK
<1> QED
  BY <1>1, <1>2, <1>3, ConstantFacts DEF FileStart, FileAt

-----------------------------------------------------------------------------
(* Types, in parts. *)

ClockTypes ==
  /\ source \in Collectors /\ now \in Lookback..MaxTime
  /\ events \subseteq AllEvents /\ \A e \in events : e.time <= now /\ e.part \in 1..source.parts

RunTypes ==
  /\ pc \in {"idle", "ask", "read"}
  /\ from \in 0..to /\ to \in 0..until /\ until \in 0..now /\ part \in 1..source.parts
  /\ answer \subseteq events /\ mine \subseteq events
  /\ lastPos \in {0} \cup {e.time : e \in mine}

HistoryTypes ==
  /\ ckpt \in 0..now /\ got \subseteq events /\ leftOut \subseteq events
  /\ base \in 0..now /\ lastRun \in 0..now /\ faults \in 0..MaxFaults

LEMMA TypeParts ==
  TypeOK /\ (\A e \in events : e.part \in 1..source.parts)
    <=> ClockTypes /\ RunTypes /\ HistoryTypes
  BY DEF TypeOK, ClockTypes, RunTypes, HistoryTypes

LEMMA NumberFacts ==
  ASSUME ClockTypes, RunTypes, HistoryTypes
  PROVE  /\ now \in Nat /\ Lookback <= now /\ until \in Nat /\ to \in Nat /\ from \in Nat
         /\ until <= now /\ to <= until /\ from <= to
         /\ ckpt \in Nat /\ ckpt <= now /\ base \in Nat /\ lastRun \in Nat
         /\ source.parts \in 1..2 /\ Regular(source)
<1>1. Regular(source)
  BY SourceFacts DEF ClockTypes
<1>2. now \in Nat /\ Lookback <= now
  BY ConstantFacts DEF ClockTypes
<1> QED
  BY <1>1, <1>2 DEF RunTypes, HistoryTypes, Regular

LEMMA ClockTypesStep ==
  ASSUME ClockTypes, HistoryTypes, RunTypes, [Next]_vars
  PROVE  /\ ClockTypes'
         /\ source' = source /\ events \subseteq events' /\ now <= now'
<1>1. CASE Tick
  <2>1. /\ source' = source /\ now' = now + 1 /\ now < MaxTime
    BY <1>1 DEF Tick
  <2>2. PICK S \in SUBSET (1..source.parts) :
          events' = events \cup {[time |-> now', part |-> p] : p \in S}
    BY <1>1 DEF Tick
  <2>3. now \in Nat /\ Lookback \in Nat /\ MaxTime \in Nat /\ Lookback <= now /\ source.parts \in 1..2
    BY NumberFacts, ConstantFacts
  <2>4. now' \in Lookback..MaxTime
    BY <2>1, <2>3
  <2>5. \A p \in S : p \in 1..source.parts /\ [time |-> now', part |-> p] \in AllEvents
    BY <2>3, <2>4 DEF AllEvents
  <2>6. \A e \in events' : e \in events \/ \E p \in S : e = [time |-> now', part |-> p]
    BY <2>2
  <2>7. \A e \in events : e.time \in Nat
    <3>1. \A e \in AllEvents : e.time \in Lookback..MaxTime
      BY DEF AllEvents
    <3> QED
      BY <2>3, <3>1 DEF ClockTypes
  <2>8. \A e \in events' : e \in AllEvents /\ e.time <= now' /\ e.part \in 1..source.parts
    BY <2>1, <2>3, <2>4, <2>5, <2>6, <2>7 DEF ClockTypes
  <2> QED
    BY <2>1, <2>2, <2>3, <2>4, <2>8 DEF ClockTypes
<1>2. CASE ~Tick
  <2>1. UNCHANGED <<source, events, now>>
    BY <1>2 DEF Next, StartRun, Poll, Request, NextWindow, NextPart, Complete, Read, NextPage,
                PollFails, ForgetRun, vars
  <2> QED
    BY <2>1, NumberFacts DEF ClockTypes
<1> QED
  BY <1>1, <1>2

LEMMA WindowEndFacts ==
  ASSUME NEW s \in Nat, NEW t \in Nat, s <= t
  PROVE  /\ WindowEnd(s, t) \in s..t /\ (s < t => s < WindowEnd(s, t))
         /\ source.special # "windows" => WindowEnd(s, t) = t
  BY ConstantFacts DEF WindowEnd, Earlier

LEMMA SinceFacts ==
  ASSUME ClockTypes, RunTypes, HistoryTypes
  PROVE  /\ Since \in 0..now
         /\ Since = IF ckpt > 0 THEN ckpt
                    ELSE IF source.initial = "lookback" THEN now - Lookback ELSE 0
<1>1. /\ ckpt \in Nat /\ ckpt <= now /\ now \in Nat /\ Lookback <= now /\ Lookback \in Nat
  BY NumberFacts, ConstantFacts
<1>2. Since = IF ckpt > 0 THEN ckpt
              ELSE IF source.initial = "lookback" THEN now - Lookback ELSE 0
  <2>1. CASE ckpt > 0
    BY <1>1, <2>1 DEF Since
  <2>2. CASE ckpt = 0 /\ source.initial = "lookback"
    BY <1>1, <2>2 DEF Since
  <2>3. CASE ckpt = 0 /\ source.initial # "lookback"
    BY <1>1, <2>3 DEF Since
  <2> QED
    BY <1>1, <2>1, <2>2, <2>3
<1> QED
  BY <1>1, <1>2

LEMMA AnswersAreFound ==
  /\ Found \subseteq events
  /\ \A S \in Answers : S \subseteq Found /\ (source.special # "limit" => S = Found)
  BY DEF Found, Answers

LEMMA RunTypesStep ==
  ASSUME ClockTypes, HistoryTypes, RunTypes, [Next]_vars
  PROVE  RunTypes'
<1>0. /\ now \in Nat /\ until \in Nat /\ to \in Nat /\ from \in Nat
      /\ until <= now /\ to <= until /\ from <= to /\ source.parts \in 1..2
      /\ source' = source /\ events \subseteq events' /\ now <= now' /\ now' \in Nat
  <2>1. ClockTypes'
    BY ClockTypesStep
  <2>2. now' \in Nat
    BY <2>1, ConstantFacts DEF ClockTypes
  <2> QED
    BY <2>2, NumberFacts, ClockTypesStep
<1>1. CASE Tick \/ UNCHANGED vars
  <2>1. UNCHANGED <<pc, from, to, until, part, answer, mine, lastPos>>
    BY <1>1 DEF Tick, runVars, vars
  <2> QED
    BY <1>0, <2>1 DEF RunTypes
<1>2. CASE StartRun
  <2>1. /\ pc' = "ask" /\ from' = Since /\ until' = now /\ to' = WindowEnd(Since, now)
        /\ part' = 1 /\ UNCHANGED <<now, answer, mine, lastPos>>
    BY <1>2 DEF StartRun
  <2>2. Since \in Nat /\ Since <= now
    BY <1>0, SinceFacts
  <2>3. WindowEnd(Since, now) \in Since..now
    BY <1>0, <2>2, WindowEndFacts
  <2> QED
    BY <1>0, <2>1, <2>2, <2>3 DEF RunTypes
<1>3. CASE Request
  <2>1. PICK S \in Answers : answer' = {e \in S : PassedByPoll(e)}
    BY <1>3 DEF Request
  <2>2. pc' = "read" /\ UNCHANGED <<now, from, to, until, part, mine, lastPos>>
    BY <1>3 DEF Request
  <2> QED
    BY <1>0, <2>1, <2>2, AnswersAreFound DEF RunTypes
<1>4. CASE NextPage
  <2>1. /\ answer' = {e \in Found \ mine : PassedByPoll(e)}
        /\ UNCHANGED <<now, pc, from, to, until, part, mine, lastPos>>
    BY <1>4 DEF NextPage
  <2> QED
    BY <1>0, <2>1, AnswersAreFound DEF RunTypes
<1>5. ASSUME NEW e \in answer, Read(e)
      PROVE  RunTypes'
  <2>1. /\ answer' = answer \ {e} /\ mine' = mine \cup {e} /\ lastPos' = e.time
        /\ UNCHANGED <<now, pc, from, to, until, part>>
    BY <1>5 DEF Read
  <2>2. lastPos' \in {f.time : f \in mine'}
    BY <2>1
  <2> QED
    BY <1>0, <2>1, <2>2 DEF RunTypes
<1>6. CASE NextWindow
  <2>1. /\ to < until /\ from' = to /\ to' = WindowEnd(to, until) /\ pc' = "ask"
        /\ UNCHANGED <<now, until, part, answer, mine, lastPos>>
    BY <1>6 DEF NextWindow
  <2>2. WindowEnd(to, until) \in to..until
    BY <1>0, WindowEndFacts
  <2> QED
    BY <1>0, <2>1, <2>2 DEF RunTypes
<1>7. CASE NextPart
  <2>1. /\ part' = part + 1 /\ part < source.parts /\ pc' = "ask"
        /\ UNCHANGED <<now, from, to, until, answer, mine, lastPos>>
    BY <1>7 DEF NextPart
  <2> QED
    BY <1>0, <2>1 DEF RunTypes
<1>8. CASE Complete \/ PollFails
  <2>1. ForgetRun
    BY <1>8 DEF Complete, PollFails
  <2> QED
    BY <1>0, <2>1 DEF RunTypes, ForgetRun
<1> QED
  BY <1>1, <1>2, <1>3, <1>4, <1>5, <1>6, <1>7, <1>8 DEF Next, Poll

LEMMA HistoryTypesStep ==
  ASSUME ClockTypes, HistoryTypes, RunTypes, [Next]_vars
  PROVE  HistoryTypes'
<1>0. /\ now \in Nat /\ until \in Nat /\ until <= now /\ ckpt \in Nat /\ ckpt <= now
      /\ base \in Nat /\ base <= now /\ lastRun \in Nat /\ lastRun <= now /\ faults \in 0..MaxFaults
      /\ events \subseteq events' /\ now <= now' /\ now' \in Nat /\ MaxFaults \in Nat
  <2>1. ClockTypes'
    BY ClockTypesStep
  <2>2. now' \in Nat
    BY <2>1, ConstantFacts DEF ClockTypes
  <2> QED
    BY <2>2, NumberFacts, ClockTypesStep, ConstantFacts DEF HistoryTypes
<1>1. ckpt' \in 0..now'
  <2>1. CASE Complete
    <3>1. ckpt' = IF mine = {} THEN ckpt ELSE lastPos
      BY <2>1 DEF Complete
    <3>2. \A e \in events : e.time \in Nat /\ e.time <= now
      <4>1. \A e \in AllEvents : e.time \in Lookback..MaxTime
        BY DEF AllEvents
      <4> QED
        BY <4>1, ConstantFacts DEF ClockTypes
    <3>3. lastPos \in 0..now
      BY <1>0, <3>2 DEF RunTypes
    <3> QED
      BY <1>0, <3>1, <3>3
  <2>2. CASE ~Complete
    <3>1. ckpt' = ckpt
      BY <2>2 DEF Next, Tick, StartRun, Poll, Request, NextWindow, NextPart, Read, NextPage,
                  PollFails, vars
    <3> QED
      BY <1>0, <3>1
  <2> QED
    BY <2>1, <2>2
<1>2. got' \subseteq events'
  <2>1. got' = got \/ got' = got \cup mine
    BY DEF Next, Tick, StartRun, Poll, Request, NextWindow, NextPart, Read, NextPage, Complete,
           PollFails, vars, history
  <2> QED
    BY <1>0, <2>1 DEF HistoryTypes, RunTypes
<1>3. leftOut' \subseteq events'
  <2>1. CASE Request
    <3>1. \E S \in Answers : leftOut' = leftOut \cup (Found \ S)
      BY <2>1 DEF Request
    <3> QED
      BY <1>0, <3>1, AnswersAreFound DEF HistoryTypes
  <2>2. CASE ~Request
    <3>1. leftOut' = leftOut
      BY <2>2 DEF Next, Tick, StartRun, Poll, NextWindow, NextPart, Read, NextPage, Complete,
                  PollFails, vars, history
    <3> QED
      BY <1>0, <3>1 DEF HistoryTypes
  <2> QED
    BY <2>1, <2>2
<1>4. base' \in 0..now' /\ lastRun' \in 0..now' /\ faults' \in 0..MaxFaults
  <2>1. base' = base \/ base' = Since
    BY DEF Next, Tick, StartRun, Poll, Request, NextWindow, NextPart, Read, NextPage, Complete,
           PollFails, vars, history
  <2>2. lastRun' = lastRun \/ lastRun' = until
    BY DEF Next, Tick, StartRun, Poll, Request, NextWindow, NextPart, Read, NextPage, Complete,
           PollFails, vars, history
  <2>3. faults' = faults \/ (faults < MaxFaults /\ faults' = faults + 1)
    BY DEF Next, Tick, StartRun, Poll, Request, NextWindow, NextPart, Read, NextPage, Complete,
           PollFails, vars, history
  <2>4. Since \in 0..now
    BY SinceFacts
  <2> QED
    BY <1>0, <2>1, <2>2, <2>3, <2>4
<1> QED
  BY <1>1, <1>2, <1>3, <1>4 DEF HistoryTypes

Types == ClockTypes /\ RunTypes /\ HistoryTypes

LEMMA InvTypes ==
  ASSUME IInv
  PROVE  /\ Types
         /\ WindowInRun /\ AnswersInRun /\ InOrder /\ RunCovers /\ BaseReaches /\ EmptyRuns
         /\ NoneSkipped
  BY TypeParts DEF IInv, Types

LEMMA TypesStep ==
  ASSUME Types, [Next]_vars
  PROVE  Types'
  BY ClockTypesStep, RunTypesStep, HistoryTypesStep DEF Types

\* Every variable keeps its type: the window that is asked for begins before it ends, and
\* it ends no later than the run began.
THEOREM TypeCorrect == Spec => []TypeOK
<1>1. Init => Types
  <2> SUFFICES ASSUME Init
               PROVE  Types
    OBVIOUS
  <2>1. Regular(source)
    BY SourceFacts DEF Init
  <2>2. source.parts \in 1..2
    BY <2>1 DEF Regular
  <2> QED
    BY <2>2, ConstantFacts DEF Init, NoRun, Types, ClockTypes, RunTypes, HistoryTypes
<1>2. Types /\ [Next]_vars => Types'
  BY TypesStep
<1>3. Types => TypeOK
  BY TypeParts DEF Types
<1> QED
  BY <1>1, <1>2, <1>3, PTL DEF Spec

-----------------------------------------------------------------------------
(* The run. *)

\* The steps of a run, those that begin and end it apart, keep what it was asked from.
LEMMA BeginStays ==
  ASSUME UNCHANGED <<source, ckpt, until>>
  PROVE  Begin' = Begin
  BY DEF Begin

LEMMA StartRunFacts ==
  ASSUME IInv, StartRun
  PROVE  /\ pc = "idle" /\ pc' = "ask" /\ part' = 1 /\ until' = now
         /\ from' = Since /\ to' = WindowEnd(Since, now) /\ Begin' = Since
         /\ Since \in 0..now /\ answer = {} /\ mine = {}
         /\ base' = IF Continues THEN base ELSE Since
         /\ UNCHANGED <<source, now, events, ckpt, answer, mine, lastPos, got, leftOut, lastRun>>
<1>1. /\ pc = "idle" /\ pc' = "ask" /\ part' = 1 /\ until' = now
      /\ from' = Since /\ to' = WindowEnd(Since, now)
      /\ base' = IF Continues THEN base ELSE Since
      /\ UNCHANGED <<source, now, events, ckpt, answer, mine, lastPos, got, leftOut, lastRun>>
  BY DEF StartRun
<1>2. Types /\ answer = {} /\ mine = {}
  BY <1>1, InvTypes DEF AnswersInRun
<1>3. /\ Since \in 0..now
      /\ Since = IF ckpt > 0 THEN ckpt
                 ELSE IF source.initial = "lookback" THEN now - Lookback ELSE 0
  BY <1>2, SinceFacts DEF Types
<1>4. Begin' = Since
  BY <1>1, <1>3 DEF Begin
<1> QED
  BY <1>1, <1>2, <1>3, <1>4

LEMMA WindowInRunStep == IInv /\ [Next]_vars => WindowInRun'
<1> SUFFICES ASSUME IInv, [Next]_vars
             PROVE  WindowInRun'
  OBVIOUS
<1>0. /\ WindowInRun /\ now \in Nat /\ until \in Nat /\ to \in Nat /\ from \in Nat
      /\ to <= until /\ from <= to
  BY InvTypes, NumberFacts DEF Types
<1>1. CASE StartRun
  <2>1. /\ from' = Since /\ to' = WindowEnd(Since, now) /\ Begin' = Since /\ until' = now
        /\ Since \in Nat /\ Since <= now /\ source' = source
    BY <1>0, <1>1, StartRunFacts
  <2>2. source.special # "windows" => to' = now
    BY <1>0, <2>1, WindowEndFacts
  <2> QED
    BY <2>1, <2>2 DEF WindowInRun
<1>2. CASE NextWindow
  <2>1. /\ to < until /\ from' = to /\ pc # "idle" /\ UNCHANGED <<source, ckpt, until>>
    BY <1>2 DEF NextWindow, HasRead
  <2>2. Begin' = Begin /\ source.special = "windows" /\ Begin \in 0..from
    BY <1>0, <2>1, BeginStays DEF WindowInRun
  <2> QED
    BY <1>0, <2>1, <2>2 DEF WindowInRun
<1>3. CASE Complete \/ PollFails
  BY <1>3 DEF Complete, PollFails, ForgetRun, WindowInRun
<1>4. CASE UNCHANGED <<source, ckpt, from, to, until>> /\ (pc # "idle" \/ pc' = pc)
  <2>1. Begin' = Begin
    BY <1>4, BeginStays
  <2> QED
    BY <1>0, <1>4, <2>1 DEF WindowInRun
<1> QED
  BY <1>1, <1>2, <1>3, <1>4
     DEF Next, Tick, Poll, Request, NextPart, Read, NextPage, HasRead, runVars, vars

\* What an answer can be.
LEMMA FoundFacts ==
  ASSUME IInv, pc # "idle", NEW e \in Found, PassedByPoll(e)
  PROVE  /\ e \in events /\ e.time > ckpt
         /\ source.end = "second" => e.time <= ToSecond(until)
         /\ source.end = "exact" => e.time <= until
         /\ source.start = "file" => FileStart(e) + Period <= now
<1>1. /\ to \in Nat /\ until \in Nat /\ to <= until /\ e \in events /\ e.time \in Nat
      /\ ToSecond(to) <= ToSecond(until) /\ ToSecond(to) \in Nat /\ ToSecond(until) \in Nat
  <2>1. /\ to \in Nat /\ until \in Nat /\ to <= until /\ e \in events
    BY InvTypes, NumberFacts, AnswersAreFound DEF Types
  <2>2. e.time \in Nat
    BY <2>1, EventFacts DEF IInv
  <2> QED
    BY <2>1, <2>2, RoundFacts
<1>2. /\ source.end = "second" => e.time <= ToSecond(to)
      /\ source.end = "exact" => e.time <= to
      /\ source.start = "file" => FileStart(e) + Period <= now
  BY DEF Found, Covers
<1>3. e.time > ckpt
  BY DEF PassedByPoll
<1> QED
  BY <1>1, <1>2, <1>3

LEMMA AnswersInRunStep == IInv /\ [Next]_vars => AnswersInRun'
<1> SUFFICES ASSUME IInv, [Next]_vars
             PROVE  AnswersInRun'
  OBVIOUS
<1>0. /\ AnswersInRun /\ RunTypes /\ now \in Nat /\ until \in Nat /\ to \in Nat /\ ckpt \in Nat
      /\ source.end = "second" => source.start = "second"
      /\ Period \in Nat /\ source.parts \in 1..2
  BY InvTypes, NumberFacts, ConstantFacts DEF Types, Regular
<1>1. ASSUME NEW e \in mine \cup answer
      PROVE  e.time \in Nat /\ FileStart(e) = FileAt(e.time) /\ FileStart(e) \in Nat
  <2>1. e \in events
    BY <1>0 DEF RunTypes
  <2> QED
    BY <2>1, EventFacts, RoundFacts DEF IInv
<1>2. CASE Tick
  <2>1. /\ now' = now + 1
        /\ UNCHANGED <<source, ckpt, pc, until, answer, mine, lastPos>>
    BY <1>2 DEF Tick, runVars
  <2>2. FileAt(ckpt) \in Nat
    BY <1>0, RoundFacts
  <2> QED
    BY <1>0, <1>1, <2>1, <2>2 DEF AnswersInRun
<1>3. CASE StartRun
  <2>1. /\ pc' = "ask" /\ answer' = {} /\ mine' = {}
        /\ UNCHANGED <<source, now, ckpt>>
    BY <1>3, StartRunFacts
  <2> QED
    BY <1>0, <2>1 DEF AnswersInRun
<1>4. CASE Request
  <2>1. PICK S \in Answers : answer' = {e \in S : PassedByPoll(e)}
    BY <1>4 DEF Request
  <2>2. /\ pc = "ask" /\ pc' = "read"
        /\ UNCHANGED <<source, now, ckpt, until, mine, lastPos>>
    BY <1>4 DEF Request
  <2>3. \A e \in answer' : e \in Found /\ PassedByPoll(e)
    BY <2>1, AnswersAreFound
  <2>4. \A e \in answer' : /\ e.time > ckpt
                           /\ source.end = "second" => e.time <= ToSecond(until)
                           /\ source.end = "exact" => e.time <= until
                           /\ source.start = "file" => FileStart(e) + Period <= now
    BY <2>2, <2>3, FoundFacts
  <2> QED
    BY <1>0, <2>2, <2>4 DEF AnswersInRun
<1>5. CASE NextPage
  <2>1. /\ pc = "read" /\ answer' = {e \in Found \ mine : PassedByPoll(e)}
        /\ UNCHANGED <<source, now, ckpt, pc, until, mine, lastPos>>
    BY <1>5 DEF NextPage
  <2>2. \A e \in answer' : e \in Found /\ PassedByPoll(e)
    BY <2>1
  <2>3. \A e \in answer' : /\ e.time > ckpt
                           /\ source.end = "second" => e.time <= ToSecond(until)
                           /\ source.end = "exact" => e.time <= until
                           /\ source.start = "file" => FileStart(e) + Period <= now
    BY <2>1, <2>2, FoundFacts
  <2> QED
    BY <1>0, <2>1, <2>3 DEF AnswersInRun
<1>6. ASSUME NEW e \in answer, Read(e)
      PROVE  AnswersInRun'
  <2>1. /\ pc = "read" /\ answer' = answer \ {e} /\ mine' = mine \cup {e} /\ lastPos' = e.time
        /\ UNCHANGED <<source, now, ckpt, pc, until>>
    BY <1>6 DEF Read
  <2> QED
    BY <1>0, <2>1 DEF AnswersInRun
<1>7. CASE NextWindow \/ NextPart
  <2>1. /\ pc = "read" /\ pc' = "ask" /\ answer = {}
        /\ UNCHANGED <<source, now, ckpt, until, answer, mine, lastPos>>
    BY <1>7 DEF NextWindow, NextPart, HasRead
  <2>2. source.special # "none" \/ source.parts # 1
    <3>1. CASE NextWindow
      BY <1>0, <2>1, <3>1, InvTypes DEF NextWindow, WindowInRun
    <3>2. CASE NextPart
      BY <1>0, <3>2 DEF NextPart, RunTypes
    <3> QED
      BY <1>7, <3>1, <3>2
  <2> QED
    BY <1>0, <2>1, <2>2 DEF AnswersInRun
<1>8. CASE Complete \/ PollFails
  <2>1. /\ pc' = "idle" /\ answer' = {} /\ mine' = {} /\ UNCHANGED <<source, now>>
    BY <1>8 DEF Complete, PollFails, ForgetRun
  <2>2. ckpt' = ckpt \/ (mine # {} /\ ckpt' = lastPos)
    BY <1>8 DEF Complete, PollFails
  <2>3. mine # {} /\ source.start = "file" => FileAt(lastPos) + Period <= now
    BY <1>0, <1>1 DEF AnswersInRun
  <2> QED
    BY <1>0, <2>1, <2>2, <2>3 DEF AnswersInRun
<1>9. CASE UNCHANGED vars
  BY <1>0, <1>9 DEF AnswersInRun, vars, runVars
<1> QED
  BY <1>2, <1>3, <1>4, <1>5, <1>6, <1>7, <1>8, <1>9 DEF Next, Poll

\* An event that a page shows is one that the run asks for from its beginning.
LEMMA PageFacts ==
  ASSUME IInv, pc # "idle", source.special # "windows", NEW e \in Found
  PROVE  e \in events /\ e.part = part /\ Reaches(e, Begin)
<1>1. from = Begin
  BY InvTypes DEF WindowInRun
<1> QED
  BY <1>1 DEF Found, Covers, Reaches

LEMMA InOrderStep == IInv /\ [Next]_vars => InOrder'
<1> SUFFICES ASSUME IInv, [Next]_vars, source.order = "asc"
             PROVE  InOrder'
  <2>1. IInv /\ [Next]_vars => source' = source
    BY InvTypes, ClockTypesStep DEF Types
  <2> QED
    BY <2>1 DEF InOrder
<1>0. /\ \A e \in mine : e.time <= lastPos /\ \A f \in answer : e.time <= f.time
      /\ \A e \in got : e.time <= ckpt
      /\ mine \cap answer = {} /\ leftOut = {}
      /\ source.special = "none" /\ source.parts = 1 /\ source.start # "file"
      /\ source.end \in {"open", "once"} /\ RunTypes /\ HistoryTypes /\ AnswersInRun
  <2>1. Regular(source)
    BY InvTypes, NumberFacts DEF Types
  <2> QED
    BY <2>1, InvTypes DEF InOrder, Types, Regular
<1>1. \A e \in events : e.time \in Nat
  BY EventFacts DEF IInv
<1>2. CASE UNCHANGED <<ckpt, answer, mine, lastPos, got, leftOut>>
  BY <1>0, <1>2 DEF InOrder
<1>3. CASE Request
  <2>1. PICK S \in Answers : /\ answer' = {e \in S : PassedByPoll(e)}
                             /\ leftOut' = leftOut \cup (Found \ S)
    BY <1>3 DEF Request
  <2>2. pc = "ask" /\ UNCHANGED <<ckpt, mine, got>>
    BY <1>3 DEF Request
  <2>3. S = Found /\ mine = {}
    BY <1>0, <2>2, AnswersAreFound DEF AnswersInRun
  <2> QED
    BY <1>0, <2>1, <2>2, <2>3 DEF InOrder
<1>4. CASE NextPage
  <2>1. /\ pc = "read" /\ answer' = {e \in Found \ mine : PassedByPoll(e)}
        /\ UNCHANGED <<ckpt, mine, lastPos, got, leftOut>>
    BY <1>4 DEF NextPage, history
  <2>2. ASSUME NEW m \in mine, NEW f \in answer'
        PROVE  m.time <= f.time
    <3>1. f \in Found /\ f \notin mine /\ f.time > ckpt
      BY <2>1 DEF PassedByPoll
    <3>2. f \in events /\ f.part = part /\ Reaches(f, Begin)
      BY <1>0, <2>1, <3>1, PageFacts
    <3>3. m \in events /\ m.time \in Nat /\ f.time \in Nat
      BY <1>0, <1>1, <3>2 DEF RunTypes
    <3>4. CASE f \in answer
      BY <1>0, <3>4
    <3>5. CASE f \notin answer
      <4>1. f.time <= m.time => BeforeAnswer(f)
        BY <1>0 DEF BeforeAnswer
      <4>2. BeforeAnswer(f) => AskedFor(f)
        BY <2>1, <3>2 DEF AskedFor, Known
      <4>3. AskedFor(f) => f \in mine \cup answer \cup leftOut
        BY <2>1, <3>1, <3>2, InvTypes DEF RunCovers
      <4> QED
        BY <1>0, <3>1, <3>3, <3>5, <4>1, <4>2, <4>3
    <3> QED
      BY <3>4, <3>5
  <2> QED
    BY <1>0, <2>1, <2>2 DEF InOrder
<1>5. ASSUME NEW e \in answer, Read(e)
      PROVE  InOrder'
  <2>1. /\ answer' = answer \ {e} /\ mine' = mine \cup {e} /\ lastPos' = e.time
        /\ \A f \in answer : e.time <= f.time
        /\ UNCHANGED <<ckpt, got, leftOut>>
    BY <1>5 DEF Read, history
  <2>2. e.time \in Nat
    BY <1>0, <1>1 DEF RunTypes
  <2> QED
    BY <1>0, <2>1, <2>2 DEF InOrder
<1>6. CASE Complete \/ PollFails
  <2>1. answer' = {} /\ mine' = {} /\ leftOut' = leftOut
    BY <1>6 DEF Complete, PollFails, ForgetRun
  <2>2. CASE UNCHANGED <<ckpt, got>>
    BY <1>0, <2>1, <2>2 DEF InOrder
  <2>3. CASE Complete /\ mine # {}
    <3>1. ckpt' = lastPos /\ got' = got \cup mine
      BY <2>3 DEF Complete
    <3>2. PICK e \in mine : lastPos = e.time
      BY <1>0, <2>3 DEF AnswersInRun
    <3>3. lastPos \in Nat /\ lastPos > ckpt
      BY <1>0, <1>1, <3>2 DEF RunTypes, AnswersInRun
    <3>4. ckpt \in Nat /\ \A g \in got : g.time \in Nat
      BY <1>0, <1>1, InvTypes, NumberFacts DEF HistoryTypes, Types
    <3> QED
      BY <1>0, <2>1, <3>1, <3>3, <3>4 DEF InOrder
  <2> QED
    BY <1>6, <2>2, <2>3 DEF Complete, PollFails
<1> QED
  BY <1>2, <1>3, <1>4, <1>5, <1>6
     DEF Next, Poll, Tick, StartRun, NextWindow, NextPart, runVars, vars, history

LEMMA BaseReachesStep == IInv /\ [Next]_vars => BaseReaches'
<1> SUFFICES ASSUME IInv, [Next]_vars
             PROVE  BaseReaches'
  OBVIOUS
<1>0. BaseReaches
  BY InvTypes
<1>1. CASE StartRun
  <2>1. /\ until' = now /\ Begin' = Since /\ UNCHANGED <<source, now, ckpt, lastRun>>
        /\ base' = IF Continues THEN base ELSE Since
    BY <1>1, StartRunFacts
  <2>2. Reach' = Reach
    BY <2>1 DEF Reach
  <2> QED
    BY <2>1, <2>2 DEF BaseReaches, Continues
<1>2. CASE Complete \/ PollFails
  BY <1>2 DEF Complete, PollFails, ForgetRun, BaseReaches
<1>3. CASE UNCHANGED <<source, ckpt, until, base, lastRun>> /\ (pc # "idle" \/ pc' = pc)
  <2>1. Begin' = Begin /\ Reach' = Reach
    BY <1>3, BeginStays DEF Reach
  <2> QED
    BY <1>0, <1>3, <2>1 DEF BaseReaches
<1> QED
  BY <1>1, <1>2, <1>3
     DEF Next, Tick, Poll, Request, NextWindow, NextPart, Read, NextPage, HasRead, runVars, vars,
         history

\* What happens after now has not been asked for.
LEMMA NewerIsNotKnown ==
  ASSUME IInv, NEW e, e.time \in Nat, e.time > now, FileStart(e) = FileAt(e.time)
  PROVE  /\ \A t \in 0..now : ~BeforeEnd(e, t)
         /\ pc # "idle" => ~BeforeAnswer(e)
<1>0. now \in Nat /\ Period \in Nat /\ RunTypes /\ AnswersInRun
  BY InvTypes, NumberFacts, ConstantFacts DEF Types
<1>1. FileStart(e) \in Nat /\ FileStart(e) + Period > now
  <2>1. FileAt(e.time) \in Nat /\ e.time < FileAt(e.time) + Period
    BY RoundFacts
  <2> QED
    BY <1>0, <2>1
<1>2. ASSUME NEW t \in 0..now
      PROVE  ~BeforeEnd(e, t)
  <2>1. t \in Nat /\ t <= now /\ ToSecond(t) \in Nat /\ ToSecond(t) <= t
    BY <1>0, RoundFacts
  <2> QED
    BY <1>0, <1>1, <2>1 DEF BeforeEnd
<1>3. ASSUME NEW f \in mine \cup answer
      PROVE  ~(IF source.start = "file" THEN FileStart(e) <= FileStart(f) ELSE e.time <= f.time)
  <2>1. f \in events /\ f.time \in Nat /\ f.time <= now
    BY <1>0, EventFacts DEF RunTypes, IInv
  <2>2. FileStart(f) \in Nat
    BY <2>1, EventFacts, RoundFacts DEF IInv
  <2>3. source.start = "file" => FileStart(f) + Period <= now
    BY <1>0 DEF AnswersInRun
  <2> QED
    BY <1>0, <1>1, <2>1, <2>2, <2>3
<1> QED
  BY <1>2, <1>3 DEF BeforeAnswer

\* An event that is old enough and known to be before the end, or before an answer, is
\* one that the request finds, if an earlier window does not have it.
LEMMA CoveredOrBefore ==
  ASSUME IInv, pc # "idle", NEW e \in events, e.part = part, Reaches(e, Begin),
         BeforeEnd(e, to) \/ (/\ source.end \in {"open", "once"}
                              /\ source.start = "file" => FileStart(e) + Period <= now)
  PROVE  Covers(e) \/ (from > Begin /\ BeforeEnd(e, from))
<1>0. /\ from \in Nat /\ to \in Nat /\ to <= now /\ now \in Nat /\ Begin \in 0..from
      /\ Regular(source) /\ (source.special # "windows" => from = Begin)
      /\ e.time \in Nat /\ Period \in Nat /\ FileStart(e) \in Nat
  <2>1. /\ from \in Nat /\ to \in Nat /\ to <= now /\ now \in Nat
        /\ Regular(source) /\ Period \in Nat
    BY InvTypes, NumberFacts, ConstantFacts DEF Types
  <2>2. Begin \in 0..from /\ (source.special # "windows" => from = Begin)
    BY InvTypes DEF WindowInRun
  <2>3. e.time \in Nat /\ FileStart(e) \in Nat
    BY EventFacts, RoundFacts DEF IInv
  <2> QED
    BY <2>1, <2>2, <2>3
<1>1. /\ source.end = "second" => e.time <= ToSecond(to)
      /\ source.end = "exact" => e.time <= to
      /\ source.start = "file" => FileStart(e) + Period <= now
  BY <1>0 DEF BeforeEnd, Regular
<1>2. CASE from = Begin
  BY <1>1, <1>2 DEF Covers, Reaches
<1>3. CASE from # Begin
  <2>1. from > Begin /\ source.end \in {"second", "exact"} /\ source.start \in {"second", "exact"}
        /\ source.start = source.end
    BY <1>0, <1>3 DEF Regular
  <2>2. ToSecond(from) \in Nat
    BY <1>0, RoundFacts
  <2>3. CASE source.start = "second"
    <3>1. e.time >= ToSecond(from) => Covers(e)
      BY <1>1, <2>1, <2>3 DEF Covers
    <3>2. e.time < ToSecond(from) => BeforeEnd(e, from)
      BY <1>0, <2>1, <2>2, <2>3 DEF BeforeEnd
    <3> QED
      BY <1>0, <2>1, <2>2, <3>1, <3>2
  <2>4. CASE source.start = "exact"
    <3>1. e.time >= from => Covers(e)
      BY <1>1, <2>1, <2>4 DEF Covers
    <3>2. e.time < from => BeforeEnd(e, from)
      BY <1>0, <2>1, <2>4 DEF BeforeEnd
    <3> QED
      BY <1>0, <2>1, <3>1, <3>2
  <2> QED
    BY <2>1, <2>3, <2>4
<1> QED
  BY <1>2, <1>3

\* A source with several logs has an end, so that no answer says that another log's
\* events are known.
LEMMA PartFacts ==
  ASSUME IInv, NEW e \in events
  PROVE  /\ part \in 1..2 /\ e.part \in 1..2 /\ e.part <= source.parts /\ part <= source.parts
         /\ source.parts = 2 => source.end \notin {"open", "once"} /\ source.special # "windows"
         /\ source.parts \in 1..2
         /\ source.end = "open" => source.special = "none" /\ source.parts = 1
                                     /\ source.start # "file"
<1>1. /\ part \in 1..source.parts /\ Regular(source)
  BY InvTypes, NumberFacts DEF Types, RunTypes
<1>2. e.part \in 1..source.parts
  BY DEF IInv
<1> QED
  BY <1>1, <1>2 DEF Regular

LEMMA RunCoversStep == IInv /\ [Next]_vars => RunCovers'
<1> SUFFICES ASSUME IInv, [Next]_vars, pc' # "idle",
                    NEW e \in events', e.time > ckpt', Reaches(e, Begin)', AskedFor(e)'
             PROVE  e \in (mine \cup answer \cup leftOut)'
  BY DEF RunCovers
<1>0. source' = source /\ Types /\ RunCovers /\ WindowInRun /\ AnswersInRun
  BY InvTypes, ClockTypesStep DEF Types
<1>1. CASE StartRun
  <2>1. pc' = "ask" /\ part' = 1 /\ from' = Begin' /\ Since \in 0..now /\ now \in Nat
        /\ Begin' = Since /\ events' = events
    BY <1>0, <1>1, StartRunFacts, NumberFacts DEF Types
  <2>2. e.part \in 1..2
    BY <2>1, EventFacts DEF IInv
  <2> QED
    BY <2>1, <2>2 DEF AskedFor
<1>2. CASE Complete \/ PollFails
  BY <1>2 DEF Complete, PollFails, ForgetRun
<1> SUFFICES ASSUME ~StartRun, ~Complete, ~PollFails
             PROVE  e \in (mine \cup answer \cup leftOut)'
  BY <1>1, <1>2
<1>3. UNCHANGED <<source, ckpt, until>> /\ pc # "idle"
  BY DEF Next, Poll, Tick, Request, NextWindow, NextPart, Read, NextPage, HasRead, runVars, vars
<1>4. Begin' = Begin /\ Reaches(e, Begin) /\ e.time > ckpt
  <2>1. Begin' = Begin
    BY <1>3, BeginStays
  <2> QED
    BY <1>3, <2>1 DEF Reaches, ToSecond, FileStart
<1>5. e \in events /\ AskedFor(e) => e \in mine \cup answer \cup leftOut
  BY <1>0, <1>3, <1>4 DEF RunCovers
<1>6. ASSUME UNCHANGED <<mine \cup answer>>
      PROVE  /\ \A t : Known(e, t)' <=> Known(e, t)
             /\ UNCHANGED <<pc, from, to, part>> => AskedFor(e)
  <2>1. \A t : BeforeEnd(e, t)' <=> BeforeEnd(e, t)
    BY <1>3 DEF BeforeEnd, ToSecond, FileStart
  <2>2. BeforeAnswer(e)' <=> BeforeAnswer(e)
    BY <1>3, <1>6 DEF BeforeAnswer, FileStart
  <2>3. \A t : Known(e, t)' <=> Known(e, t)
    BY <2>1, <2>2 DEF Known
  <2>4. ASSUME UNCHANGED <<pc, from, to, part>>
        PROVE  AskedFor(e)
    BY <1>3, <1>4, <2>1, <2>2, <2>4 DEF AskedFor, Known
  <2> QED
    BY <2>3, <2>4
<1>7. CASE UNCHANGED vars
  <2>1. UNCHANGED <<mine \cup answer, mine, answer, leftOut, events, pc, from, to, part>>
    BY <1>7 DEF vars, runVars, history
  <2> QED
    BY <1>5, <1>6, <2>1
<1>8. CASE Tick
  <2>1. UNCHANGED <<mine \cup answer, mine, answer, leftOut, pc, from, to, part>>
    BY <1>8 DEF Tick, runVars, history
  <2>2. AskedFor(e)
    BY <1>6, <2>1
  <2>3. CASE e \in events
    BY <1>5, <2>1, <2>2, <2>3
  <2>4. CASE e \notin events
    <3>1. e.time = now' /\ now' = now + 1
      BY <1>8, <2>4 DEF Tick
    <3>2. now \in Nat /\ until \in 0..now /\ to \in 0..now /\ from \in 0..now
      BY <1>0, NumberFacts DEF Types
    <3>3. FileStart(e) = FileAt(e.time)
      BY DEF FileStart, FileAt
    <3>4. /\ \A t \in 0..now : ~BeforeEnd(e, t)
          /\ ~BeforeAnswer(e)
      BY <1>3, <3>1, <3>2, <3>3, NewerIsNotKnown
    <3> QED
      BY <2>2, <3>2, <3>4 DEF AskedFor, Known
  <2> QED
    BY <2>3, <2>4
<1>9. CASE Request
  <2>1. PICK S \in Answers : /\ answer' = {f \in S : PassedByPoll(f)}
                             /\ leftOut' = leftOut \cup (Found \ S)
    BY <1>9 DEF Request
  <2>2. /\ pc = "ask" /\ pc' = "read" /\ answer = {}
        /\ UNCHANGED <<now, events, from, to, part, mine>>
    BY <1>0, <1>9 DEF Request, AnswersInRun
  <2>3. AskedFor(e) => e \in (mine \cup answer \cup leftOut)'
    BY <1>5, <2>1, <2>2
  <2>4. Covers(e) => e \in (mine \cup answer \cup leftOut)'
    BY <1>4, <2>1, <2>2 DEF Found, PassedByPoll
  <2>5. \A t : BeforeEnd(e, t)' <=> BeforeEnd(e, t)
    BY <1>3 DEF BeforeEnd, ToSecond, FileStart
  <2>6. BeforeAnswer(e)' => /\ source.end \in {"open", "once"}
                            /\ source.start = "file" => FileStart(e) + Period <= now
    <3>1. ASSUME source.start = "file", NEW f \in (mine \cup answer)',
                 FileStart(e) <= FileStart(f)
          PROVE  FileStart(e) + Period <= now
      <4>1. AnswersInRun' /\ RunTypes'
        BY AnswersInRunStep, TypesStep, <1>0 DEF Types
      <4>2. FileStart(f) + Period <= now
        BY <1>3, <2>2, <3>1, <4>1 DEF AnswersInRun, FileStart
      <4>3. f \in events
        BY <2>2, <4>1 DEF RunTypes
      <4>4. FileStart(e) \in Nat /\ FileStart(f) \in Nat
        BY <2>2, <4>3, EventFacts, RoundFacts DEF IInv
      <4>5. Period \in Nat /\ now \in Nat
        BY <1>0, ConstantFacts, NumberFacts DEF Types
      <4> QED
        BY <3>1, <4>2, <4>4, <4>5
    <3> QED
      BY <1>3, <3>1 DEF BeforeAnswer, FileStart
  <2>7. CASE e.part < part
    <3>1. Known(e, until)' /\ UNCHANGED <<until>>
      BY <1>3, <2>2, <2>7, PartFacts DEF AskedFor
    <3>2. ~BeforeAnswer(e)'
      BY <2>2, <2>6, <2>7, PartFacts
    <3>3. BeforeEnd(e, until)
      BY <1>3, <2>5, <3>1, <3>2 DEF Known
    <3> QED
      BY <2>3, <2>7, <3>3 DEF AskedFor, Known
  <2>8. CASE ~(e.part < part)
    <3>1. e.part = part /\ (BeforeEnd(e, to) \/ BeforeAnswer(e)')
      BY <1>3, <2>2, <2>5, <2>8 DEF AskedFor, Known
    <3>2. Covers(e) \/ (from > Begin /\ BeforeEnd(e, from))
      BY <1>3, <1>4, <2>2, <2>6, <3>1, CoveredOrBefore
    <3>3. from > Begin /\ BeforeEnd(e, from) => AskedFor(e)
      BY <2>2, <3>1 DEF AskedFor, Known
    <3> QED
      BY <2>3, <2>4, <3>2, <3>3
  <2> QED
    BY <2>7, <2>8
<1>10. CASE NextPage
  <2>1. /\ source.end = "open" /\ answer' = {f \in Found \ mine : PassedByPoll(f)}
        /\ UNCHANGED <<events, mine>>
    BY <1>10 DEF NextPage
  <2>2. e \in events /\ e.part = part
    BY <2>1, PartFacts
  <2>3. from = Begin
    BY <1>0, <1>3, <2>1, <2>2, PartFacts DEF WindowInRun
  <2>4. Covers(e)
    BY <1>4, <2>1, <2>2, <2>3, PartFacts DEF Covers, Reaches
  <2> QED
    BY <1>4, <2>1, <2>2, <2>4 DEF Found, PassedByPoll
<1>11. ASSUME NEW f \in answer, Read(f)
       PROVE  e \in (mine \cup answer \cup leftOut)'
  <2>1. /\ answer' = answer \ {f} /\ mine' = mine \cup {f}
        /\ UNCHANGED <<events, pc, from, to, part, leftOut>>
    BY <1>11 DEF Read, history
  <2>2. UNCHANGED <<mine \cup answer>>
    BY <1>11, <2>1
  <2> QED
    BY <1>5, <1>6, <2>1, <2>2
<1>12. CASE NextWindow
  <2>1. /\ pc = "read" /\ pc' = "ask" /\ from' = to
        /\ UNCHANGED <<mine \cup answer, events, part, mine, answer, leftOut, until>>
    BY <1>12 DEF NextWindow, HasRead, history
  <2>2. \/ e.part < part /\ Known(e, until)'
        \/ e.part = part /\ Known(e, to)
    BY <1>3, <1>6, <2>1 DEF AskedFor, Known, BeforeEnd
  <2>3. AskedFor(e)
    BY <1>3, <1>6, <2>1, <2>2 DEF AskedFor
  <2> QED
    BY <1>5, <2>1, <2>3
<1>13. CASE NextPart
  <2>1. /\ pc = "read" /\ pc' = "ask" /\ part' = part + 1 /\ part < source.parts /\ to = until
        /\ UNCHANGED <<mine \cup answer, events, from, to, mine, answer, leftOut, until>>
    BY <1>13 DEF NextPart, HasRead, history
  <2>2. from = Begin /\ part \in Nat /\ e.part \in Nat
    <3>1. source.parts = 2 => source.special # "windows"
      BY <2>1, PartFacts
    <3>2. part \in 1..2 /\ e.part \in 1..2 /\ source.parts \in 1..2
      BY <2>1, PartFacts
    <3> QED
      BY <1>0, <1>3, <2>1, <3>1, <3>2 DEF WindowInRun
  <2>3. e.part < part + 1 /\ Known(e, until)
    <3>1. from \in Nat
      BY <1>0, NumberFacts DEF Types
    <3> QED
      BY <1>4, <1>6, <2>1, <2>2, <3>1 DEF AskedFor, Known, BeforeEnd
  <2>4. AskedFor(e)
    BY <2>1, <2>2, <2>3 DEF AskedFor
  <2> QED
    BY <1>5, <2>1, <2>4
<1> QED
  BY <1>7, <1>8, <1>9, <1>10, <1>11, <1>12, <1>13 DEF Next, Poll

-----------------------------------------------------------------------------
(* Between the runs. *)

\* A run begins early enough for every event that was promised and is not behind the
\* checkpoint, but for those that an empty run before it has been asked for.
LEMMA OldEnough ==
  ASSUME IInv, pc # "idle", NEW e \in events, Promised(e), ~NotNewer(e, ckpt)
  PROVE  /\ e.time > ckpt
         /\ Reaches(e, Begin) \/ e \in leftOut
<1>0. /\ ckpt \in Nat /\ base \in Nat /\ lastRun \in Nat /\ until \in Nat /\ now \in Nat
      /\ Begin \in Nat /\ Begin <= until /\ Regular(source)
      /\ Lookback \in Nat \ {0} /\ Period \in Nat \ {0}
      /\ BaseReaches /\ EmptyRuns
  <2>1. Types /\ Begin \in 0..from /\ BaseReaches /\ EmptyRuns
    BY InvTypes DEF WindowInRun
  <2>2. from \in Nat /\ from <= to /\ to <= until /\ to \in Nat
    BY <2>1, NumberFacts DEF Types
  <2> QED
    BY <2>1, <2>2, NumberFacts, ConstantFacts DEF Types
<1>1. /\ e.time \in Nat /\ e.time > 0 /\ FileStart(e) = FileAt(e.time)
      /\ FileStart(e) \in Nat /\ FileStart(e) <= e.time
  BY EventFacts, RoundFacts DEF IInv
<1>2. /\ ToSecond(Begin) \in Nat /\ ToSecond(Begin) <= Begin
      /\ ToSecond(base) \in Nat /\ ToSecond(base) <= base
      /\ ToSecond(lastRun) \in Nat /\ ToSecond(lastRun) <= lastRun
      /\ Begin <= lastRun => ToSecond(Begin) <= ToSecond(lastRun)
  BY <1>0, RoundFacts
<1>3. source.start = "file" => FileStart(e) > ckpt
  <2>1. FileAt(e.time) > FileAt(ckpt) => FileAt(e.time) > ckpt
    BY <1>0, <1>1, RoundFacts
  <2>2. FileAt(ckpt) \in Nat
    BY <1>0, RoundFacts
  <2> QED
    BY <1>0, <1>1, <2>1, <2>2 DEF NotNewer
<1>4. e.time > ckpt
  BY <1>0, <1>1, <1>3 DEF NotNewer
<1>5. CASE ckpt > 0
  <2>1. Begin = ckpt
    BY <1>5 DEF Begin
  <2> QED
    BY <1>0, <1>1, <1>2, <1>3, <1>4, <2>1 DEF Reaches
<1>6. CASE ckpt = 0 /\ source.initial # "lookback"
  <2>1. Begin = 0 /\ source.start \in {"after", "all"}
    BY <1>0, <1>6 DEF Begin, Regular
  <2> QED
    BY <1>1, <1>2, <1>4, <2>1 DEF Reaches
<1>7. CASE ckpt = 0 /\ source.initial = "lookback" /\ base = Begin
  <2>1. source.start \in {"second", "exact", "file"}
    BY <1>0, <1>7 DEF Regular
  <2> QED
    BY <1>0, <1>1, <1>2, <1>4, <1>7, <2>1 DEF Reaches, Promised
<1>8. CASE ckpt = 0 /\ source.initial = "lookback" /\ base # Begin
  <2>1. /\ Begin = until - Lookback /\ lastRun > 0 /\ until <= lastRun + Reach
        /\ source.start \in {"second", "exact", "file"}
    BY <1>0, <1>8 DEF Begin, BaseReaches, Regular
  <2>2. BeforeEnd(e, lastRun) => e \in leftOut
    BY <1>0, <1>8, <2>1 DEF EmptyRuns
  <2>3. CASE source.start = "file"
    <3>1. Begin <= lastRun - Period
      BY <1>0, <2>1, <2>3 DEF Reach
    <3>2. ~BeforeEnd(e, lastRun) => FileStart(e) > Begin
      BY <1>0, <1>1, <2>3, <3>1 DEF BeforeEnd
    <3> QED
      BY <1>0, <1>1, <1>2, <1>4, <2>2, <2>3, <3>2 DEF Reaches
  <2>4. CASE source.start # "file"
    <3>1. Begin <= lastRun
      BY <1>0, <2>1, <2>4 DEF Reach
    <3>2. /\ source.end = "second" /\ ~BeforeEnd(e, lastRun) => e.time > ToSecond(lastRun)
          /\ source.end # "second" /\ ~BeforeEnd(e, lastRun) => e.time > lastRun
      BY <1>0, <1>1, <1>2, <2>4 DEF BeforeEnd
    <3>3. source.end = "second" => source.start = "second"
      BY <1>0 DEF Regular
    <3> QED
      BY <1>0, <1>1, <1>2, <1>4, <2>1, <2>2, <2>4, <3>1, <3>2, <3>3 DEF Reaches
  <2> QED
    BY <2>3, <2>4
<1> QED
  BY <1>0, <1>4, <1>5, <1>6, <1>7, <1>8

\* A run that completes has read what it has asked for.
LEMMA CompleteRuns ==
  ASSUME IInv, Complete, NEW e \in events, Promised(e), ~NotNewer(e, ckpt), Known(e, until)
  PROVE  e \in mine \cup leftOut
<1>1. pc = "read" /\ answer = {} /\ to = until /\ part = source.parts
  BY DEF Complete, HasRead
<1>2. e.time > ckpt /\ (Reaches(e, Begin) \/ e \in leftOut)
  BY <1>1, OldEnough
<1>3. AskedFor(e)
  BY <1>1, PartFacts DEF AskedFor
<1> QED
  BY <1>1, <1>2, <1>3, InvTypes DEF RunCovers

LEMMA NothingYet ==
  ASSUME IInv, NEW e \in events, ckpt = 0
  PROVE  /\ source.start # "file" => ~NotNewer(e, ckpt)
         /\ source.start = "file" /\ FileStart(e) > 0 => ~NotNewer(e, ckpt)
<1>1. e.time \in Nat \ {0} /\ FileStart(e) \in Nat
  BY EventFacts, RoundFacts DEF IInv
<1>2. FileAt(0) = 0
  BY RoundFacts
<1> QED
  BY <1>1, <1>2 DEF NotNewer

LEMMA PromisedIsNotZero ==
  ASSUME IInv, NEW e \in events, ckpt = 0, NEW b \in Nat,
         source.start = "file" => FileStart(e) > ToSecond(b)
  PROVE  ~NotNewer(e, ckpt)
<1>1. ToSecond(b) \in Nat /\ FileStart(e) \in Nat
  BY EventFacts, RoundFacts DEF IInv
<1> QED
  BY <1>1, NothingYet

LEMMA EmptyRunsStep == IInv /\ [Next]_vars => EmptyRuns'
<1> SUFFICES ASSUME IInv, [Next]_vars, ckpt' = 0, lastRun' > 0,
                    (IF pc = "idle" THEN now ELSE until)' <= lastRun' + Reach',
                    NEW e \in events', Promised(e)', BeforeEnd(e, lastRun)'
             PROVE  e \in leftOut'
  BY DEF EmptyRuns
<1>0. /\ source' = source /\ Types /\ Types' /\ EmptyRuns /\ AnswersInRun
      /\ now \in Nat /\ until \in Nat /\ until <= now /\ lastRun \in Nat /\ ckpt \in Nat
      /\ lastRun <= now
  <2>1. Types /\ EmptyRuns /\ AnswersInRun
    BY InvTypes
  <2>2. source' = source /\ Types'
    BY <2>1, TypesStep, ClockTypesStep DEF Types
  <2> QED
    BY <2>1, <2>2, NumberFacts DEF Types, HistoryTypes
<1>1. Reach' = Reach /\ Reach \in Int
  BY <1>0, ConstantFacts DEF Reach
<1>2. /\ UNCHANGED <<base>> => Promised(e)
      /\ UNCHANGED <<lastRun>> => BeforeEnd(e, lastRun)
  BY <1>0 DEF Promised, BeforeEnd, FileStart, ToSecond
<1>3. CASE Complete
  <2>1. lastRun' = until /\ base' = base /\ events' = events /\ leftOut' = leftOut
    BY <1>3 DEF Complete, ForgetRun
  <2>2. mine = {} /\ ckpt = 0
    <3>1. mine = {} => ckpt' = ckpt
      BY <1>3 DEF Complete
    <3>2. ASSUME mine # {}
          PROVE  ckpt' > ckpt
      <4>1. PICK f \in mine : lastPos = f.time
        BY <1>0, <3>2 DEF AnswersInRun
      <4>2. ckpt' = f.time /\ f.time > ckpt
        BY <1>0, <1>3, <3>2, <4>1 DEF Complete, AnswersInRun
      <4> QED
        BY <4>2
    <3> QED
      BY <1>0, <3>1, <3>2
  <2>3. BeforeEnd(e, until)
    BY <1>0, <2>1 DEF BeforeEnd, FileStart, ToSecond
  <2>4. Promised(e) /\ base \in Nat
    BY <1>0, <1>2, <2>1, NumberFacts DEF Types
  <2>5. ~NotNewer(e, ckpt)
    BY <2>1, <2>2, <2>4, PromisedIsNotZero DEF Promised
  <2> QED
    BY <1>3, <2>1, <2>2, <2>3, <2>4, <2>5, CompleteRuns DEF Known
<1>4. CASE Tick
  <2>1. /\ now' = now + 1 /\ UNCHANGED <<ckpt, pc, until, lastRun, base, leftOut>>
    BY <1>4 DEF Tick, runVars, history
  <2>2. e \notin events => e.time = now'
    BY <1>4 DEF Tick
  <2>3. e \in events
    <3>1. FileStart(e) = FileAt(e.time)
      BY DEF FileStart, FileAt
    <3>2. e.time = now' => ~BeforeEnd(e, lastRun)
      BY <1>0, <2>1, <3>1, NewerIsNotKnown
    <3> QED
      BY <1>2, <2>1, <2>2, <3>2
  <2>4. (IF pc = "idle" THEN now ELSE until) <= lastRun + Reach
    BY <1>0, <1>1, <2>1
  <2> QED
    BY <1>0, <1>2, <2>1, <2>3, <2>4 DEF EmptyRuns
<1>5. CASE ~Complete /\ ~Tick
  <2>1. UNCHANGED <<events, now, ckpt, lastRun>> /\ leftOut \subseteq leftOut'
    BY <1>5 DEF Next, Poll, StartRun, Request, NextWindow, NextPart, Read, NextPage, PollFails,
                ForgetRun, vars, history
  <2>2. CASE StartRun
    <3>1. pc = "idle" /\ pc' = "ask" /\ until' = now /\ base' = IF Continues THEN base ELSE Since
      BY <2>2, StartRunFacts
    <3>2. Continues
      BY <1>1, <2>1, <3>1 DEF Continues
    <3> QED
      BY <1>0, <1>1, <1>2, <2>1, <3>1, <3>2 DEF EmptyRuns
  <2>3. CASE ~StartRun
    <3>1. /\ base' = base
          /\ \/ pc # "idle" /\ pc' = "idle"
             \/ UNCHANGED <<until>> /\ (pc = "idle" <=> pc' = "idle")
      BY <1>5, <2>3 DEF Next, Poll, Request, NextWindow, NextPart, Read, NextPage, PollFails,
                        ForgetRun, HasRead, vars, runVars, history
    <3>2. (IF pc' = "idle" THEN now ELSE until') <= lastRun + Reach
      BY <1>1, <2>1
    <3>3. (IF pc = "idle" THEN now ELSE until) <= lastRun + Reach
      <4>1. CASE pc # "idle" /\ pc' = "idle"
        BY <1>0, <1>1, <3>2, <4>1
      <4>2. CASE UNCHANGED <<until>> /\ (pc = "idle" <=> pc' = "idle")
        BY <3>2, <4>2
      <4> QED
        BY <3>1, <4>1, <4>2
    <3> QED
      BY <1>0, <1>2, <2>1, <3>1, <3>3 DEF EmptyRuns
  <2> QED
    BY <2>2, <2>3
<1> QED
  BY <1>3, <1>4, <1>5

LEMMA NoneSkippedStep == IInv /\ [Next]_vars => NoneSkipped'
<1> SUFFICES ASSUME IInv, [Next]_vars, NEW e \in events', Promised(e)', NotNewer(e, ckpt)'
             PROVE  e \in (got \cup leftOut)'
  BY DEF NoneSkipped
<1>0. /\ source' = source /\ Types /\ Types' /\ NoneSkipped /\ AnswersInRun
      /\ now \in Nat /\ ckpt \in Nat /\ ckpt <= now /\ base \in Nat /\ Period \in Nat
  <2>1. Types /\ NoneSkipped /\ AnswersInRun
    BY InvTypes
  <2>2. source' = source /\ Types'
    BY <2>1, TypesStep, ClockTypesStep DEF Types
  <2> QED
    BY <2>1, <2>2, NumberFacts, ConstantFacts DEF Types
<1>1. /\ UNCHANGED <<base>> => Promised(e)
      /\ \A t : NotNewer(e, t)' <=> NotNewer(e, t)
  BY <1>0 DEF Promised, NotNewer, FileStart, FileAt, ToSecond
<1>2. NotNewer(e, ckpt')
  BY <1>0 DEF NotNewer, FileStart, FileAt
<1>3. CASE Tick
  <2>1. now' = now + 1 /\ UNCHANGED <<ckpt, got, base, leftOut>>
    BY <1>3 DEF Tick, history
  <2>2. CASE e \in events
    BY <1>0, <1>1, <1>2, <2>1, <2>2 DEF NoneSkipped
  <2>3. CASE e \notin events
    <3>1. e.time = now + 1
      BY <1>3, <2>1, <2>3 DEF Tick
    <3>2. source.start = "file"
      BY <1>0, <1>2, <2>1, <3>1 DEF NotNewer
    <3>3. /\ FileStart(e) = FileAt(e.time) /\ FileAt(e.time) \in Nat /\ FileAt(ckpt) \in Nat
          /\ e.time < FileAt(e.time) + Period
      <4>1. FileStart(e) = FileAt(e.time)
        BY DEF FileStart, FileAt
      <4>2. e.time \in Nat
        BY <1>0, <3>1
      <4> QED
        BY <1>0, <4>1, <4>2, RoundFacts
    <3>4. FileStart(e) <= FileAt(ckpt)
      BY <1>2, <2>1, <3>2 DEF NotNewer
    <3>5. CASE ckpt > 0
      <4>1. FileAt(ckpt) + Period <= now
        BY <1>0, <3>2, <3>5 DEF AnswersInRun
      <4> QED
        BY <1>0, <3>1, <3>3, <3>4, <4>1
    <3>6. CASE ckpt = 0
      <4>1. FileAt(ckpt) = 0
        BY <3>6, RoundFacts
      <4>2. FileStart(e) > ToSecond(base) /\ ToSecond(base) \in Nat
        BY <1>0, <1>1, <2>1, <3>2, RoundFacts DEF Promised
      <4> QED
        BY <3>3, <3>4, <4>1, <4>2
    <3> QED
      BY <1>0, <3>5, <3>6
  <2> QED
    BY <2>2, <2>3
<1>4. CASE StartRun
  <2>1. /\ base' = (IF Continues THEN base ELSE Since) /\ Since \in Nat
        /\ UNCHANGED <<events, ckpt, got, leftOut>>
    BY <1>0, <1>4, StartRunFacts
  <2>2. CASE base' = base
    BY <1>1, <1>2, <2>1, <2>2 DEF NoneSkipped, IInv
  <2>3. CASE base' # base
    <3>1. ckpt = 0 /\ base' \in Nat
      BY <1>0, <2>1, <2>3 DEF Continues
    <3>2. source.start = "file" => FileStart(e) > ToSecond(base')
      BY <1>0 DEF Promised, FileStart, ToSecond
    <3> QED
      BY <1>2, <2>1, <3>1, <3>2, PromisedIsNotZero
  <2> QED
    BY <2>2, <2>3
<1>5. CASE Complete
  <2>1. /\ got' = got \cup mine /\ UNCHANGED <<events, base, leftOut>>
        /\ ckpt' = IF mine = {} THEN ckpt ELSE lastPos
    BY <1>5 DEF Complete, ForgetRun
  <2>2. CASE NotNewer(e, ckpt)
    BY <1>0, <1>1, <2>1, <2>2 DEF NoneSkipped
  <2>3. CASE ~NotNewer(e, ckpt)
    <3>1. mine # {} /\ ckpt' = lastPos
      BY <1>2, <2>1, <2>3
    <3>2. PICK f \in mine : lastPos = f.time
      BY <1>0, <3>1 DEF AnswersInRun
    <3>3. /\ e.time \in Nat /\ f.time \in Nat /\ FileStart(f) = FileAt(f.time)
          /\ until \in Nat /\ ToSecond(until) \in Nat /\ Regular(source)
      <4>1. f \in events
        BY <1>0 DEF Types, RunTypes
      <4>2. until \in Nat /\ Regular(source)
        BY <1>0, NumberFacts DEF Types
      <4> QED
        BY <2>1, <4>1, <4>2, EventFacts, RoundFacts DEF IInv
    <3>4. NotNewer(e, f.time)
      BY <1>2, <3>1, <3>2
    <3>5. CASE source.end \in {"open", "once"}
      <4>1. BeforeAnswer(e)
        BY <3>3, <3>4, <3>5 DEF BeforeAnswer, NotNewer
      <4> QED
        BY <1>1, <1>5, <2>1, <2>3, <4>1, CompleteRuns DEF Known
    <3>6. CASE source.end \in {"second", "exact"}
      <4>1. source.start # "file"
        BY <3>3, <3>6 DEF Regular
      <4>2. /\ source.end = "second" => f.time <= ToSecond(until)
            /\ source.end = "exact" => f.time <= until
        BY <1>0 DEF AnswersInRun
      <4>3. BeforeEnd(e, until)
        BY <3>3, <3>4, <3>6, <4>1, <4>2 DEF BeforeEnd, NotNewer
      <4> QED
        BY <1>1, <1>5, <2>1, <2>3, <4>3, CompleteRuns DEF Known
    <3> QED
      BY <3>3, <3>5, <3>6 DEF Regular
  <2> QED
    BY <2>2, <2>3
<1>6. CASE ~Tick /\ ~StartRun /\ ~Complete
  <2>1. UNCHANGED <<events, ckpt, got, base>> /\ leftOut \subseteq leftOut'
    BY <1>6 DEF Next, Poll, Request, NextWindow, NextPart, Read, NextPage, PollFails, ForgetRun,
                vars, history
  <2> QED
    BY <1>0, <1>1, <1>2, <2>1 DEF NoneSkipped
<1> QED
  BY <1>3, <1>4, <1>5, <1>6

-----------------------------------------------------------------------------
LEMMA Invariant == Spec => []IInv
<1>1. Init => IInv
  <2> SUFFICES ASSUME Init
               PROVE  IInv
    OBVIOUS
  <2>1. Regular(source)
    BY SourceFacts DEF Init
  <2>2. source.parts \in 1..2
    BY <2>1 DEF Regular
  <2>3. TypeOK /\ \A e \in events : e.part \in 1..source.parts
    BY <2>2, ConstantFacts DEF Init, NoRun, TypeOK
  <2>4. WindowInRun /\ AnswersInRun /\ InOrder
    BY DEF Init, NoRun, WindowInRun, AnswersInRun, InOrder
  <2>5. RunCovers /\ BaseReaches /\ EmptyRuns /\ NoneSkipped
    BY DEF Init, NoRun, RunCovers, BaseReaches, EmptyRuns, NoneSkipped
  <2> QED
    BY <2>3, <2>4, <2>5 DEF IInv
<1>2. IInv /\ [Next]_vars => IInv'
  <2> SUFFICES ASSUME IInv, [Next]_vars
               PROVE  IInv'
    OBVIOUS
  <2>1. Types'
    BY InvTypes, TypesStep
  <2>2. TypeOK' /\ \A e \in events' : e.part \in (1..source.parts)'
    BY <2>1 DEF Types, ClockTypes, RunTypes, HistoryTypes, TypeOK
  <2> QED
    BY <2>2, WindowInRunStep, AnswersInRunStep, InOrderStep, RunCoversStep, BaseReachesStep,
       EmptyRunsStep, NoneSkippedStep DEF IInv
<1> QED
  BY <1>1, <1>2, PTL DEF Spec

\* No promised event that is older than the checkpoint is unread, but for those that a
\* limit has cut off: neither the rounding of a window's bounds, nor windows asked for one
\* after the other, nor several logs, nor empty first runs leave a gap, for any of the
\* sources.
THEOREM NothingIsSkipped == Spec => []NothingSkipped
<1>1. IInv => NothingSkipped
  <2> SUFFICES ASSUME IInv, NEW e \in events, Promised(e), e.time <= ckpt
               PROVE  e \in got \cup leftOut
    BY DEF NothingSkipped
  <2>1. ckpt \in Nat /\ e.time \in Nat /\ FileStart(e) = FileAt(e.time)
    BY InvTypes, NumberFacts, EventFacts DEF IInv, Types
  <2>2. FileAt(e.time) <= FileAt(ckpt)
    BY <2>1, RoundFacts
  <2>3. NotNewer(e, ckpt)
    BY <2>1, <2>2 DEF NotNewer
  <2> QED
    BY <2>3, InvTypes DEF NoneSkipped
<1> QED
  BY <1>1, Invariant, PTL

\* A source that answers in order never has an event read by two complete runs, though its
\* request begins before the checkpoint.
THEOREM AscendingIsReadOnce == Spec => []AscendingReadOnce
<1>1. IInv => AscendingReadOnce
  <2> SUFFICES ASSUME IInv, source.order = "asc", NEW e \in mine, e \in got
               PROVE  FALSE
    BY DEF AscendingReadOnce
  <2>1. e.time > ckpt /\ e.time <= ckpt
    BY InvTypes DEF AnswersInRun, InOrder
  <2>2. ckpt \in Nat /\ e.time \in Nat
    BY InvTypes, NumberFacts, EventFacts DEF IInv, Types, RunTypes
  <2> QED
    BY <2>1, <2>2
<1> QED
  BY <1>1, Invariant, PTL
=============================================================================
