------------------------------ MODULE Sources ------------------------------
(***************************************************************************)
(* What the collectors ask of their sources (examples/*/poll_records): the *)
(* window of time that a run covers, how its bounds are rounded, and what  *)
(* follows from it for the next run's window.  The checkpoint filter of    *)
(* DeclarativeMappedCollector.poll and the checkpoint of run() are as in   *)
(* Pipeline; uploads are left out.                                         *)
(*                                                                         *)
(* Time is counted in ticks, and the events of a tick come before the      *)
(* requests made in it: that an event may come up later with a time that   *)
(* has been asked for is Pipeline's matter.                                *)
(***************************************************************************)
EXTENDS Naturals, FiniteSets

CONSTANTS
  Second,    \* the ticks of a second: strftime drops what is finer
  Lookback,  \* initial_lookback_seconds
  Window,    \* the 24 hours that Office 365 lets a request cover
  Period,    \* the time that a Salesforce log file covers
  Limit,     \* JaegerQueryCollector's limit
  MaxTime,   \* bound: the clock
  MaxEvents, \* bound: the number of events
  MaxFaults  \* bound: the runs that fail

ASSUME SourcesAssumption ==
  /\ Second \in Nat \ {0} /\ Limit \in Nat \ {0}
  /\ \A x \in {Lookback, Window, Period} : x \in Nat \ {0} /\ x % Second = 0
  /\ {MaxTime, MaxEvents, MaxFaults} \subseteq Nat /\ Lookback <= MaxTime

-----------------------------------------------------------------------------
(* A collector's poll_records:                                             *)
(*   start   what the request says of since: "second" (from the second     *)
(*           that since is in), "exact", "after" (behind the beginning of  *)
(*           that second), "file" (files begun after it), "all" (nothing)  *)
(*   end     what it says of now: "second", "exact", "open" (nothing, and  *)
(*           later pages show newer events), "once" (nothing, one answer)  *)
(*   order   "asc" iff the answer is sorted by time                        *)
(*   parts   the number of logs that are asked one by one                  *)
(*   special "windows" (split into windows of 24 hours), "limit" (only so  *)
(*           many events are returned), or "none"                          *)
(*   initial "lookback" or "all": where a run without a checkpoint starts  *)
Okta == [start |-> "second", end |-> "open", order |-> "asc", parts |-> 1,
         special |-> "none", initial |-> "lookback"]
GoogleCloud == Okta
EntraSignIns == Okta
Acme == [Okta EXCEPT !.order = "any"]
Azure == [Acme EXCEPT !.end = "second"]
GoogleWorkspace == [Azure EXCEPT !.parts = 2]
Office365 == [Azure EXCEPT !.special = "windows"]
AWS == [Azure EXCEPT !.start = "exact", !.end = "exact"]
Jaeger == [AWS EXCEPT !.special = "limit"]
Salesforce == [Acme EXCEPT !.start = "file", !.end = "once"]
JDBC == [Okta EXCEPT !.start = "after", !.end = "once", !.initial = "all"]
LogFile == [JDBC EXCEPT !.start = "all"]
ActiveDirectory == [LogFile EXCEPT !.order = "any"]
WindowsEventLog == ActiveDirectory
EntraAppSignIns == [ActiveDirectory EXCEPT !.end = "open"]

Collectors == {Okta, GoogleCloud, EntraSignIns, EntraAppSignIns, Acme, Azure,
               GoogleWorkspace, Office365, AWS, Jaeger, Salesforce, JDBC, LogFile,
               ActiveDirectory, WindowsEventLog}

VARIABLES
  source,    \* the collector
  now,       \* the clock
  events,    \* the events there are, each with its time and its log
  ckpt,      \* the checkpoint, 0 while there is none
  pc,        \* "idle", "ask", "read"
  from, to,  \* the window that is asked for
  until,     \* poll_records' now
  part,      \* the log that is asked for
  answer,    \* events answered, newer than the checkpoint and not yet read
  mine,      \* the events that this run has read
  lastPos,   \* run()'s last_position
  got,       \* history: the events read by complete runs
  leftOut,   \* history: the events that a limit cut off an answer
  base,      \* history: the time from which on nothing should be missed
  lastRun,   \* history: when the last complete run began, 0 if there is none
  faults     \* history: the number of runs that have failed

runVars == <<from, to, until, part, answer, mine, lastPos>>
history == <<got, leftOut, base, lastRun, faults>>
vars == <<source, now, events, ckpt, pc, runVars, history>>

NoRun == from = 0 /\ to = 0 /\ until = 0 /\ part = 1 /\ answer = {}
           /\ mine = {} /\ lastPos = 0

\* There is no event before the clock starts.
Init ==
  /\ source \in Collectors
  /\ now = Lookback /\ events = {} /\ ckpt = 0
  /\ pc = "idle" /\ NoRun
  /\ got = {} /\ leftOut = {} /\ base = 0 /\ lastRun = 0 /\ faults = 0

Tick ==
  /\ now < MaxTime
  /\ now' = now + 1
  /\ \E S \in SUBSET (1..source.parts) :
       events' = events \cup {[time |-> now', part |-> p] : p \in S}
  /\ Cardinality(events') <= MaxEvents
  /\ UNCHANGED <<source, ckpt, pc, runVars, history>>

-----------------------------------------------------------------------------
ToSecond(t) == t - (t % Second)
FileStart(e) == e.time - (e.time % Period)
Earlier(a, b) == IF a < b THEN a ELSE b

Since == CASE ckpt > 0 -> ckpt
           [] ckpt = 0 /\ source.initial = "lookback" -> now - Lookback
           [] OTHER -> 0

WindowEnd(start, end) ==
  IF source.special = "windows" THEN Earlier(start + Window, end) ELSE end

\* Without a checkpoint a run covers what has happened since the last one if
\* that one is not too long ago; a log file is published when it is complete.
Reach == IF source.start = "file" THEN Lookback - Period ELSE Lookback
Continues == ckpt > 0 \/ (lastRun > 0 /\ now <= lastRun + Reach)

StartRun ==
  /\ pc = "idle"
  /\ pc' = "ask"
  /\ from' = Since /\ until' = now /\ to' = WindowEnd(Since, now)
  /\ part' = 1
  /\ base' = IF Continues THEN base ELSE Since
  /\ UNCHANGED <<source, now, events, ckpt, answer, mine, lastPos, got, leftOut,
                 lastRun, faults>>

Covers(e) ==
  /\ e.part = part
  /\ source.start = "second" => e.time >= ToSecond(from)
  /\ source.start = "exact" => e.time >= from
  /\ source.start = "after" => e.time > ToSecond(from)
  /\ source.start = "file" => /\ FileStart(e) > ToSecond(from)
                              /\ FileStart(e) + Period <= now
  /\ source.end = "second" => e.time <= ToSecond(to)
  /\ source.end = "exact" => e.time <= to

\* Mutant: a record of the checkpoint's own time is new.
PassedByPollTies(e) == e.time >= ckpt

PassedByPoll(e) == e.time > ckpt

Found == {e \in events : Covers(e)}

Answers ==
  IF source.special = "limit" /\ Cardinality(Found) > Limit
  THEN {S \in SUBSET Found : Cardinality(S) = Limit}
  ELSE {Found}

Request ==
  /\ pc = "ask"
  /\ pc' = "read"
  /\ \E S \in Answers : /\ answer' = {e \in S : PassedByPoll(e)}
                        /\ leftOut' = leftOut \cup (Found \ S)
  /\ UNCHANGED <<source, now, events, ckpt, from, to, until, part, mine, lastPos,
                 got, base, lastRun, faults>>

\* The next page of a request without an end.  Where the pages are not in order, too,
\* it is taken to have what has come up since: one that were entered into a page already
\* read would be a late record, which is Pipeline's matter.
NextPage ==
  /\ pc = "read" /\ source.end = "open"
  /\ answer' = {e \in Found \ mine : PassedByPoll(e)}
  /\ UNCHANGED <<source, now, events, ckpt, pc, from, to, until, part, mine,
                 lastPos, history>>

Read(e) ==
  /\ pc = "read" /\ e \in answer
  /\ source.order = "asc" => \A f \in answer : e.time <= f.time
  /\ answer' = answer \ {e}
  /\ mine' = mine \cup {e}
  /\ lastPos' = e.time
  /\ UNCHANGED <<source, now, events, ckpt, pc, from, to, until, part, history>>

HasRead == pc = "read" /\ answer = {}

\* Mutant: the windows do not meet.
NextWindowApart ==
  /\ HasRead /\ to < until
  /\ from' = Earlier(to + Second, until) /\ to' = WindowEnd(to, until)
  /\ pc' = "ask"
  /\ UNCHANGED <<source, now, events, ckpt, until, part, answer, mine, lastPos,
                 history>>

\* Mutant: the last window goes beyond the end.
NextWindowBeyond ==
  /\ HasRead /\ to < until
  /\ from' = to /\ to' = to + Window
  /\ pc' = "ask"
  /\ UNCHANGED <<source, now, events, ckpt, until, part, answer, mine, lastPos,
                 history>>

NextWindow ==
  /\ HasRead /\ to < until
  /\ from' = to /\ to' = WindowEnd(to, until)
  /\ pc' = "ask"
  /\ UNCHANGED <<source, now, events, ckpt, until, part, answer, mine, lastPos,
                 history>>

\* Mutant: every log is asked for up to the time of its own request.
NextPartAfresh ==
  /\ HasRead /\ to = until /\ part < source.parts
  /\ part' = part + 1
  /\ to' = now /\ until' = now
  /\ pc' = "ask"
  /\ UNCHANGED <<source, now, events, ckpt, from, answer, mine, lastPos, history>>

\* All logs are asked for the same window.
NextPart ==
  /\ HasRead /\ to = until /\ part < source.parts
  /\ part' = part + 1
  /\ pc' = "ask"
  /\ UNCHANGED <<source, now, events, ckpt, from, to, until, answer, mine, lastPos,
                 history>>

ForgetRun ==
  /\ pc' = "idle"
  /\ from' = 0 /\ to' = 0 /\ until' = 0 /\ part' = 1 /\ answer' = {}
  /\ mine' = {} /\ lastPos' = 0
  /\ UNCHANGED <<source, now, events>>

Complete ==
  /\ HasRead /\ to = until /\ part = source.parts
  /\ ckpt' = IF mine = {} THEN ckpt ELSE lastPos
  /\ got' = got \cup mine
  /\ lastRun' = until
  /\ ForgetRun
  /\ UNCHANGED <<leftOut, base, faults>>

PollFails ==
  /\ pc # "idle" /\ faults < MaxFaults
  /\ faults' = faults + 1
  /\ ForgetRun
  /\ UNCHANGED <<ckpt, got, leftOut, base, lastRun>>

Poll == \/ Request \/ NextWindow \/ NextPart \/ Complete
        \/ \E e \in answer : Read(e)

Next == Tick \/ StartRun \/ Poll \/ NextPage \/ PollFails

Spec == Init /\ [][Next]_vars

FairSpec == Spec /\ WF_vars(Tick) /\ WF_vars(StartRun) /\ WF_vars(Poll)

-----------------------------------------------------------------------------
AllEvents == [time : Lookback..MaxTime, part : 1..2]

TypeOK ==
  /\ source \in Collectors
  /\ now \in Lookback..MaxTime
  /\ events \subseteq AllEvents /\ \A e \in events : e.time <= now
  /\ ckpt \in 0..now
  /\ pc \in {"idle", "ask", "read"}
  /\ from \in 0..to /\ to \in 0..until /\ until \in 0..now
  /\ part \in 1..source.parts
  /\ answer \subseteq events /\ mine \subseteq events
  /\ lastPos \in {0} \cup {e.time : e \in mine}
  /\ got \subseteq events /\ leftOut \subseteq events
  /\ base \in 0..now /\ lastRun \in 0..now
  /\ faults \in 0..MaxFaults

\* What has happened after the first run's window began: later runs are late
\* only if they come more than a lookback apart.
Promised(e) == IF source.start = "file" THEN FileStart(e) > ToSecond(base)
                                        ELSE e.time >= base

\* No event is older than the checkpoint and unread, unless a limit cut it off:
\* neither the rounding of the bounds, nor windows, nor logs asked one after the
\* other, nor empty first runs leave a gap.
NothingSkipped ==
  \A e \in events : Promised(e) /\ e.time <= ckpt => e \in got \cup leftOut

\* A source that answers in order has no event read by two complete runs, though
\* its window begins before the checkpoint.
AscendingReadOnce == source.order = "asc" => mine \cap got = {}

\* The last window that the clock allows covers e.
WithinTime(e) ==
  /\ source.end = "second" => e.time <= ToSecond(MaxTime)
  /\ source.start = "file" => FileStart(e) + Period <= MaxTime

\* Runs that follow each other read every event in the end.
EveryEventIsRead ==
  \A e \in AllEvents :
    e \in events /\ WithinTime(e) ~> e \in got \cup leftOut \/ ~Promised(e)
=============================================================================
