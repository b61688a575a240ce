---------------------------- MODULE DriverProofs ----------------------------
(* Proofs about Driver, for any number of files, any stems and any levels.  *)
EXTENDS Driver, TLAPS

-----------------------------------------------------------------------------
(* Log levels. *)

\* Before the first failing upload without an answer, no generator is left
\* suspended, and the level is the current run's or the process's.
LevelsInStep ==
  ~leaked =>
    /\ left = {}
    /\ pc = "collect" => saved = LogLevel /\ level = LevelFor(current, LogLevel)
    /\ pc # "collect" => level = LogLevel

LEMMA LevelsInStepStep == LevelsInStep /\ [Next]_vars => LevelsInStep'
<1> SUFFICES ASSUME LevelsInStep, [Next]_vars
             PROVE  LevelsInStep'
  OBVIOUS
<1> USE DEF LevelsInStep, LevelFor, Single, given, logs, Leave
<1>1. CASE \/ FatalConfig \/ NothingToRun \/ RefuseTarget \/ StartLoading
           \/ LoadNext \/ TargetNotLoaded \/ EndLoading \/ Finish
  BY <1>1 DEF FatalConfig, NothingToRun, RefuseTarget, StartLoading, LoadNext,
              TargetNotLoaded, EndLoading, Finish
<1>2. ASSUME NEW s \in Stems, BeginRun(s)
      PROVE  LevelsInStep'
  BY <1>2 DEF BeginRun
<1>3. CASE Drain
  BY <1>3 DEF Drain
<1>4. CASE EndRun
  BY <1>4 DEF EndRun
<1>5. CASE RunRaises
  BY <1>5 DEF RunRaises, Fail
<1>6. ASSUME NEW answered \in BOOLEAN, UploadFails(answered)
      PROVE  LevelsInStep'
  BY <1>6 DEF UploadFails, Fail
<1>7. CASE CollectGarbage
  BY <1>7 DEF CollectGarbage
<1>8. CASE UNCHANGED vars
  BY <1>8 DEF vars
<1> QED
  BY <1>1, <1>2, <1>3, <1>4, <1>5, <1>6, <1>7, <1>8 DEF Next

\* However runs end, each has its own level and leaves none behind, as long as every
\* failing upload was answered.
THEOREM LevelsAreKeptApart == Spec => []LevelsKeptApart
<1>1. Init => LevelsInStep
  BY DEF Init, LevelsInStep
<1>2. LevelsInStep => LevelsKeptApart
  BY DEF LevelsInStep, LevelsKeptApart, LevelsAsConfigured
<1> QED
  BY <1>1, <1>2, LevelsInStepStep, PTL DEF Spec

-----------------------------------------------------------------------------
(* Isolation of failures. *)

\* What has been loaded for a stem is a file with that stem.
Loading ==
  /\ mode \in Modes
  /\ \E found \in 0..MaxFiles : config \in [1..found -> FileConfigs]
  /\ index \in Nat
  /\ loaded \in [Stems -> Files \cup {NoFile}]
  /\ \A s \in Stems : loaded[s] # NoFile => config[loaded[s]].stem = s

\* What has been run was to be run, and is completed, failed or under way, and only one
\* of these; of --collector nothing has failed that did not end the process.
Running ==
  pc # "exit" =>
    /\ done \subseteq Runnable /\ (Single => failed = {})
    /\ done \subseteq Stems /\ failed \subseteq done
    /\ \A s \in done : loaded[s] # NoFile
    /\ pc \in {"start", "load"} => done = {}
    /\ \A f \in completed : \E s \in done : f = loaded[s]
    /\ \A s \in failed : loaded[s] \notin completed
    /\ pc \in {"collect", "drained"} =>
         \E s \in done : current = loaded[s] /\ s \notin failed /\ current \notin completed
    /\ \A s \in done : \/ loaded[s] \in completed \/ s \in failed
                       \/ pc \in {"collect", "drained"} /\ current = loaded[s]

IsolationInv == Loading /\ Running /\ FailuresIsolated

\* A file has a stem, and comes after no file.
LEMMA FileFacts ==
  ASSUME Loading
  PROVE  \A f \in Files : f \in Nat \ {0} /\ config[f].stem \in Stems
  BY DEF Loading, Files, FileConfigs

\* No two stems have the same file.
LEMMA LoadedApart ==
  ASSUME Loading, NEW s \in Stems, NEW t \in Stems, loaded[s] = loaded[t], loaded[s] # NoFile
  PROVE  s = t
  BY DEF Loading

LEMMA LoadingInit == Init => Loading
<1> SUFFICES ASSUME Init
             PROVE  Loading
  OBVIOUS
<1>1. PICK found \in 0..MaxFiles : config \in [1..found -> FileConfigs]
  BY DEF Init
<1>2. Files = 1..found /\ found \in Nat
  BY <1>1, DriverAssumption DEF Files
<1> QED
  BY <1>1, <1>2 DEF Init, Loading, NoFile

LEMMA LoadingStep == Loading /\ [Next]_vars => Loading'
<1> SUFFICES ASSUME Loading, [Next]_vars
             PROVE  Loading'
  OBVIOUS
<1>1. CASE LoadNext
  <2>1. UNCHANGED <<config, mode>> /\ index' = index + 1 /\ index + 1 \in Files
    BY <1>1 DEF LoadNext, given
  <2> DEFINE stem == config[index + 1].stem
  <2>2. stem \in Stems /\ index + 1 # NoFile
    BY <2>1, FileFacts DEF NoFile
  <2>3. loaded' \in {loaded, [loaded EXCEPT ![stem] = index + 1]}
    BY <1>1 DEF LoadNext
  <2> QED
    BY <2>1, <2>2, <2>3 DEF Loading, Files
<1>2. CASE ~LoadNext
  <2>1. UNCHANGED <<config, mode, index, loaded>>
    BY <1>2 DEF Next, FatalConfig, NothingToRun, RefuseTarget, StartLoading,
                TargetNotLoaded, EndLoading, BeginRun, Drain, EndRun, RunRaises,
                UploadFails, CollectGarbage, Finish, vars, given
  <2> QED
    BY <2>1 DEF Loading, Files
<1> QED
  BY <1>1, <1>2

\* What is to be run depends on what is loaded and on the command line.
LEMMA SameToRun ==
  ASSUME UNCHANGED <<mode, target, loaded>>
  PROVE  Runnable' = Runnable /\ (Single' <=> Single) /\ (DryMode' <=> DryMode)
  BY DEF Runnable, Single, DryMode

\* A run that ends with an exception: run_all goes on, with one failure more.
LEMMA FailStep ==
  ASSUME Loading, Running, FailuresIsolated, pc \in {"collect", "drained"}, Fail,
         UNCHANGED <<config, mode, target, loaded, done, completed>>
  PROVE  Running' /\ FailuresIsolated'
<1>1. PICK s \in done : current = loaded[s] /\ s \notin failed /\ current \notin completed
  BY DEF Running
<1>2. s \in Stems /\ config[current].stem = s /\ done \subseteq Stems
  BY <1>1 DEF Running, Loading
<1>3. CASE Single
  <2>1. pc' = "exit" /\ exit' = 1
    BY <1>3 DEF Fail, Leave
  <2>2. s \in Runnable' /\ loaded'[s] \notin completed' /\ Single' /\ mode' # "all"
    BY <1>1, <1>3, SameToRun DEF Running, Single
  <2> QED
    BY <2>1, <2>2 DEF Running, FailuresIsolated, Exited
<1>4. CASE ~Single
  <2>1. failed' = failed \cup {s} /\ pc' = "run" /\ current' = NoFile
    BY <1>2, <1>4 DEF Fail
  <2>2. \A r \in done : current = loaded[r] => r = s
    BY <1>1, <1>2, LoadedApart DEF Running
  <2> QED
    BY <1>1, <1>4, <2>1, <2>2, SameToRun DEF Running, FailuresIsolated, Exited
<1> QED
  BY <1>3, <1>4

LEMMA RunningStep ==
  ASSUME Loading, Running, FailuresIsolated, Next, ~Finish
  PROVE  Running' /\ FailuresIsolated'
<1> USE DEF Running, FailuresIsolated, Exited
<1>1. CASE FatalConfig \/ RefuseTarget \/ TargetNotLoaded
  BY <1>1 DEF FatalConfig, RefuseTarget, TargetNotLoaded, Leave
<1>2. CASE NothingToRun
  BY <1>2 DEF NothingToRun, Leave
<1>3. CASE StartLoading
  BY <1>3 DEF StartLoading
<1>4. CASE LoadNext
  BY <1>4 DEF LoadNext
<1>5. CASE EndLoading
  BY <1>5 DEF EndLoading
<1>6. ASSUME NEW s \in Stems, BeginRun(s)
      PROVE  Running' /\ FailuresIsolated'
  <2>1. /\ pc = "run" /\ pc' = "collect" /\ s \notin done /\ loaded[s] # NoFile
        /\ current' = loaded[s] /\ done' = done \cup {s} /\ s \in Runnable
        /\ UNCHANGED <<loaded, failed, completed>>
    BY <1>6 DEF BeginRun, Runnable
  <2>2. Runnable' = Runnable /\ (Single' <=> Single)
    BY <1>6, SameToRun DEF BeginRun, given
  <2>3. loaded[s] \notin completed /\ s \notin failed /\ s \in Stems
    BY <2>1, LoadedApart DEF Runnable
  <2> QED
    BY <2>1, <2>2, <2>3
<1>7. CASE Drain
  BY <1>7, SameToRun DEF Drain, given
<1>8. CASE EndRun
  <2>1. /\ pc \in {"collect", "drained"} /\ pc' = "run" /\ completed' = completed \cup {current}
        /\ UNCHANGED <<mode, target, loaded, done, failed>>
    BY <1>8 DEF EndRun, given
  <2>2. PICK s \in done : current = loaded[s] /\ s \notin failed
    BY <2>1
  <2>3. \A r \in failed : loaded[r] # current
    BY <2>1, <2>2, LoadedApart
  <2> QED
    BY <2>1, <2>2, <2>3, SameToRun
<1>9. CASE RunRaises
  BY <1>9, FailStep DEF RunRaises, given
<1>10. ASSUME NEW answered \in BOOLEAN, UploadFails(answered)
       PROVE  Running' /\ FailuresIsolated'
  BY <1>10, FailStep DEF UploadFails, given
<1>11. CASE CollectGarbage
  BY <1>11, SameToRun DEF CollectGarbage, given
<1> QED
  BY <1>1, <1>2, <1>3, <1>4, <1>5, <1>6, <1>7, <1>8, <1>9, <1>10, <1>11 DEF Next

LEMMA FinishIsolated ==
  ASSUME Loading, Running, Finish
  PROVE  Running' /\ FailuresIsolated'
<1>1. /\ pc = "run" /\ pc' = "exit" /\ Runnable \subseteq done
      /\ UNCHANGED <<config, mode, target, loaded, done, failed, completed>>
      /\ exit' = IF failed # {} /\ ~DryMode THEN 2 ELSE 0
  BY DEF Finish, Leave, given
<1>2. Runnable' = Runnable /\ (Single' <=> Single) /\ (DryMode' <=> DryMode)
  BY <1>1, SameToRun
<1>3. \A s \in Runnable : loaded[s] \in completed \/ s \in failed
  BY <1>1 DEF Running
<1>4. failed # {} <=> \E s \in Runnable : loaded[s] \notin completed
  <2>1. ASSUME NEW s \in failed
        PROVE  s \in Runnable /\ loaded[s] \notin completed
    BY <1>1 DEF Running
  <2>2. ASSUME NEW s \in Runnable, loaded[s] \notin completed
        PROVE  s \in failed
    BY <1>3, <2>2
  <2> QED
    BY <2>1, <2>2
<1>5. Single => failed = {}
  BY <1>1 DEF Running
<1>6. mode = "all" <=> ~Single /\ ~DryMode
  BY DEF Loading, Single, DryMode, Modes
<1>7. FailuresIsolated'
  BY <1>1, <1>2, <1>3, <1>4, <1>5, <1>6 DEF FailuresIsolated, Exited
<1> QED
  BY <1>1, <1>7 DEF Running

LEMMA IsolationHolds == Spec => []IsolationInv
<1>1. Init => IsolationInv
  BY LoadingInit DEF Init, IsolationInv, Running, FailuresIsolated, Exited
<1>2. IsolationInv /\ [Next]_vars => IsolationInv'
  <2>1. CASE UNCHANGED vars
    BY <2>1 DEF vars, given, IsolationInv, Loading, Running, FailuresIsolated,
                Exited, Files, Runnable, Single
  <2>2. CASE Next
    BY <2>2, LoadingStep, RunningStep, FinishIsolated DEF IsolationInv
  <2> QED
    BY <2>1, <2>2
<1> QED
  BY <1>1, <1>2, PTL DEF Spec

\* Whatever becomes of each, run_all runs every collector that has been loaded to its
\* end or to an exception of its own, and the exit code tells whether one raised.
THEOREM FailuresAreIsolated == Spec => []FailuresIsolated
<1>1. IsolationInv => FailuresIsolated
  BY DEF IsolationInv
<1> QED
  BY <1>1, IsolationHolds, PTL

-----------------------------------------------------------------------------
(* Types, with the one outcome of a run. *)

Levels == {LogLevel} \cup Overrides

LogTypes ==
  /\ {level, saved} \subseteq Levels
  /\ left \subseteq Files \X Levels /\ leaked \in BOOLEAN

\* A run that is completed is not among the failed, though two files may share a stem.
OneOutcome == \A f \in completed : config[f].stem \notin failed

RunTypes ==
  /\ mode \in Modes /\ target \in Stems
  /\ pc \in {"start", "load", "run", "collect", "drained", "exit"}
  /\ index \in Files \cup {0}
  /\ current \in Files \cup {NoFile}
  /\ done \subseteq Stems /\ failed \subseteq done
  /\ completed \subseteq Files
  /\ exit \in {0, 1, 2}

\* While a collector runs, its file is one of those found, the last loaded of a stem
\* that has been run and has neither failed nor completed.
LEMMA CurrentRun ==
  ASSUME Loading, Running, pc \in {"collect", "drained"}
  PROVE  /\ current \in Files /\ config[current].stem \in done
         /\ config[current].stem \notin failed /\ current \notin completed
         /\ \A f \in completed : config[f].stem # config[current].stem
<1>1. PICK s \in done : current = loaded[s] /\ s \notin failed /\ current \notin completed
  BY DEF Running
<1>2. s \in Stems /\ loaded[s] # NoFile /\ done \subseteq Stems
  BY <1>1 DEF Running
<1>3. current \in Files /\ config[current].stem = s
  BY <1>1, <1>2 DEF Loading
<1>4. ASSUME NEW f \in completed
      PROVE  config[f].stem # s
  <2>1. PICK t \in done : f = loaded[t]
    BY DEF Running
  <2>2. loaded[t] # NoFile
    BY DEF Running
  <2>3. config[f].stem = t
    BY <1>2, <2>1, <2>2 DEF Loading
  <2> QED
    BY <1>1, <2>1, <2>3
<1> QED
  BY <1>1, <1>3, <1>4

LEMMA LogTypesStep ==
  ASSUME Loading, Running, RunTypes, LogTypes, [Next]_vars
  PROVE  LogTypes'
<1> USE DEF LogTypes, logs
<1>1. UNCHANGED config /\ Files' = Files
  BY DEF Next, FatalConfig, NothingToRun, RefuseTarget, StartLoading, LoadNext,
         TargetNotLoaded, EndLoading, BeginRun, Drain, EndRun, RunRaises,
         UploadFails, CollectGarbage, Finish, vars, given, Files
<1>2. ASSUME NEW s \in Stems, BeginRun(s)
      PROVE  LogTypes'
  <2>1. loaded[s] \in Files
    BY <1>2 DEF BeginRun, Runnable, Loading
  <2>2. config[loaded[s]].log_level \in Overrides
    BY <2>1 DEF Loading, Files, FileConfigs
  <2>3. LevelFor(loaded[s], level) \in Levels
    BY <2>2 DEF LevelFor, Levels
  <2> QED
    BY <1>1, <1>2, <2>3 DEF BeginRun
<1>3. CASE Drain \/ EndRun \/ RunRaises
  BY <1>1, <1>3 DEF Drain, EndRun, RunRaises
<1>4. ASSUME NEW answered \in BOOLEAN, UploadFails(answered)
      PROVE  LogTypes'
  <2>1. current \in Files
    BY <1>4, CurrentRun DEF UploadFails
  <2> QED
    BY <1>1, <1>4, <2>1 DEF UploadFails
<1>5. CASE CollectGarbage
  <2>1. PICK g \in left : left' = left \ {g} /\ level' = g[2]
    BY <1>5 DEF CollectGarbage
  <2>2. g[2] \in Levels
    BY <2>1
  <2> QED
    BY <1>1, <1>5, <2>1, <2>2 DEF CollectGarbage
<1>6. CASE \/ FatalConfig \/ NothingToRun \/ RefuseTarget \/ StartLoading \/ LoadNext
           \/ TargetNotLoaded \/ EndLoading \/ Finish \/ UNCHANGED vars
  BY <1>1, <1>6 DEF FatalConfig, NothingToRun, RefuseTarget, StartLoading, LoadNext,
         TargetNotLoaded, EndLoading, Finish, vars
<1> QED
  BY <1>2, <1>3, <1>4, <1>5, <1>6 DEF Next

LEMMA RunTypesStep ==
  ASSUME Loading, Running, RunTypes, OneOutcome, [Next]_vars
  PROVE  RunTypes' /\ OneOutcome'
<1> USE DEF RunTypes, OneOutcome, given, Leave
<1>1. UNCHANGED given /\ Files' = Files
  BY DEF Next, FatalConfig, NothingToRun, RefuseTarget, StartLoading, LoadNext,
         TargetNotLoaded, EndLoading, BeginRun, Drain, EndRun, RunRaises,
         UploadFails, CollectGarbage, Finish, vars, Files
<1>2. CASE \/ FatalConfig \/ NothingToRun \/ RefuseTarget \/ StartLoading
           \/ TargetNotLoaded \/ EndLoading \/ CollectGarbage \/ Finish \/ UNCHANGED vars
  BY <1>1, <1>2 DEF FatalConfig, NothingToRun, RefuseTarget, StartLoading,
         TargetNotLoaded, EndLoading, CollectGarbage, Finish, vars
<1>3. CASE LoadNext
  BY <1>1, <1>3 DEF LoadNext
<1>4. ASSUME NEW s \in Stems, BeginRun(s)
      PROVE  RunTypes' /\ OneOutcome'
  <2>1. loaded[s] \in Files
    BY <1>4 DEF BeginRun, Runnable, Loading
  <2> QED
    BY <1>1, <1>4, <2>1 DEF BeginRun
<1>5. CASE Drain
  BY <1>1, <1>5 DEF Drain
<1>6. CASE EndRun
  <2>1. current \in Files /\ config[current].stem \notin failed
    BY <1>6, CurrentRun DEF EndRun
  <2> QED
    BY <1>1, <1>6, <2>1 DEF EndRun
<1>7. CASE RunRaises \/ \E answered \in BOOLEAN : UploadFails(answered)
  <2>1. Fail /\ UNCHANGED <<index, loaded, done, completed>> /\ pc \in {"collect", "drained"}
    BY <1>7 DEF RunRaises, UploadFails
  <2>2. /\ config[current].stem \in done
        /\ \A f \in completed : config[f].stem # config[current].stem
    BY <2>1, CurrentRun
  <2> QED
    BY <1>1, <2>1, <2>2 DEF Fail
<1> QED
  BY <1>2, <1>3, <1>4, <1>5, <1>6, <1>7 DEF Next

\* Every variable keeps its type, and no run is both completed and failed.
THEOREM TypeCorrect == Spec => []TypeOK
<1>1. Init => RunTypes /\ LogTypes /\ OneOutcome
  BY DEF Init, RunTypes, LogTypes, OneOutcome, Levels
<1>2. /\ Loading /\ Running /\ RunTypes /\ LogTypes /\ OneOutcome /\ [Next]_vars
      => (RunTypes /\ LogTypes /\ OneOutcome)'
  BY LogTypesStep, RunTypesStep
<1>3. Loading /\ RunTypes /\ LogTypes /\ OneOutcome => TypeOK
  BY DEF Loading, RunTypes, LogTypes, OneOutcome, Levels, TypeOK
<1> QED
  BY <1>1, <1>2, <1>3, IsolationHolds, PTL DEF Spec, IsolationInv
=============================================================================
