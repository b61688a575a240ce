------------------------------- MODULE Driver -------------------------------
(***************************************************************************)
(* One process from start to exit code: main (__main__.py) in the four     *)
(* modes that run collectors, load_collectors and run_all (discovery.py),  *)
(* and the log level that run() (base.py) sets and restores around each    *)
(* collector.  What goes on in a run, its uploads and its checkpoint, is    *)
(* Pipeline's matter: here it drains its source, is cut off, or fails in    *)
(* one of its parts.                                                       *)
(***************************************************************************)
EXTENDS Naturals

CONSTANTS
  MaxFiles,   \* bound: the collector files found
  Stems,      \* their file names without the suffix, which may coincide
  LogLevel,   \* the process's LOG_LEVEL; INFO in a dry run, which does not read it
  Overrides   \* the values of log_level in a .json, Inherit among them

ASSUME DriverAssumption ==
  /\ MaxFiles \in Nat
  /\ LogLevel \in Nat /\ Overrides \subseteq Nat

NoFile == 0

\* Levels as Python numbers them.  Inherit stands for no log_level, and for a name
\* that getLevelName does not know.
Inherit == 0

\* What load_collectors makes of a file.  "unloadable" stands for all that it
\* logs and skips: a malformed .json, a failing import, no create_collector, one
\* that raises, and one that returns something else than a collector.
Dispositions == {"loads", "disabled", "unloadable"}

\* A file's .json as far as the driver looks at it.  Of a file that is not loaded
\* nothing but its stem matters.
FileConfigs ==
  {c \in [stem : Stems, disposition : Dispositions, dry_run : BOOLEAN,
          log_level : Overrides] :
     c.disposition # "loads" => ~c.dry_run /\ c.log_level = Inherit}

Modes == {"all", "one", "dry", "dry_one"}   \* --collector is "one", --dry-run "dry"

VARIABLES
  config,     \* the .json of each file found, in path order
  mode,       \* the command line
  target,     \* the name given with --collector
  pc,         \* "start", "load", "run" (between collectors), "collect" (a
              \* generator is running or suspended), "drained" (it has ended, the
              \* last batch is still to go out), "exit"
  index,      \* the files load_collectors has gone through
  loaded,     \* load_collectors' collectors: the file behind each stem
  current,    \* the file whose collector is run
  done,       \* the stems that have been run, the current one included
  failed,     \* summary.failed
  level,      \* the level of the package's logger
  saved,      \* _saved_level of the current run
  left,       \* generators that failed uploads have left suspended, each with its
              \* _saved_level
  leaked,     \* history: whether there has been one
  completed,  \* history: the files whose runs ended without an exception
  exit        \* the exit code

Files == DOMAIN config

given == <<config, mode, target>>
logs == <<level, saved, left, leaked>>
vars == <<given, pc, index, loaded, current, done, failed, logs, completed, exit>>

Init ==
  /\ \E found \in 0..MaxFiles : config \in [1..found -> FileConfigs]
  /\ mode \in Modes
  /\ target \in Stems
  /\ pc = "start"
  /\ index = 0 /\ loaded = [s \in Stems |-> NoFile]
  /\ current = NoFile /\ done = {} /\ failed = {}
  /\ level = LogLevel /\ saved = LogLevel
  /\ left = {} /\ leaked = FALSE
  /\ completed = {}
  /\ exit = 0

DryMode == mode \in {"dry", "dry_one"}
Single == mode \in {"one", "dry_one"}

Leave(code) == pc' = "exit" /\ exit' = code

\* A configuration error, or no COLLECTORS_DIR.
FatalConfig ==
  /\ pc = "start"
  /\ Leave(1)
  /\ UNCHANGED <<given, index, loaded, current, done, failed, logs, completed>>

Named(s) == {f \in Files : config[f].stem = s}

\* --collector names a file that is not there, or whose .json disables it; of
\* files with one stem the first is looked at.
TargetRefused ==
  /\ Single
  /\ \A f \in Named(target) :
       (\A g \in Named(target) : f <= g) => config[f].disposition = "disabled"

NothingToRun ==
  /\ pc = "start" /\ Files = {}
  /\ Leave(0)
  /\ UNCHANGED <<given, index, loaded, current, done, failed, logs, completed>>

RefuseTarget ==
  /\ pc = "start" /\ Files # {} /\ TargetRefused
  /\ Leave(1)
  /\ UNCHANGED <<given, index, loaded, current, done, failed, logs, completed>>

StartLoading ==
  /\ pc = "start" /\ Files # {} /\ ~TargetRefused
  /\ pc' = "load"
  /\ UNCHANGED <<given, index, loaded, current, done, failed, logs, completed, exit>>

\* Disabled and unloadable files are skipped; a later file takes the place of an
\* earlier one with its stem.
LoadNext ==
  /\ pc = "load" /\ index + 1 \in Files
  /\ index' = index + 1
  /\ loaded' = IF config[index + 1].disposition = "loads"
               THEN [loaded EXCEPT ![config[index + 1].stem] = index + 1]
               ELSE loaded
  /\ UNCHANGED <<given, pc, current, done, failed, logs, completed, exit>>

Loads(f) == config[f].disposition = "loads"

Runnable == {s \in Stems : loaded[s] # NoFile /\ (Single => s = target)}

\* --collector finds the file among the discovered ones but not among the loaded.
TargetNotLoaded ==
  /\ pc = "load" /\ index + 1 \notin Files
  /\ Single /\ loaded[target] = NoFile
  /\ Leave(1)
  /\ UNCHANGED <<given, index, loaded, current, done, failed, logs, completed>>

EndLoading ==
  /\ pc = "load" /\ index + 1 \notin Files
  /\ Single => loaded[target] # NoFile
  /\ pc' = "run"
  /\ UNCHANGED <<given, index, loaded, current, done, failed, logs, completed, exit>>

\* run_all substitutes a DryRunUploader where the .json says so; a collector that
\* --collector runs goes to run_and_upload with the uploader main has built.
PrintsOnly(f) == DryMode \/ (mode = "all" /\ config[f].dry_run)

-----------------------------------------------------------------------------
\* The level that run() sets: only run_all hands log_level on to the collector.
LevelFor(f, before) ==
  IF Single \/ config[f].log_level = Inherit THEN before ELSE config[f].log_level

\* A dict keeps the place in which a key was first entered: of two stems, the one of
\* the earlier file comes first, even where a later file has taken that one's place.
Before(s, t) == \E f \in Named(s) : Loads(f) /\ \A g \in Named(t) : Loads(g) => f < g

\* run() begins, in the order of the dict of collectors, and the override is in force.
BeginRun(s) ==
  /\ pc = "run" /\ s \in Runnable \ done
  /\ \A t \in Runnable \ (done \cup {s}) : Before(s, t)
  /\ pc' = "collect"
  /\ current' = loaded[s] /\ done' = done \cup {s}
  /\ saved' = level /\ level' = LevelFor(loaded[s], level)
  /\ UNCHANGED <<given, index, loaded, failed, left, leaked, completed, exit>>

\* The source is exhausted, and run()'s finally clause restores the level.
Drain ==
  /\ pc = "collect"
  /\ pc' = "drained" /\ level' = saved
  /\ UNCHANGED <<given, index, loaded, current, done, failed, saved, left, leaked,
                 completed, exit>>

\* run_and_upload returns.  When --limit has cut the run its generator is closed
\* by that, and restores the level.
EndRun ==
  /\ pc \in {"collect", "drained"}
  /\ pc' = "run" /\ current' = NoFile
  /\ completed' = completed \cup {current}
  /\ level' = IF pc = "collect" THEN saved ELSE level
  /\ UNCHANGED <<given, index, loaded, done, failed, saved, left, leaked, exit>>

\* run_all records the failure and goes on; --collector lets the exception
\* through, and an uncaught exception ends the interpreter with 1.
Fail ==
  /\ current' = NoFile
  /\ IF Single THEN Leave(1) /\ UNCHANGED failed
               ELSE /\ failed' = failed \cup {config[current].stem}
                    /\ pc' = "run" /\ UNCHANGED exit

\* Mutants: a failed run does not restore the level, or ends the run of all.
RunRaisesAtLevel ==
  /\ pc = "collect" /\ Fail
  /\ UNCHANGED <<given, index, loaded, done, logs, completed>>

RunRaisesForAll ==
  /\ pc = "collect"
  /\ level' = saved /\ current' = NoFile
  /\ failed' = failed \cup {config[current].stem}
  /\ Leave(IF Single THEN 1 ELSE 2)
  /\ UNCHANGED <<given, index, loaded, done, saved, left, leaked, completed>>

\* An exception from within run() passes its finally clause.
RunRaises ==
  /\ pc = "collect" /\ Fail
  /\ level' = saved
  /\ UNCHANGED <<given, index, loaded, done, saved, left, leaked, completed>>

\* Mutant: a run that fails in its last upload is counted as completed.
UploadFailsCounted(answered) ==
  /\ pc \in {"collect", "drained"} /\ (answered \/ ~PrintsOnly(current))
  /\ Fail
  /\ level' = IF answered /\ pc = "collect" THEN saved ELSE level
  /\ left' = IF ~answered /\ pc = "collect" THEN left \cup {<<current, saved>>} ELSE left
  /\ leaked' = (leaked \/ left' # left)
  /\ completed' = completed \cup {current}
  /\ UNCHANGED <<given, index, loaded, done, saved>>

\* An exception from upload() leaves the generator suspended at its yield.  When
\* the API has answered, or where upload() only prints and the print or json.dumps()
\* has raised, nothing but the exception refers to the generator, and it is closed
\* with the except clause.  A request without an answer raises from
\* within urllib3, whose frames and exceptions refer to each other: the generator
\* stays until the garbage collector finds them.
UploadFails(answered) ==
  /\ pc \in {"collect", "drained"} /\ (answered \/ ~PrintsOnly(current))
  /\ Fail
  /\ level' = IF answered /\ pc = "collect" THEN saved ELSE level
  /\ left' = IF ~answered /\ pc = "collect" THEN left \cup {<<current, saved>>} ELSE left
  /\ leaked' = (leaked \/ left' # left)
  /\ UNCHANGED <<given, index, loaded, done, saved, completed>>

\* The collector finds a generator and closes it, whoever is running.
CollectGarbage ==
  /\ pc # "exit"
  /\ \E g \in left : left' = left \ {g} /\ level' = g[2]
  /\ UNCHANGED <<given, pc, index, loaded, current, done, failed, saved, leaked,
                 completed, exit>>

\* A dry run does not look at the failures.
Finish ==
  /\ pc = "run" /\ Runnable \subseteq done
  /\ Leave(IF failed # {} /\ ~DryMode THEN 2 ELSE 0)
  /\ UNCHANGED <<given, index, loaded, current, done, failed, logs, completed>>

Next == \/ FatalConfig \/ NothingToRun \/ RefuseTarget \/ StartLoading
        \/ LoadNext \/ TargetNotLoaded \/ EndLoading
        \/ \E s \in Stems : BeginRun(s)
        \/ Drain \/ EndRun \/ RunRaises
        \/ \E answered \in BOOLEAN : UploadFails(answered)
        \/ CollectGarbage
        \/ Finish

Spec == Init /\ [][Next]_vars

-----------------------------------------------------------------------------
\* A run has one outcome.
TypeOK ==
  /\ \E found \in 0..MaxFiles : config \in [1..found -> FileConfigs]
  /\ mode \in Modes /\ target \in Stems
  /\ pc \in {"start", "load", "run", "collect", "drained", "exit"}
  /\ index \in Files \cup {0}
  /\ loaded \in [Stems -> Files \cup {NoFile}]
  /\ current \in Files \cup {NoFile}
  /\ done \subseteq Stems /\ failed \subseteq done
  /\ {level, saved} \subseteq {LogLevel} \cup Overrides
  /\ left \subseteq Files \X ({LogLevel} \cup Overrides) /\ leaked \in BOOLEAN
  /\ completed \subseteq Files
  /\ \A f \in completed : config[f].stem \notin failed
  /\ exit \in {0, 1, 2}

Exited == pc = "exit"

\* One collector's failure keeps no other from running: when run_all is through, each
\* collector that was loaded has been run to its end or to an exception of its own, and
\* the exit code tells whether there was an exception, or is 0 of a dry run.  With
\* --collector the exception is the process's own.  (Of the files that were not loaded,
\* or that others have replaced, the code says nothing, and neither does this.)
FailuresIsolated ==
  Exited /\ done # {} =>
    LET raised == \E s \in Runnable : loaded[s] \notin completed IN
    /\ ~Single => \A s \in Runnable : loaded[s] \in completed \/ s \in failed
    /\ exit = CASE raised /\ Single -> 1
                [] raised /\ mode = "all" -> 2
                [] OTHER -> 0

LevelsAsConfigured ==
  level = IF pc = "collect" THEN LevelFor(current, LogLevel) ELSE LogLevel

\* However runs end, by the source, a limit or an exception, each one has its own
\* log level and leaves none behind, as long as every failing upload was answered.
LevelsKeptApart == ~leaked => LevelsAsConfigured

\* The override is scoped to the collector's run() and restored automatically on
\* exit, even if the collector raises: one without a log_level of its own runs at
\* the process's.
OverrideIsScoped ==
  pc = "collect" /\ LevelFor(current, Inherit) = Inherit => level = LogLevel

=============================================================================
