-------------------------------- MODULE Command --------------------------------
(***************************************************************************)
(* One invocation of the program (src/internal/cli/cli.go): the test and   *)
(* validate commands, their early exits, the signals they take, the report *)
(* file and the exit code.  The processes a command waits for are modelled *)
(* in full: ConfigValidation, and the VersionQuery that precedes a real    *)
(* run.  What a run itself concludes is any outcome; CollectorRun, RealPath*)
(* and FixtureRun say which ones are right.                                *)
(***************************************************************************)
EXTENDS ConfigValidation, VersionQuery

VARIABLES
  mode,          \* "fixture" or "otelcol" for test, or "validate"
  opts,          \* --report, --fail-on-warn and --validate-collector
  at,            \* the next step of the command
  interrupted,   \* the context of signal.NotifyContext has ended
  warned,        \* result.RunnerWarnings is not empty
  checks,        \* the statuses of the report's checks
  file,          \* the report file: "old", "torn" or a status of this run
  code           \* the exit code once at = "exited", 130 if a signal ended it

commandVars == <<mode, opts, at, interrupted, warned, checks, file, code>>
vars        == <<validationVars, queryVars, commandVars>>

E == INSTANCE Evidence WITH
       Records <- {}, Inputs <- {}, Policies <- {}, MaxSeries <- 1,
       input <- {}, output <- {}, policy <- {}, broken <- FALSE, unreliable <- {},
       real <- mode = "otelcol", runFailed <- checks = {"ERROR"},
       failOnWarn <- opts.strict

TypeOK ==
  /\ ValidationTypeOK /\ QueryTypeOK
  /\ mode \in {"fixture", "otelcol", "validate"}
  /\ opts \in [report : BOOLEAN, strict : BOOLEAN, validate : BOOLEAN]
  /\ at \in {"parse", "validation", "load", "run", "query", "execute", "evaluate",
             "report", "write", "writing", "exited"}
  /\ interrupted \in BOOLEAN /\ warned \in BOOLEAN
  /\ checks \subseteq {"PASS", "FAIL", "INCONCLUSIVE", "WARN", "ERROR"}
  /\ file \in {"old", "torn", "PASS", "FAIL", "INCONCLUSIVE", "WARN", "ERROR"}
  /\ code \in {0, 1, 2, 3, 4, 130}

Init ==
  /\ InitValidation /\ InitQuery
  /\ mode \in {"fixture", "otelcol", "validate"}
  /\ opts \in [report : BOOLEAN, strict : BOOLEAN, validate : BOOLEAN]
  /\ at = "parse" /\ interrupted = FALSE /\ warned = FALSE
  /\ checks = {} /\ file = "old" /\ code = 0

-----------------------------------------------------------------------------
(* Ends and signals                                                        *)

Exit(c) == at' = "exited" /\ code' = c

\* SIGINT or SIGTERM.  The test command has taken them over once its flags
\* are checked: they end the context, and nothing else.  The default action
\* ends a validate command and leaves its validator to itself.
Interrupt ==
  /\ at # "exited" /\ ~interrupted
  /\ interrupted' = TRUE
  /\ IF at = "parse" \/ mode = "validate"
       THEN Exit(130) /\ UNCHANGED validationVars
       ELSE /\ CancelValidation
            /\ UNCHANGED <<at, code, validator, vstatus, killed, holders, unread, watch, verdict>>
  /\ UNCHANGED <<queryVars, mode, opts, warned, checks, file>>

-----------------------------------------------------------------------------
(* The command's own steps                                                 *)

\* Flags: a usage error, a binary that is not given, timeouts that make no
\* sense.  The source configuration of a real run is never validated.
ParseFlags ==
  /\ at = "parse"
  /\ \/ Exit(2)
     \/ /\ at' = IF mode = "validate" \/ (opts.validate /\ mode = "fixture")
                   THEN "validation" ELSE "load"
        /\ UNCHANGED code
  /\ UNCHANGED <<validationVars, queryVars, mode, opts, interrupted, warned, checks, file>>

Validate ==
  /\ at = "validation"
  /\ StartValidation(interrupted)
  /\ UNCHANGED <<queryVars, commandVars>>

Validated ==
  /\ at = "validation" /\ verdict # "none"
  /\ IF verdict # "pass" THEN Exit(2)
     ELSE IF mode = "validate" THEN Exit(0)
     ELSE at' = "load" /\ UNCHANGED code
  /\ UNCHANGED <<validationVars, queryVars, mode, opts, interrupted, warned, checks, file>>

\* The policy, the fixture and runner.New.
Load ==
  /\ at = "load"
  /\ Exit(2) \/ (at' = "run" /\ UNCHANGED code)
  /\ UNCHANGED <<validationVars, queryVars, mode, opts, interrupted, warned, checks, file>>

\* An unreadable configuration ends the fixture runner with no report.
RunFixture ==
  /\ at = "run" /\ mode = "fixture"
  /\ \/ Exit(3) /\ UNCHANGED warned
     \/ at' = "evaluate" /\ warned' \in BOOLEAN /\ UNCHANGED code
  /\ UNCHANGED <<validationVars, queryVars, mode, opts, interrupted, checks, file>>

\* A real run that failed is still reported.
RunFails ==
  /\ at' = "report" /\ checks' = {"ERROR"}
  /\ UNCHANGED <<warned, code>>

\* Everything of the real run before the version query.
Prepare ==
  /\ at = "run" /\ mode = "otelcol"
  /\ RunFails \/ (~interrupted /\ at' = "query" /\ UNCHANGED <<warned, checks, code>>)
  /\ UNCHANGED <<validationVars, queryVars, mode, opts, interrupted, file>>

QueryVersion ==
  /\ at = "query" /\ Query
  /\ UNCHANGED <<validationVars, commandVars>>

\* Mutant of VersionQueried: the query's error is dropped.
VersionUnchecked ==
  /\ at = "query" /\ pc = "returned"
  /\ RunFails \/ (~interrupted /\ at' = "execute" /\ UNCHANGED <<warned, checks, code>>)
  /\ UNCHANGED <<validationVars, queryVars, mode, opts, interrupted, file>>

\* The run's context is looked at once the query has returned; a query that
\* failed by itself leaves a warning.
VersionQueried ==
  /\ at = "query" /\ pc = "returned"
  /\ \/ RunFails
     \/ /\ ~interrupted
        /\ at' = "execute" /\ warned' = (answer # "version")
        /\ UNCHANGED <<checks, code>>
  /\ UNCHANGED <<validationVars, queryVars, mode, opts, interrupted, file>>

\* The rest of the real run up to its last look at the context: an interrupt
\* before it is an error, a later one goes unnoticed.
Execute ==
  /\ at = "execute"
  /\ RunFails \/ (~interrupted /\ at' = "evaluate" /\ UNCHANGED <<warned, checks, code>>)
  /\ UNCHANGED <<validationVars, queryVars, mode, opts, interrupted, file>>

\* Only the evidence requirements of a real run make a check inconclusive.
Evaluate ==
  /\ at = "evaluate"
  /\ \E S \in SUBSET ({"PASS", "FAIL"} \cup IF mode = "otelcol" THEN {"INCONCLUSIVE"} ELSE {}) :
       /\ S # {}
       /\ checks' = S \cup (IF warned THEN {"WARN"} ELSE {})
  /\ at' = "report"
  /\ UNCHANGED <<validationVars, queryVars, mode, opts, interrupted, warned, file, code>>

Report ==
  /\ at = "report"
  /\ IF opts.report THEN at' = "write" /\ UNCHANGED code ELSE Exit(E!ExitCode(checks))
  /\ UNCHANGED <<validationVars, queryVars, mode, opts, interrupted, warned, checks, file>>

\* os.WriteFile truncates the file it could open.
OpenReport ==
  /\ at = "write"
  /\ \/ Exit(2) /\ UNCHANGED file
     \/ at' = "writing" /\ file' = "torn" /\ UNCHANGED code
  /\ UNCHANGED <<validationVars, queryVars, mode, opts, interrupted, warned, checks>>

\* Mutant of WriteReport: a failed write is printed and forgotten.
WriteReportAnyway ==
  /\ at = "writing"
  /\ file' \in {"torn", E!OverallStatus(checks)}
  /\ Exit(E!ExitCode(checks))
  /\ UNCHANGED <<validationVars, queryVars, mode, opts, interrupted, warned, checks>>

WriteReport ==
  /\ at = "writing"
  /\ \/ Exit(2) /\ UNCHANGED file
     \/ file' = E!OverallStatus(checks) /\ Exit(E!ExitCode(checks))
  /\ UNCHANGED <<validationVars, queryVars, mode, opts, interrupted, warned, checks>>

-----------------------------------------------------------------------------
Steps ==
  \/ ParseFlags \/ Validate \/ Validated \/ Load \/ RunFixture \/ Prepare
  \/ QueryVersion \/ VersionQueried \/ Execute \/ Evaluate
  \/ Report \/ OpenReport \/ WriteReport

\* The processes, a validator left behind included; exec's goroutines and
\* stop run in the command and end with it.
Validator  == at # "parse" /\ ValidatorSteps /\ UNCHANGED <<queryVars, commandVars>>
Exec       == at # "exited" /\ ExecSteps /\ UNCHANGED <<queryVars, commandVars>>
Deadline   == at # "exited" /\ DeadlinePasses /\ UNCHANGED <<queryVars, commandVars>>
Collector  == P!GroupNext /\ UNCHANGED <<validationVars, callVars, commandVars>>
Wait       == at # "exited" /\ P!WaitNext /\ UNCHANGED <<validationVars, callVars, commandVars>>
Stop       == at # "exited" /\ P!StopNext /\ UNCHANGED <<validationVars, callVars, commandVars>>

Next == Steps \/ Interrupt \/ Validator \/ Exec \/ Deadline \/ Collector \/ Wait \/ Stop

Spec == Init /\ [][Next]_vars

\* The command and its goroutines run, the validation's deadline passes and
\* SIGKILL takes effect.  Nothing is assumed of the programs it starts.
Fairness ==
  /\ WF_vars(Steps) /\ WF_vars(Stop) /\ WF_vars(Deadline)
  /\ WF_vars(at # "exited" /\ CopyOutput /\ UNCHANGED <<queryVars, commandVars>>)
  /\ WF_vars(Exec /\ unread' = unread)
  /\ WF_vars(killed /\ ValidatorExits("signal") /\ UNCHANGED <<queryVars, commandVars>>)

FairSpec == Spec /\ Fairness

-----------------------------------------------------------------------------
(* Properties *)

\* CI reads two things, the exit code and the file: a 0, 1 or 4 comes with
\* this run's complete report and agrees with its overall status ("When
\* execution fails after valid input loading, --report still writes an ERROR
\* report"); a 2 never leaves a complete report of a run that counts for
\* nothing, and without --report the file is not touched.
ReportMatchesExit ==
  (at = "exited" /\ mode # "validate" /\ code # 130) =>
    IF ~opts.report THEN file = "old"
    ELSE CASE code = 0 -> file \in {"PASS", "WARN"}
           [] code = 1 -> file = "FAIL" \/ (opts.strict /\ warned /\ file \in {"PASS", "WARN"})
           [] code = 2 -> file \in {"old", "torn"}
           [] code = 3 -> file = IF mode = "otelcol" THEN "ERROR" ELSE "old"
           [] code = 4 -> file = "INCONCLUSIVE"

\* A strict real run that passes knows which Collector it judged: whatever
\* went wrong with the version query, on whichever path it ended, the gate
\* does not say 0.
StrictPassNamesVersion ==
  (at = "exited" /\ code = 0 /\ mode = "otelcol" /\ opts.strict) =>
    answer = "version" /\ status = "zero"

\* Every command ends, with fairness only on itself, if the validator's
\* descendants give its output up in the end: the deadline does not reach
\* them and Run of exec waits for them without a bound.
CommandEnds == <>[](holders = {}) => <>(at = "exited")
=============================================================================
