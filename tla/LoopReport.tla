------------------------------- MODULE LoopReport -------------------------------
(***************************************************************************)
(* The comparison report of R1 and R2                                      *)
(* (scripts/loop7b/build_sft_loop15_report.py), built while the            *)
(* orchestrator of EvaluationJobs may be running, killed or started again: *)
(* it reads the artifacts one after the other and puts down what is        *)
(* missing or wrong.  Job 1 of the plan is the dev evaluation of the last  *)
(* point of R1, the last job a fixed diagnostic; settings 1 are those of   *)
(* the report's contract, and their twins may pass for them.  The other    *)
(* artifacts do not change meanwhile.                                      *)
(***************************************************************************)
EXTENDS EvaluationJobs, Sequences, FiniteSetsExt, Functions

CONSTANTS
  Points,         \* ITERATIONS
  ReportInvocations, \* bound: calls of the orchestrator until the report is there
  Gaps,           \* bound: other states whose row may be missing
  Curves,         \* bound: values of the metric at the points of a branch
  NoNumber        \* None in the place of a metric

ASSUME ReportAssumption ==
  /\ 1 <= DevJobs /\ DevJobs < AllJobs
  /\ Points \in Seq(Nat) /\ Len(Points) >= 2 /\ Points[1] = 0
  /\ \A n \in 1 .. Len(Points) - 1 : Points[n] < Points[n + 1]
  /\ \A curve \in Curves : curve \in Seq(Int) /\ Len(curve) = Len(Points)
  /\ NoNumber \notin Int
  /\ ReportInvocations \in Nat

Branches == {"r1", "r2"}
ReportStates == Branches \X DOMAIN Points
R0 == <<"r1", 1>>
DevState == <<"r1", Len(Points)>>
DiagnosticJob == AllJobs
Contract == {c \in Commands : Like(c, 1)}

VARIABLES
  report,       \* the artifact that is read next
  issues,       \* the severities of the issues so far
  available,    \* the states whose row has metrics
  diagnosed,    \* has the row of the diagnostic job?
  launch,       \* orchestrator_job.json as it was read: settings, 0 when absent
  read_writers, \* history: by job, the commands that had written what was read
  comparisons,  \* of the metric: by state, None where there is no row; and what is made of it
  exit_code

reportVars == <<report, issues, available, diagnosed, launch, read_writers, comparisons, exit_code>>

NoComparisons ==
  [rows |-> [s \in ReportStates |-> NoNumber], pointwise |-> [n \in DOMAIN Points |-> NoNumber],
   auc |-> [b \in Branches |-> NoNumber], auc_delta |-> NoNumber]

ReportInit ==
  /\ report = "start"
  /\ issues = {} /\ available = {} /\ diagnosed = FALSE /\ launch = 0
  /\ read_writers = [j \in Plan |-> {}]
  /\ comparisons = NoComparisons
  /\ exit_code = 0

-----------------------------------------------------------------------------
\* _issue and _safe_load: an artifact that is absent or not JSON.
Issue(severity) == issues' = issues \cup {severity}
ReportGoes(from, to) == report = from /\ report' = to

\* The task list, the historical row of R0 and the rows of the other states.
ReportStarts ==
  /\ ReportGoes("start", "summary")
  /\ \E missing \in {{}} \cup {{s} : s \in Gaps}, wrong \in BOOLEAN :
       /\ available' = ReportStates \ ({DevState} \cup missing)
       /\ issues' = (IF missing = {} THEN {} ELSE {"missing"})
                    \cup (IF wrong THEN {"error"} ELSE {})
                    \cup (IF R0 \in missing THEN {} ELSE {"warning"})
  /\ UNCHANGED <<diagnosed, launch, read_writers, comparisons, exit_code>>

\* summary.json of the dev job: absent, half written, or the one row of the state.
\* Without it the provenance is not looked at.
ReadSummary ==
  /\ report = "summary"
  /\ IF directory[1].whole
     THEN /\ report' = "launch"
          /\ available' = available \cup {DevState}
          /\ read_writers' = [read_writers EXCEPT ![1] = directory[1].writers]
          /\ UNCHANGED issues
     ELSE /\ report' = "manifest"
          /\ \/ Issue("missing")
             \/ directory[1].writers # {} /\ Issue("error")
          /\ UNCHANGED <<available, read_writers>>
  /\ UNCHANGED <<diagnosed, launch, comparisons, exit_code>>

\* orchestrator_job.json of a job, then orchestrator_complete.json, which must be of
\* the command launched; of a dev job most options of that command as well.
ReadLaunch(site, next, job) ==
  /\ ReportGoes(site, next)
  /\ launch' = directory[job].launch
  /\ \/ (launch' = 0 \/ (Dev(job) /\ launch' # 1)) /\ Issue("error")
     \/ launch' # 0 /\ (Dev(job) => launch' \in Contract) /\ UNCHANGED issues
  /\ UNCHANGED <<available, diagnosed, read_writers, comparisons, exit_code>>

\* Mutant of ReadCompletion: a marker that is absent is only missing.
ReadCompletion_missing_ok(site, next, job) ==
  /\ ReportGoes(site, next)
  /\ IF directory[job].done = 0 THEN Issue("missing")
     ELSE IF launch # 0 /\ directory[job].done # launch THEN Issue("error") ELSE UNCHANGED issues
  /\ launch' = 0
  /\ UNCHANGED <<available, diagnosed, read_writers, comparisons, exit_code>>
ReadCompletion(site, next, job) ==
  /\ ReportGoes(site, next)
  /\ IF directory[job].done = 0 \/ (launch # 0 /\ directory[job].done # launch)
     THEN Issue("error") ELSE UNCHANGED issues
  /\ launch' = 0
  /\ UNCHANGED <<available, diagnosed, read_writers, comparisons, exit_code>>

\* The scenario manifest: absent or wrong, it is an error already.
ReadScenarioManifest ==
  /\ ReportGoes("manifest", "diagnostic")
  /\ \/ UNCHANGED issues
     \/ Issue("error")
  /\ UNCHANGED <<available, diagnosed, launch, read_writers, comparisons, exit_code>>

\* Settings and policy are compared with the contract: a file of another command
\* is noticed, one of the first or a twin is fine, whoever else wrote there.
Judge(writers) ==
  \/ ~(writers \subseteq Contract) /\ Issue("error")
  \/ writers \cap Contract # {} /\ UNCHANGED issues

\* rollout_diagnostics.json: counts, tasks, seeds, settings and policy.
ReadDiagnostic ==
  /\ report = "diagnostic"
  /\ LET d == directory[DiagnosticJob]
     IN IF d.whole
        THEN /\ report' = "resolved_config"
             /\ diagnosed' = TRUE
             /\ read_writers' = [read_writers EXCEPT ![DiagnosticJob] = d.writers]
             /\ Judge(d.writers)
        ELSE /\ report' = "training"
             /\ \/ Issue("missing")
                \/ d.writers # {} /\ Issue("error")
             /\ UNCHANGED <<diagnosed, read_writers>>
  /\ UNCHANGED <<available, launch, comparisons, exit_code>>

\* resolved_config.json, which may be gone by now.
ReadResolvedConfig ==
  /\ ReportGoes("resolved_config", "diagnostic_launch")
  /\ Judge(directory[DiagnosticJob].writers)
  /\ UNCHANGED <<available, diagnosed, launch, read_writers, comparisons, exit_code>>

\* The training metrics of R1: a failed iteration is an error, one that has not
\* ended a warning.
ReadTrainingMetrics ==
  /\ ReportGoes("training", "compare")
  /\ \E severity \in {"none", "missing", "warning", "error"} :
       IF severity = "none" THEN UNCHANGED issues ELSE Issue(severity)
  /\ UNCHANGED <<available, diagnosed, launch, read_writers, comparisons, exit_code>>

-----------------------------------------------------------------------------
Delta(after, before) == IF NoNumber \in {after, before} THEN NoNumber ELSE after - before

\* normalized_trapezoidal_auc, times twice the interval, which keeps it an integer.
Interval == Points[Len(Points)]
Auc(curve) ==
  IF \E n \in DOMAIN Points : curve[n] = NoNumber THEN NoNumber
  ELSE SumFunction([n \in 1 .. Len(Points) - 1 |-> (curve[n] + curve[n + 1]) * (Points[n + 1] - Points[n])])

Curve(rows, branch) == [n \in DOMAIN Points |-> rows[<<branch, n>>]]

\* _comparability_summary
Status == IF "error" \in issues THEN "fail" ELSE IF "missing" \in issues THEN "incomplete"
          ELSE IF "warning" \in issues THEN "warning" ELSE "pass"

\* _build_comparisons and the exit code under --strict-comparability and
\* --require-complete.
Compare ==
  /\ ReportGoes("compare", "done")
  /\ \E metric \in [Branches -> Curves] :
       LET rows == [s \in ReportStates |-> IF s \in available THEN metric[s[1]][s[2]] ELSE NoNumber]
           auc == [b \in Branches |-> Auc(Curve(rows, b))]
       IN comparisons' = [rows |-> rows, auc |-> auc, auc_delta |-> Delta(auc["r1"], auc["r2"]),
                          pointwise |-> [n \in DOMAIN Points |-> Delta(rows[<<"r1", n>>], rows[<<"r2", n>>])]]
  /\ exit_code' = IF "error" \in issues THEN 2 ELSE IF "missing" \in issues THEN 3 ELSE 0
  /\ UNCHANGED <<issues, available, diagnosed, launch, read_writers>>

ReportStep ==
  \/ ReportStarts \/ ReadSummary
  \/ ReadLaunch("launch", "completion", 1) \/ ReadCompletion("completion", "manifest", 1)
  \/ ReadScenarioManifest \/ ReadDiagnostic \/ ReadResolvedConfig
  \/ ReadLaunch("diagnostic_launch", "diagnostic_completion", DiagnosticJob)
  \/ ReadCompletion("diagnostic_completion", "training", DiagnosticJob)
  \/ ReadTrainingMetrics \/ Compare

\* The jobs go on until the report is there.
ReportNext ==
  \/ ReportStep /\ UNCHANGED jobsVars
  \/ report # "done" /\ JobsNext /\ invocations' <= ReportInvocations /\ UNCHANGED reportVars
ReportSpec == JobsInit /\ ReportInit /\ [][ReportNext]_<<jobsVars, reportVars>>

-----------------------------------------------------------------------------
(***************************************************************************)
(* A report that is not a failure compares what can be compared: the rows  *)
(* it has were written under the contract, or settings that pass for it,   *)
(* and by nobody else, whatever was killed, adopted or quarantined while   *)
(* the artifacts were read one by one, unless a command outlived its       *)
(* orchestrator; and their completion is on record, for a dev evaluation   *)
(* even then.  An exit code of 0 has every row.  There is an area for a    *)
(* branch whose points are all there and for no other; it is within the    *)
(* values of the curve, and the difference of the areas is the area of the *)
(* differences.                                                            *)
(***************************************************************************)
ReportVouches ==
  report = "done" =>
    /\ Status # "fail" =>
         /\ DevState \in available =>
              /\ directory[1].done \in Contract
              /\ strays = {} => read_writers[1] = {directory[1].done}
         /\ diagnosed =>
              /\ read_writers[DiagnosticJob] \cap Contract # {}
              /\ strays = {} => /\ directory[DiagnosticJob].done \in Contract
                               /\ read_writers[DiagnosticJob] = {directory[DiagnosticJob].done}
    /\ exit_code = 0 => available = ReportStates /\ diagnosed
    /\ \A b \in Branches :
         LET curve == Curve(comparisons.rows, b)
             area == comparisons.auc[b]
         IN /\ (area # NoNumber) = (\A n \in DOMAIN Points : <<b, n>> \in available)
            /\ area # NoNumber => LET values == {curve[n] : n \in DOMAIN Points}
                                  IN 2 * Interval * Min(values) <= area /\ area <= 2 * Interval * Max(values)
    /\ comparisons.auc_delta # NoNumber => comparisons.auc_delta = Auc(comparisons.pointwise)
=================================================================================
