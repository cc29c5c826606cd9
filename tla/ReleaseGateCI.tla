---------------------------- MODULE ReleaseGateCI ----------------------------
(***************************************************************************)
(* The release gate of a pull request: the workflow release-gate.yml runs  *)
(* `evalops run` (cli.py), keeps its exit code, and hands code and report  *)
(* to `python -m evalops.ci`, which writes the summary and returns the code*)
(* as the status of the job.  What run_evaluation decides is modelled by   *)
(* Evaluation; here it is a choice.                                        *)
(***************************************************************************)
EXTENDS Integers

CONSTANTS
    JsonTargets,    \* what --json may name: "none", "stdout", "file"
    Faults          \* subset of {"prepare", "write", "kill", "upload", "summary"}

ASSUME TargetAssumption == JsonTargets \subseteq {"none", "stdout", "file"} /\ JsonTargets # {}
ASSUME FaultAssumption == Faults \subseteq {"prepare", "write", "kill", "upload", "summary"}

VARIABLES
    options,     \* of the evalops command
    step,        \* the workflow's current step
    failed,      \* a step of the job has failed
    faulted,     \* something outside the evaluation has gone wrong
    cli,         \* where the command is
    decision,    \* of evaluate_gate, "none" before it
    advisories,  \* whether some breach did not block
    stdout,      \* what the command has written there
    report,      \* the report file
    exit,        \* the command's exit status
    artifact,    \* the report was uploaded
    section,     \* heading of the published summary
    conclusion   \* of the job

vars == <<options, step, failed, faulted, cli, decision, advisories, stdout, report, exit,
          artifact, section, conclusion>>

cliVars == <<cli, decision, advisories, stdout, report, exit>>
jobVars == <<step, failed, artifact, section, conclusion>>

Fault(f) == f \in Faults /\ faulted' = TRUE

Running == -1
Killed  == 137

Options == [json : JsonTargets, quiet : BOOLEAN]

ShowHuman == ~ options.quiet /\ options.json # "stdout"

Init ==
    /\ options \in Options
    /\ step = "prepare" /\ failed = FALSE /\ faulted = FALSE
    /\ cli = "idle"
    /\ decision = "none" /\ advisories = FALSE
    /\ stdout = {} /\ report = "absent"
    /\ exit = Running
    /\ artifact = FALSE /\ section = "none" /\ conclusion = "none"

----------------------------------------------------------------------------
(* evalops run                                                               *)

ExitWith(code) == cli' = "exited" /\ exit' = code

(* Any exception of the configuration is reported and exits 2.               *)
LoadPlan ==
    /\ cli = "load"
    /\ \/ cli' = "evaluate" /\ UNCHANGED exit
       \/ ExitWith(2)
    /\ UNCHANGED <<options, decision, advisories, stdout, report, faulted, jobVars>>

(* Statuses an exception inside the try block may lead to.                   *)
CaughtStatus == {2}

(* run_evaluation and build_report.                                          *)
Evaluate ==
    /\ cli = "evaluate"
    /\ \/ /\ decision' \in {"PASS", "BLOCK"}
          /\ advisories' \in BOOLEAN
          /\ cli' = "write_human"
          /\ UNCHANGED exit
       \/ /\ \E code \in CaughtStatus : ExitWith(code)
          /\ UNCHANGED <<decision, advisories>>
    /\ UNCHANGED <<options, stdout, report, faulted, jobVars>>

(* Both writes are outside the try block: an OSError reaches the interpreter,*)
(* which exits 1.                                                            *)
WriteHuman ==
    /\ cli = "write_human"
    /\ \/ /\ cli' = "write_json"
          /\ stdout' = IF ShowHuman THEN stdout \cup {"human"} ELSE stdout
          /\ UNCHANGED <<exit, faulted>>
       \/ /\ ShowHuman /\ Fault("write")
          /\ ExitWith(1)
          /\ UNCHANGED stdout
    /\ UNCHANGED <<options, decision, advisories, report, jobVars>>

WriteJson ==
    /\ cli = "write_json"
    /\ \/ /\ cli' = "return"
          /\ stdout' = IF options.json = "stdout" THEN stdout \cup {"json"} ELSE stdout
          /\ report' = IF options.json = "file" THEN "complete" ELSE report
          /\ UNCHANGED <<exit, faulted>>
       \/ /\ options.json # "none" /\ Fault("write")
          /\ ExitWith(1)
          /\ report' \in IF options.json = "file" THEN {"absent", "partial"} ELSE {report}
          /\ UNCHANGED stdout
    /\ UNCHANGED <<options, decision, advisories, jobVars>>

(* Mutants: a PASS with advisories has a status of its own; it fails the     *)
(* gate.                                                                     *)
AdvisoryOwnStatus == IF decision = "BLOCK" THEN 1 ELSE IF advisories THEN 3 ELSE 0
AdvisoryBlocks == IF decision = "BLOCK" \/ advisories THEN 1 ELSE 0

ExitStatus == IF decision = "BLOCK" THEN 1 ELSE 0

Return ==
    /\ cli = "return"
    /\ ExitWith(ExitStatus)
    /\ UNCHANGED <<options, decision, advisories, stdout, report, faulted, jobVars>>

(* The operating system kills the command; the shell sees 128 + 9.           *)
Kill ==
    /\ Fault("kill")
    /\ cli \notin {"idle", "exited"}
    /\ ExitWith(Killed)
    /\ UNCHANGED <<options, decision, advisories, stdout, report, jobVars>>

----------------------------------------------------------------------------
(* release-gate.yml                                                          *)

(* Checkout and dependencies.  A failure skips the steps without always().   *)
Prepare ==
    /\ step = "prepare"
    /\ \/ step' = "gate" /\ UNCHANGED <<failed, faulted>>
       \/ Fault("prepare") /\ step' = "upload" /\ failed' = TRUE
    /\ UNCHANGED <<options, cliVars, artifact, section, conclusion>>

Start ==
    /\ step = "gate" /\ cli = "idle"
    /\ cli' = "load"
    /\ UNCHANGED <<options, decision, advisories, stdout, report, exit, faulted, jobVars>>

(* set +e: the step keeps the exit code and succeeds.                        *)
Capture ==
    /\ step = "gate" /\ cli = "exited"
    /\ step' = "upload"
    /\ UNCHANGED <<options, cliVars, failed, faulted, artifact, section, conclusion>>

(* if: always(), if-no-files-found: ignore.  A failed upload fails the job;   *)
(* the summary step is always() too.                                         *)
Upload ==
    /\ step = "upload"
    /\ step' = "summary"
    /\ \/ artifact' = (report # "absent") /\ UNCHANGED <<failed, faulted>>
       \/ Fault("upload") /\ failed' = TRUE /\ UNCHANGED artifact
    /\ UNCHANGED <<options, cliVars, section, conclusion>>

(* ci.render_pr_summary: the exit code alone chooses the section.            *)
SectionOf(code) ==
    CASE code = 0 -> "PASS"
      [] code = 1 -> "BLOCK"
      [] OTHER -> "ERROR"

(* Mutant: only a BLOCK fails the summary step.                              *)
BlockOnly(code) == IF code = 1 THEN 1 ELSE 0

CiStatus(code) == code

(* ci.main, if: always().  Without an exit code argparse exits 2; a summary  *)
(* that cannot be written fails the step.                                    *)
Summarize ==
    /\ step = "summary"
    /\ step' = "conclude"
    /\ IF exit = Running
         THEN failed' = TRUE /\ UNCHANGED <<section, faulted>>
         ELSE \/ /\ section' = SectionOf(exit)
                 /\ failed' = (failed \/ CiStatus(exit) # 0)
                 /\ UNCHANGED faulted
              \/ /\ Fault("summary")
                 /\ failed' = TRUE
                 /\ UNCHANGED section
    /\ UNCHANGED <<options, cliVars, artifact, conclusion>>

Conclude ==
    /\ step = "conclude" /\ conclusion = "none"
    /\ conclusion' = IF failed THEN "failure" ELSE "success"
    /\ UNCHANGED <<options, cliVars, step, failed, faulted, artifact, section>>

Concluded == conclusion # "none" /\ UNCHANGED vars

Next ==
    \/ LoadPlan \/ Evaluate \/ WriteHuman \/ WriteJson \/ Return \/ Kill
    \/ Prepare \/ Start \/ Capture \/ Upload \/ Summarize \/ Conclude
    \/ Concluded

Spec == Init /\ [][Next]_vars

----------------------------------------------------------------------------
(* Types of the variables.                                                   *)
TypeOK ==
    /\ options \in Options
    /\ step \in {"prepare", "gate", "upload", "summary", "conclude"}
    /\ failed \in BOOLEAN /\ faulted \in BOOLEAN
    /\ cli \in {"idle", "load", "evaluate", "write_human", "write_json", "return", "exited"}
    /\ decision \in {"none", "PASS", "BLOCK"}
    /\ advisories \in BOOLEAN
    /\ stdout \subseteq {"human", "json"}
    /\ report \in {"absent", "partial", "complete"}
    /\ exit \in {Running, 0, 1, 2, Killed}
    /\ artifact \in BOOLEAN
    /\ section \in {"none", "PASS", "BLOCK", "ERROR"}
    /\ conclusion \in {"none", "success", "failure"}

(* A pull request is never green unless the evaluation ran and passed,       *)
(* whatever failed or was killed on the way; and a green one says so in its  *)
(* summary.                                                                  *)
GreenMeansPass ==
    conclusion = "success" => decision = "PASS" /\ section = "PASS"

(* When nothing outside the evaluation fails, the job's red is explained     *)
(* exactly: BLOCK by a BLOCK, ERROR by an error, and a PASS with advisories  *)
(* is green.                                                                 *)
SectionIsDecision ==
    conclusion # "none" /\ ~ faulted =>
        /\ section = IF decision = "none" THEN "ERROR" ELSE decision
        /\ conclusion = IF decision = "PASS" THEN "success" ELSE "failure"

(* exit 1 only ever means BLOCK.                                             *)
ExitOneMeansBlock == exit = 1 => decision = "BLOCK"
=============================================================================
