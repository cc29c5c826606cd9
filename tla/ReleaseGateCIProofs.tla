------------------------ MODULE ReleaseGateCIProofs -------------------------
(***************************************************************************)
(* Proofs about ReleaseGateCI, for any ways to call the command and any    *)
(* faults around it.                                                       *)
(***************************************************************************)
EXTENDS ReleaseGateCI, TLAPS

(* The command decides before it writes; it has a status exactly when it   *)
(* has exited; and without a fault the status tells the decision.          *)
StatusOfDecision == IF decision = "none" THEN 2 ELSE IF decision = "BLOCK" THEN 1 ELSE 0

CommandInv ==
    /\ cli \in {"idle", "load", "evaluate"} => decision = "none"
    /\ cli \in {"write_human", "write_json", "return"} => decision # "none"
    /\ exit = Running <=> cli # "exited"
    /\ exit = 0 => decision = "PASS"
    /\ cli = "exited" /\ ~ faulted => exit = StatusOfDecision

(* The job goes on once the command has exited, or without it after a      *)
(* fault, and until the summary only a fault has failed it.                *)
JobInv ==
    /\ step = "prepare" => cli = "idle"
    /\ step \notin {"prepare", "gate"} =>
          cli \in {"idle", "exited"} /\ (faulted \/ cli = "exited")
    /\ step # "conclude" =>
          section = "none" /\ conclusion = "none" /\ (failed => faulted)

(* The summary step fails the job or publishes PASS for status 0; without a *)
(* fault its section and the colour of the job follow from the status.     *)
SummaryInv ==
    /\ step = "conclude" =>
          /\ ~ failed => section = "PASS" /\ exit = 0
          /\ ~ faulted => section = SectionOf(exit) /\ (failed <=> exit # 0)
    /\ conclusion # "none" => conclusion = IF failed THEN "failure" ELSE "success"

GateInv == TypeOK /\ CommandInv /\ JobInv /\ SummaryInv

(* The initial state satisfies the invariant.                              *)
LEMMA GateInit == Init => GateInv
<1> SUFFICES ASSUME Init PROVE GateInv
  OBVIOUS
<1>1. TypeOK
  BY DEF Init, TypeOK
<1>2. CommandInv
  BY DEF Init, CommandInv, Running
<1>3. JobInv /\ SummaryInv
  BY DEF Init, JobInv, SummaryInv
<1> QED
  BY <1>1, <1>2, <1>3 DEF GateInv

(* Every step of the command and of the job preserves it.                  *)
LEMMA GateStep == GateInv /\ [Next]_vars => GateInv'
<1> SUFFICES ASSUME GateInv, [Next]_vars PROVE GateInv'
  OBVIOUS
<1> USE DEF GateInv, TypeOK, CommandInv, JobInv, SummaryInv, Running, Killed, StatusOfDecision,
            ExitWith, Fault, cliVars, jobVars
<1>1. CASE LoadPlan
  BY <1>1 DEF LoadPlan
<1>2. CASE Evaluate
  BY <1>2 DEF Evaluate, CaughtStatus
<1>3. CASE WriteHuman
  <2>0. stdout' \subseteq {"human", "json"}
    BY <1>3 DEF WriteHuman
  <2>1. TypeOK'
    <3>1. faulted' \in BOOLEAN
      BY <1>3 DEF WriteHuman
    <3>2. cli' \in {"exited", "write_json"} /\ exit' \in {exit, 1}
      BY <1>3 DEF WriteHuman
    <3>3. UNCHANGED <<options, step, failed, decision, advisories, artifact, section, conclusion>>
      BY <1>3 DEF WriteHuman
    <3>4. report' \in {"absent", "partial", "complete"}
      BY <1>3, <2>0 DEF WriteHuman
    <3> QED
      BY <2>0, <3>1, <3>2, <3>3, <3>4
  <2>2. CommandInv'
    BY <1>3 DEF WriteHuman
  <2>3. JobInv'
    BY <1>3 DEF WriteHuman
  <2>4. SummaryInv'
    BY <1>3 DEF WriteHuman
  <2> QED
    BY <2>1, <2>2, <2>3, <2>4
<1>4. CASE WriteJson
  <2>0. stdout' \subseteq {"human", "json"} /\ report' \in {"absent", "partial", "complete"}
    BY <1>4 DEF WriteJson
  <2>1. TypeOK'
    <3>1. faulted' \in BOOLEAN
      BY <1>4 DEF WriteJson
    <3>2. cli' \in {"exited", "return"} /\ exit' \in {exit, 1}
      BY <1>4 DEF WriteJson
    <3>3. UNCHANGED <<options, step, failed, decision, advisories, artifact, section, conclusion>>
      BY <1>4 DEF WriteJson
    <3>4. report' \in {"absent", "partial", "complete"}
      BY <1>4, <2>0 DEF WriteJson
    <3> QED
      BY <2>0, <3>1, <3>2, <3>3, <3>4
  <2>2. CommandInv'
    BY <1>4 DEF WriteJson
  <2>3. JobInv'
    BY <1>4 DEF WriteJson
  <2>4. SummaryInv'
    BY <1>4 DEF WriteJson
  <2> QED
    BY <2>1, <2>2, <2>3, <2>4
<1>5. CASE Return
  BY <1>5 DEF Return, ExitStatus
<1>6. CASE Kill
  BY <1>6 DEF Kill
<1>7. CASE Prepare
  <2>1. TypeOK'
    BY <1>7 DEF Prepare
  <2>2. CommandInv'
    BY <1>7 DEF Prepare
  <2>3. JobInv'
    BY <1>7 DEF Prepare
  <2>4. SummaryInv'
    BY <1>7 DEF Prepare
  <2> QED
    BY <2>1, <2>2, <2>3, <2>4
<1>8. CASE Start
  BY <1>8 DEF Start
<1>9. CASE Capture
  BY <1>9 DEF Capture
<1>10. CASE Upload
  <2>1. /\ step = "upload" /\ step' = "summary" /\ artifact' \in BOOLEAN
        /\ UNCHANGED <<options, cli, decision, advisories, stdout, report, exit, section, conclusion>>
    BY <1>10 DEF Upload
  <2>2. CASE UNCHANGED <<failed, faulted>>
    BY <2>1, <2>2
  <2>3. CASE faulted' = TRUE /\ failed' = TRUE
    BY <2>1, <2>3
  <2> QED
    BY <1>10, <2>2, <2>3 DEF Upload
<1>11. CASE Summarize
  <2>1. /\ step = "summary" /\ step' = "conclude"
        /\ UNCHANGED <<options, cli, decision, advisories, stdout, report, exit, artifact, conclusion>>
    BY <1>11 DEF Summarize
  <2>2. CASE exit = Running
    <3>1. failed' = TRUE /\ UNCHANGED <<section, faulted>>
      BY <1>11, <2>2 DEF Summarize
    <3> QED
      BY <2>1, <2>2, <3>1
  <2>3. CASE /\ exit # Running /\ section' = SectionOf(exit) /\ UNCHANGED faulted
             /\ failed' = (failed \/ CiStatus(exit) # 0)
    <3>1. failed' \in BOOLEAN /\ (failed' <=> failed \/ exit # 0)
      BY <2>3 DEF CiStatus
    <3>2. section' \in {"PASS", "BLOCK", "ERROR"} /\ (exit = 0 => section' = "PASS")
      BY <2>3 DEF SectionOf
    <3>3. faulted' = faulted
      BY <2>3
    <3>4. TypeOK' /\ CommandInv' /\ JobInv'
      BY <2>1, <3>1, <3>2, <3>3
    <3>5. SummaryInv'
      BY <2>1, <2>3, <3>1, <3>2, <3>3
    <3> QED
      BY <3>4, <3>5
  <2>4. CASE faulted' = TRUE /\ failed' = TRUE /\ UNCHANGED section
    BY <2>1, <2>4
  <2> QED
    BY <1>11, <2>2, <2>3, <2>4 DEF Summarize
<1>12. CASE Conclude
  BY <1>12 DEF Conclude
<1>13. CASE UNCHANGED vars
  BY <1>13 DEF vars
<1> QED
  BY <1>1, <1>2, <1>3, <1>4, <1>5, <1>6, <1>7, <1>8, <1>9, <1>10, <1>11, <1>12, <1>13
     DEF Next, Concluded

(* The invariant holds in every behaviour.                                 *)
THEOREM GateInvHolds == Spec => []GateInv
BY GateInit, GateStep, PTL DEF Spec

(* Every variable keeps its type.                                          *)
THEOREM GateTypeCorrect == Spec => []TypeOK
BY GateInvHolds, PTL DEF GateInv

(* A pull request is green only if the evaluation ran and passed and the   *)
(* summary says so, whatever fails or is killed on the way.                *)
THEOREM GreenIsPass == Spec => []GreenMeansPass
<1>1. GateInv => GreenMeansPass
  BY DEF GateInv, TypeOK, CommandInv, JobInv, SummaryInv, GreenMeansPass
<1> QED
  BY <1>1, GateInvHolds, PTL

(* Without a fault outside the evaluation the section and the colour of the *)
(* job are the decision, advisories or not.                                *)
THEOREM SectionTellsDecision == Spec => []SectionIsDecision
<1>1. GateInv => SectionIsDecision
  BY DEF GateInv, TypeOK, CommandInv, JobInv, SummaryInv, SectionIsDecision, SectionOf,
     StatusOfDecision
<1> QED
  BY <1>1, GateInvHolds, PTL
=============================================================================
