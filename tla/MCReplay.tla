------------------------------ MODULE MCReplay ------------------------------
(* TLC values for Replay: one task, two iteration ids, and the verdicts    *)
(* that separate the gate's rules from one another.                        *)
EXTENDS Replay, PureChecks

Succeeded(criteria, evidence, policy, falseCompletion) ==
  [ result |-> "Succeeded", criteria |-> criteria, evidence |-> evidence,
    policy |-> policy, falseCompletion |-> falseCompletion ]

Aborted == [ NoVerdict EXCEPT !.result = "AbortedByHuman" ]

MCVerdicts ==
  { Aborted,
    Succeeded("met", {RunlogCitation}, AllRequired, FALSE),
    Succeeded("met", {RunlogCitation}, VerifiedEvidence, FALSE),
    Succeeded("met", {1}, VerifiedEvidence, FALSE),
    Succeeded("unmet", {1}, AllRequired, FALSE),
    Succeeded("met", {}, AllRequired, FALSE),
    Succeeded("met", {1}, AllRequired, TRUE) }

GateVerdicts ==
  { Aborted, Succeeded("met", {RunlogCitation}, AllRequired, FALSE) }

MCTargets == {"plan", "critique-plan", "execute-task", ApprovalWait}
GateTargets == {"plan", ApprovalWait}
OneIteration == {1}

\* Bound: a refused stream is not extended, for every extension is refused.
StopAtRefusal == proj.legal
=============================================================================
