------------------------------ MODULE Certify ------------------------------
(* How a host engine's run becomes a verdict: the held-out gate             *)
(* (scripts/holdout_gate.py), the scan of the diff for shortcuts            *)
(* (scripts/anticheat_scan.py) and the projection of both onto a            *)
(* terminal@1 body (loop/integrations.py), which Reducer's gate then meets. *)
EXTENDS Reducer

-----------------------------------------------------------------------------
(* The held-out gate.  A check result is passed, failed, or not a result.   *)

CheckResults == {"passed", "failed", "malformed"}

Green(checks) == checks # << >> /\ \A i \in DOMAIN checks : checks[i] = "passed"

NotReady == "NotReady"

Decide(visible, holdout) ==
  [ complete |-> TRUE,
    verdict |-> IF ~Green(visible) \/ holdout = << >> THEN NotReady
                ELSE IF Green(holdout) THEN "Succeeded" ELSE "FailedUnverifiable",
    passedVisible |-> Green(visible), passedHoldout |-> Green(holdout),
    falseCompletion |-> Green(visible) /\ holdout # << >> /\ ~Green(holdout),
    visible |-> visible, holdout |-> holdout ]

\* Any object handed over as a gate result; complete when its verdict and its
\* flag are there and of their types.
GateResults ==
  [ complete : BOOLEAN, verdict : {"Succeeded", "FailedUnverifiable", NotReady},
    passedVisible : BOOLEAN, passedHoldout : BOOLEAN, falseCompletion : BOOLEAN,
    visible : Seq(CheckResults), holdout : Seq(CheckResults) ]

ValidChecks(checks) ==
  checks # << >> /\ \A i \in DOMAIN checks : checks[i] # "malformed"

ValidGate(gate) ==
  /\ gate.complete
  /\ ValidChecks(gate.visible) /\ ValidChecks(gate.holdout)

-----------------------------------------------------------------------------
(* The scan.  A diff is a sequence of sections, one for each file: the      *)
(* paths of its headers, the marks on its lines, and how many more entries  *)
(* they put into collections than they take out.  A pure rename has no      *)
(* headers.                                                                 *)

DevNull == "/dev/null"
Scanner == "anticheat_scan.py"
Paths == {"gate", "test", "other", Scanner, "test_anticheat_scan.py"}

SelfFiles == {Scanner, "test_anticheat_scan.py"}
IsTest(path) == path \in {"test", "test_anticheat_scan.py"}
IsGate(path) == path \notin SelfFiles /\ path = "gate"

HighMarks == {"skip-injection", "assert-true"}
WeakeningMarks == {"gate-evisceration", "semantic-gate-weakening"}
Marks == HighMarks \cup WeakeningMarks \cup {"hardcoded-expected"}

Sections ==
  [ from : Paths \cup {DevNull}, to : Paths \cup {DevNull}, renamed : BOOLEAN,
    headers : BOOLEAN, added : SUBSET Marks, code : BOOLEAN, entries : Int ]

\* The file a section's hunks belong to: the new path, the old of a deletion.
Target(section) == IF section.to # DevNull THEN section.to ELSE section.from

PathsOf(section) ==
  (IF section.renamed THEN {section.from, section.to} ELSE {})
  \cup (IF section.headers THEN {Target(section)} ELSE {})

ChangedFiles(diff) == (UNION { PathsOf(d) : d \in Range(diff) }) \ {DevNull}

Hunks(diff) == { d \in Range(diff) : d.headers }
SelfEdits(diff) == { d \in Hunks(diff) : Target(d) = Scanner }

PathSeverities(files) ==
  { IF IsGate(f) THEN "critical" ELSE "medium" : f \in { g \in files : IsGate(g) \/ IsTest(g) } }

LineSeverities(diff) ==
  UNION { { IF k \in HighMarks THEN "high" ELSE "medium" : k \in d.added \ WeakeningMarks }
          : d \in { h \in Hunks(diff) : Target(h) \notin SelfFiles } }

\* Entries put in by one edit of the scanner pay for those taken out by another.
NetEntries(diff) ==
  FoldLeft(LAMBDA n, d : IF d \in SelfEdits(diff) THEN n + d.entries ELSE n, 0, diff)

\* Emptying a collection or a mapping of the scanner, or taking more entries
\* out of its collections than are put in.
Weakens(diff) ==
  \/ \E d \in SelfEdits(diff) : d.added \cap WeakeningMarks # {}
  \/ NetEntries(diff) < 0

Severities(diff, files, readAnswers) ==
  PathSeverities(files)
  \cup LineSeverities(diff)
  \cup (IF Weakens(diff) THEN {"critical"} ELSE {})
  \cup (IF \E d \in SelfEdits(diff) : d.code THEN {"high"} ELSE {})
  \cup (IF readAnswers THEN {"high"} ELSE {})

Downgrade(severities) ==
  IF "critical" \in severities THEN "FailedSafety"
  ELSE IF "high" \in severities THEN "FailedUnverifiable" ELSE None

Missing == "missing"

Scan(diff, files, readAnswers) ==
  LET severities == Severities(diff, files, readAnswers) IN
  [ findings |-> severities, downgrade |-> Downgrade(severities) ]

\* Nothing was scanned.
NoScan == [ findings |-> {}, downgrade |-> Missing ]

ScanResults ==
  [ findings : SUBSET {"critical", "high", "medium"},
    downgrade : {"FailedSafety", "FailedUnverifiable", None, Missing} ]

ValidScan(scan) == scan.downgrade # Missing

\* The scanner's exit code; an invocation that cannot be read exits 3.
ScanExit(scan) ==
  IF scan.downgrade = "FailedSafety" THEN 2 ELSE IF scan.findings = {} THEN 0 ELSE 1

-----------------------------------------------------------------------------
(* The projection.  Criteria are given by the kinds of entry they have; an  *)
(* artifact is a citation or Blank.                                         *)

Blank == -1
BadCriteria == {"blank key", "other value", "not an object"}
CriterionKinds == BadCriteria \cup {"true", "false", "null"}

EngineOutcomes ==
  [ reachedEnd : BOOLEAN, error : BOOLEAN, budget : BOOLEAN, abort : BOOLEAN,
    artifacts : Seq(Nat \cup {Blank}) ]

Criteria(kinds) ==
  LET canonical == kinds \ BadCriteria IN
  IF canonical = {} THEN "empty" ELSE IF canonical = {"true"} THEN "met" ELSE "unmet"

Cited(outcome) == { outcome.artifacts[i] : i \in DOMAIN outcome.artifacts }

BadArtifacts(outcome) ==
  \/ Blank \in Cited(outcome)
  \/ \E i, j \in DOMAIN outcome.artifacts : i # j /\ outcome.artifacts[i] = outcome.artifacts[j]

\* A policy is None when none is given.
Normalized(policy) == IF policy \in CompletionModes THEN policy ELSE AllRequired

\* The state the fixed precedence gives.
ResultState(outcome, gate, scan, kinds, policy) ==
  IF scan.downgrade = "FailedSafety" THEN "FailedSafety"
  ELSE IF outcome.abort THEN "AbortedByHuman"
  ELSE IF outcome.error THEN "FailedBlocked"
  ELSE IF outcome.budget THEN "FailedBudget"
  ELSE IF policy = UnknownMode \/ kinds \cap (BadCriteria \cup {"null"}) # {}
       THEN "FailedSpecGap"
  ELSE IF /\ ValidScan(scan) /\ ValidGate(gate)
          /\ scan.downgrade = None
          /\ gate.verdict = "Succeeded" /\ ~gate.falseCompletion
          /\ Criteria(kinds) = "met"
          /\ ~BadArtifacts(outcome)
          /\ Normalized(policy) = VerifiedEvidence => RecordShaped(Cited(outcome))
          /\ outcome.artifacts # << >>
          /\ outcome.reachedEnd
       THEN "Succeeded" ELSE "FailedUnverifiable"

ToTerminalState(outcome, gate, scan, kinds, policy) ==
  [ result |-> ResultState(outcome, gate, scan, kinds, policy),
    criteria |-> Criteria(kinds), evidence |-> Cited(outcome),
    policy |-> Normalized(policy), falseCompletion |-> gate.falseCompletion ]
=============================================================================
