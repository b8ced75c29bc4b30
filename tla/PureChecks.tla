----------------------------- MODULE PureChecks -----------------------------
(* Reference checks of the pure modules over bounded inputs, as assumptions  *)
(* TLC evaluates before the runs of the modules that extend this one.        *)
EXTENDS PlanLint, Metrics

-----------------------------------------------------------------------------
(* Plan lint: every graph of three names with at most two edges a task.      *)

LintNames == { "a", "b", "c" }
LintIds == << "a", "b" >>
LintDeps == [ t \in LintNames |-> << "c" >> ]
LintJoins == << << >>, << "a" >> >>

EdgeLists == UNION { [ 1 .. n -> LintNames ] : n \in 0 .. 2 }

Lint(ids, deps) ==
  INSTANCE PlanLint WITH Names <- LintNames, Ids <- ids, Deps <- deps, Joins <- << >>

\* Steps enough: a start, an entry and an exit for each id, and every edge.
LintSteps(ids) == 3 * Len(ids) + 6

\* The search ends and reports a cycle exactly when there is one, in plans
\* whose ids are distinct, repeated, or leave a dependency unknown.
ASSUME LintDecides ==
  \A ids \in { << "a", "b", "c" >>, << "c", "a" >>, << "a", "b", "a" >> } :
    \A deps \in [ LintNames -> EdgeLists ] :
      Lint(ids, deps)!SearchDecides(LintSteps(ids))

-----------------------------------------------------------------------------
(* Certification: what a run is told, over short check lists and one or two  *)
(* changed files.                                                            *)

CheckLists == UNION { [ 1 .. n -> {"passed", "failed"} ] : n \in 0 .. 2 }

\* Sections as git writes them: a change, a deletion, a new file, a pure
\* rename or one with edits.
ChangedSections ==
  { d \in [ from : {"gate", "test", Scanner, DevNull}, to : {"gate", "other", Scanner, DevNull},
            renamed : BOOLEAN, headers : BOOLEAN,
            added : {{}, {"assert-true"}, {"gate-evisceration"}, {"hardcoded-expected"}},
            code : BOOLEAN, entries : {-1, 0, 1} ] :
      /\ d.renamed \/ d.headers
      /\ d.renamed <=> DevNull \notin {d.from, d.to} /\ d.from # d.to
      /\ ~d.headers => d.added = {} /\ ~d.code /\ d.entries = 0
      /\ d.added \ {"hardcoded-expected"} # {} \/ d.entries # 0 => d.code
      /\ d.from # DevNull \/ d.to # DevNull }

\* Edits of the scanner's collections; without an entry, of its comments.
ScannerEdits ==
  { d \in ChangedSections : d.from = Scanner /\ d.to = Scanner /\ d.added = {} }

FinishedRun ==
  [ reachedEnd |-> TRUE, error |-> FALSE, budget |-> FALSE, abort |-> FALSE, artifacts |-> << 1 >> ]

Told(gate, diff) ==
  ResultState(FinishedRun, gate, Scan(diff, ChangedFiles(diff), FALSE), {"true"}, AllRequired)

GreenGate == Decide(<< "passed" >>, << "passed" >>)

\* A finished run is told Succeeded exactly when both sets are there and green.
ASSUME GateDecides ==
  \A visible, holdout \in CheckLists :
    (Told(Decide(visible, holdout), << >>) = "Succeeded") <=> (Green(visible) /\ Green(holdout))

\* Touching a gate file ends in FailedSafety, editing the scanner never in
\* Succeeded, and only review flags leave a green run alone, whatever else of
\* the scanner the diff edits; entries moved within the scanner are no loss.
ASSUME ScanDecides ==
  \A d \in ChangedSections : \A e \in ScannerEdits :
    LET diff == << d, e >> IN
    /\ IsGate(d.from) \/ IsGate(d.to) => Told(GreenGate, diff) = "FailedSafety"
    /\ Target(d) = Scanner /\ d.code => Told(GreenGate, diff) # "Succeeded"
    /\ Told(GreenGate, diff) = "Succeeded" <=>
         Scan(diff, ChangedFiles(diff), FALSE).findings \subseteq {"medium"}
    /\ d \in ScannerEdits => (Weakens(diff) <=> d.entries + e.entries < 0)

-----------------------------------------------------------------------------
(* The scorecard, over workspaces of up to three blocks and two bundles.     *)

Claims == { [ iter |-> n, claim |-> c, refs |-> r ] :
              n \in 1 .. 2, c \in {"completion", "progress"}, r \in {{}, {1}} }

CheckedBundles ==
  { b \in [ name : {1, 2}, green : BOOLEAN, iter : 0 .. 2, task : {"a", "b"}, score : {0, 1},
            injected : {FALSE} ] : b.iter = 0 => b.name = 1 }

Scorecard(blocks, bundles, ended) ==
  [ blocks |-> blocks, bundles |-> bundles,
    terminal |-> [ succeeded |-> ended, iter |-> 2, cites |-> {2} ],
    gates |-> << >>, repairs |-> << >>, costs |-> << 3 >>, gateScript |-> FALSE, gateLine |-> FALSE ]

TwoBlocks == UNION { [ 1 .. n -> Claims ] : n \in 0 .. 2 }

\* Leaving a red bundle out never shows more false completions.
ASSUME RedNeverHelps ==
  \A blocks \in TwoBlocks : \A b, red \in CheckedBundles : \A ended \in BOOLEAN :
    red.green \/ FalseCompletions(Scorecard(blocks, {b}, ended))
                   \subseteq FalseCompletions(Scorecard(blocks, {b, red}, ended))

Block(n, claim) == [ iter |-> n, claim |-> claim, refs |-> {} ]
VerifyBundle(n, iter, green) ==
  [ name |-> n, green |-> green, iter |-> iter, task |-> "a", score |-> 0, injected |-> FALSE ]

\* Why the RUNLOG must hold an iteration once: written twice, the green of an
\* earlier iteration excuses the red of a later one.
ASSUME RepeatedBlockExcuses ==
  LET bundles == { VerifyBundle(1, 1, TRUE), VerifyBundle(2, 2, FALSE),
                   [ VerifyBundle(3, 2, TRUE) EXCEPT !.task = "b" ] }
      once == << Block(1, "progress"), Block(2, "progress") >> IN
  /\ FalseCompletions(Scorecard(once, bundles, FALSE)) = {2}
  /\ FalseCompletions(Scorecard(Append(once, Block(1, "progress")), bundles, FALSE)) = {}

\* A crash in the middle of an append costs the ledger at most the record that
\* was being written, the one appended next, and one line.
LedgerRecords == [ delta : {0, 1}, productive : BOOLEAN ]
ASSUME CrashCostsTwo ==
  \A r1, r2, r3, r4 \in LedgerRecords : \A whole \in BOOLEAN :
    LET torn == TornAppend(AppendRecord(EmptyLedger, r1), r2, whole)
        after == Summarize(AppendRecord(AppendRecord(torn, r3), r4))
        without == Summarize(AppendRecord(AppendRecord(EmptyLedger, r1), r4)) IN
    /\ after.malformed = 1
    /\ after.count = without.count /\ after.productive = without.productive

-----------------------------------------------------------------------------
(* The carried anchor.                                                       *)

Gate == INSTANCE Attest

\* The two ways an anchor is checked part over fields written as null, and
\* only over those: without jsonschema they are let through.
ASSUME NullsDivide ==
  \A a \in Gate!Anchors :
    Gate!StructuralOk(a) =>
      (Gate!SchemaOk(a) <=>
         a.sequence # "null" /\ \A f \in Gate!StringFields : a.strings[f] # "null")

Pin == [ segments |-> << "owner", "repo" >> ]
Signer(segments) == [ segments |-> segments ]

Result(signer, claims, hosted, trigger, predicate) ==
  [ certificate |-> TRUE, witnessed |-> TRUE, claims |-> claims, signer |-> Signer(signer),
    repository |-> Signer(<< Gate!Host, "owner", "repo" >>), hosted |-> hosted,
    workflowTrigger |-> trigger, buildTrigger |-> "push", predicate |-> predicate ]

\* What the index may be heard to answer: gh that does not start or fails, and
\* results with a claim missing, another signer, or no predicate.
Answers ==
  LET result == Result(<< "owner", "repo" >>,
                       Gate!RequiredClaims \cup Gate!TriggerClaims, TRUE, "push", "verdict") IN
  { [ started |-> started, exit |-> exit, markers |-> markers, wellShaped |-> shaped,
      result |-> r ] :
      started \in BOOLEAN, exit \in {0, 1, 2, 4}, markers \in SUBSET {"absent", "denied"},
      shaped \in BOOLEAN,
      r \in { Result(s, c, h, t, p) :
                s \in { << "owner", "repo" >>, << Gate!Host, "owner", "repo" >>,
                        << "other", "owner", "repo" >> },
                c \in { Gate!RequiredClaims, Gate!RequiredClaims \cup {"buildTrigger"},
                        Gate!RequiredClaims \cup Gate!TriggerClaims },
                h \in BOOLEAN, t \in {"push", "pull_request"}, p \in {"verdict", "none"} } }

\* Only an answer for the pinned signer corroborates, only an answer that was
\* given contradicts, and a failure in words not foreseen is unavailable.
ASSUME AnswersSorted ==
  \A a \in Answers :
    LET outcome == Gate!LookUp(a, Pin, Pin) IN
    /\ outcome = "corroborated" => a.started /\ a.exit = 0 /\ a.result.signer.segments[1] # "other"
    /\ outcome = "contradicted" => a.started /\ a.exit \notin {2, 4}
    /\ a.started /\ a.exit = 1 /\ a.markers = {} => outcome = "unavailable"

-----------------------------------------------------------------------------
(* The monitor, over the last four lines of a RUNLOG.                        *)

Health == INSTANCE Monitor

Line(task, score, attempt, productive) ==
  [ task |-> task, score |-> score, attempt |-> attempt, productive |-> productive ]

Lines == { Line(t, s, a, p) : t \in {"a", "b"}, s \in {0, 1}, a \in BOOLEAN, p \in {"true", "false"} }

Reading(rows, budget) ==
  [ state |-> "object", stamped |-> FALSE, marker |-> FALSE, end |-> "absent",
    runlog |-> TRUE, rows |-> rows, content |-> TRUE, budget |-> budget ]

\* Repairs that churn without a turn between them are a stall too; a score that
\* moved from one repair to the next clears both signals; an exhausted budget
\* always asks; and a terminal file alone, even a torn one, ends the advice.
ASSUME MonitorDecides ==
  \A rows \in [ 1 .. 4 -> Lines ] :
    LET report == Health!HealthReport(Reading(rows, {1})) IN
    /\ Health!Churning(rows) /\ (\A i \in 2 .. 4 : rows[i].attempt) => Health!Stalled(rows)
    /\ rows[3].attempt /\ rows[4].attempt /\ rows[3].score # rows[4].score =>
         report.recommendation = "continue"
    /\ Health!ExitCode(Health!HealthReport(Reading(rows, {1, 0}))) = 1
    /\ Health!HealthReport([ Reading(rows, {0}) EXCEPT !.end = "torn" ]).recommendation = "done"
=============================================================================
