------------------------------ MODULE Monitor ------------------------------
(* The runtime monitor (scripts/runtime_monitor.py): what it recommends from *)
(* one reading of state.json, the terminal file and the RUNLOG.              *)
(*                                                                           *)
(* A reading o is a record: state, what state.json holds; stamped and        *)
(* marker, whether its terminal_state is set and its state is the terminal   *)
(* marker; end, the terminal file; runlog, whether there is one; rows, the   *)
(* facts its lines give; content, whether it says anything; budget, the      *)
(* numbers of budget_remaining.                                              *)
EXTENDS Integers, Sequences

Window == 3       \* STALL_MIN_ITERS and CHURN_MIN_ATTEMPTS

Rows == [ task : STRING, score : Int, attempt : BOOLEAN, productive : {"true", "false", "unsaid"} ]

LastRows(rows) == SubSeq(rows, Len(rows) - Window + 1, Len(rows))

Flat(rows) ==
  \A i, j \in DOMAIN rows : rows[i].task = rows[j].task /\ rows[i].score = rows[j].score

Stalled(rows) == Len(rows) >= Window /\ Flat(LastRows(rows))

Repairs(rows) == SelectSeq(rows, LAMBDA r : r.attempt)

Churning(rows) ==
  LET repairs == Repairs(rows) IN
  /\ Len(repairs) >= Window
  /\ Flat(LastRows(repairs))
  /\ \A i \in DOMAIN LastRows(repairs) : LastRows(repairs)[i].productive = "false"

Overrun(budget) == \E n \in budget : n <= 0

Recommend(stalled, churn, overrun) ==
  IF overrun THEN "approval" ELSE IF churn THEN "revert"
  ELSE IF stalled THEN "replan" ELSE "continue"

\* A terminal file, even one that cannot be read, ends the run though
\* state.json was never stamped.
Over(o) == o.stamped \/ o.end # "absent" \/ o.marker

Report(status, recommendation) == [ status |-> status, recommendation |-> recommendation ]

HealthReport(o) ==
  IF o.state # "object" \/ ~o.runlog THEN Report("error", "replan")
  ELSE IF Over(o) THEN Report("ok", "done")
  ELSE IF o.rows = << >> /\ o.content THEN Report("degraded", "replan")
  ELSE Report("ok", Recommend(Stalled(o.rows), Churning(o.rows), Overrun(o.budget)))

ExitCode(report) ==
  IF report.status = "error" THEN 2
  ELSE IF report.recommendation \in {"continue", "done"} THEN 0 ELSE 1
=============================================================================
