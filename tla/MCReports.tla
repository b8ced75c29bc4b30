----------------------------- MODULE MCReports -----------------------------
(* Reports beside one process and three tasks: two that can be run, and a third *)
(* that is done, waits for its author, or has no verifier.                      *)
EXTENDS Reports

ThreeTasks == << "t1", "t2", "t3" >>
MCTasks == { TaskOrder[i] : i \in DOMAIN TaskOrder }

PendingUpToThird ==
  { [ t \in MCTasks |-> IF t = "t3" THEN third ELSE "pending" ] :
      third \in {"pending", "blocked", "done"} }
FirstWaitsForSecond == [ t \in MCTasks |-> IF t = "t1" THEN {"t2"} ELSE {} ]
=============================================================================
