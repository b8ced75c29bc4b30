----------------------------- MODULE MCLoopRun -----------------------------
(* TLC values for LoopRun: small task graphs.  Tasks are strings because   *)
(* TASKS.json orders them and its dependencies name them.                  *)
EXTENDS LoopRunProofs

NoTasks == << >>
OneTask == << "t1" >>
TwoTasks == << "t1", "t2" >>

MCTasks == { TaskOrder[i] : i \in DOMAIN TaskOrder }

AllPending == { [ t \in MCTasks |-> "pending" ] }
PendingOrBlocked ==
  AllPending \cup { [ t \in MCTasks |-> IF t = "t2" THEN "blocked"
                                        ELSE "pending" ] }
Independent == [ t \in MCTasks |-> {} ]

\* t1 is declared first but waits for t2.
FirstWaitsForSecond == [ t \in MCTasks |-> IF t = "t1" THEN {"t2"} ELSE {} ]

\* Processes are interchangeable; used where every property is a state predicate
\* or speaks of single steps, and none tells two processes apart.
AnyProcess == Permutations(Procs)
=============================================================================
