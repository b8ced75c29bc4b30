SPECIFICATION ReportsSpec
CONSTANTS
  TaskOrder <- ThreeTasks
  Tasks <- MCTasks
  Declarations <- PendingUpToThird
  Unrunnable = {"t3"}
  DependsOn <- FirstWaitsForSecond
  Procs = {p1}
  Commands = {"run"}
  Results = {"passed"}
  MaxEvents = 8
  MaxCrashes = 1
CHECK_DEADLOCK FALSE
INVARIANTS
  ReportsTruthful
  PredictionsHold
PROPERTIES
  SessionEnds
