SPECIFICATION Spec
CONSTANTS
  TaskOrder <- NoTasks
  Tasks <- MCTasks
  Declarations <- AllPending
  Unrunnable = {}
  DependsOn <- Independent
  Procs = {p1}
  Commands = {"run"}
  Results = {"passed"}
  MaxEvents = 9
  MaxCrashes = 0
CHECK_DEADLOCK FALSE
INVARIANTS
  LogStaysReplayable
