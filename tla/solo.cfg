SPECIFICATION Spec
CONSTANTS
  TaskOrder <- TwoTasks
  Tasks <- MCTasks
  Declarations <- PendingOrBlocked
  Unrunnable = {}
  DependsOn <- Independent
  Procs = {p1}
  Commands = {"run", "pause", "resume", "cancel", "edit"}
  Results = {"passed", "failed", "unlaunchable"}
  MaxEvents = 9
  MaxCrashes = 2
CHECK_DEADLOCK FALSE
INVARIANTS
  QuietWorkspaceAgrees
  RunlogBlockOnce
PROPERTIES
  EndStaysStamped
