SPECIFICATION Spec
CONSTANTS
  TaskOrder <- TwoTasks
  Tasks <- MCTasks
  Declarations <- AllPending
  Unrunnable = {}
  DependsOn <- Independent
  Procs = {p1}
  Commands = {"run", "pause"}
  Results = {"passed"}
  MaxEvents = 9
  MaxCrashes = 1
CHECK_DEADLOCK FALSE
INVARIANTS
  SelectsAfterMaterializing
