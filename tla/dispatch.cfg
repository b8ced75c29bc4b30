SPECIFICATION Spec
CONSTANTS
  TaskOrder <- TwoTasks
  Tasks <- MCTasks
  Declarations <- AllPending
  Unrunnable = {}
  DependsOn <- FirstWaitsForSecond
  Procs = {p1, p2}
  Commands = {"run"}
  Results = {"passed", "failed"}
  MaxEvents = 8
  MaxCrashes = 1
SYMMETRY AnyProcess
CHECK_DEADLOCK FALSE
INVARIANTS
  TypeOK
  NoTaskPassedTwice
  DependenciesRespected
  SuccessCoversTasks
  VerifiedSuccessBacked
