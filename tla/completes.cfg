SPECIFICATION FairSpec
CONSTANTS
  TaskOrder <- TwoTasks
  Tasks <- MCTasks
  Declarations <- AllPending
  Unrunnable = {}
  DependsOn <- FirstWaitsForSecond
  Procs = {p1, p2}
  Commands = {"run"}
  Results = {"passed"}
  MaxEvents = 8
  MaxCrashes = 1
CHECK_DEADLOCK FALSE
PROPERTIES
  RunSucceeds
  EndEventuallyPublished
