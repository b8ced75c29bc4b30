SPECIFICATION Spec
CONSTANTS
  TaskOrder <- OneTask
  Tasks <- MCTasks
  Declarations <- AllPending
  Unrunnable = {}
  DependsOn <- Independent
  Procs = {p1, p2}
  Commands = {"run", "approve", "pause", "resume", "cancel", "request", "advance"}
  Results = {"passed"}
  MaxEvents = 8
  MaxCrashes = 1
SYMMETRY AnyProcess
CHECK_DEADLOCK FALSE
INVARIANTS
  LogStaysReplayable
  TerminalFileFollowsEvent
  ProjectionsNeverAhead
  IInv
PROPERTIES
  ImplementsRunContract
