SPECIFICATION Spec
CONSTANTS
  Tasks = {a}
  Iterations <- OneIteration
  Targets <- GateTargets
  VerdictSet <- GateVerdicts
  MaxEvents = 6
  Names <- LintNames
  Ids <- LintIds
  Deps <- LintDeps
  Joins <- LintJoins
CONSTRAINT StopAtRefusal
CHECK_DEADLOCK FALSE
INVARIANT LightweightWaitNotResolvable
