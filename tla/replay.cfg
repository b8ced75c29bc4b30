SPECIFICATION Spec
CONSTANTS
  Tasks = {a}
  Iterations <- OneIteration
  Targets <- MCTargets
  VerdictSet <- MCVerdicts
  MaxEvents = 6
  Names <- LintNames
  Ids <- LintIds
  Deps <- LintDeps
  Joins <- LintJoins
CONSTRAINT StopAtRefusal
CHECK_DEADLOCK FALSE
INVARIANTS
  TypeOK
  EveryDecisionPassesGate
  AuditTrailComplete
  ResolutionsAnswerRequests
  PausesAlternate
PROPERTIES
  TerminalImmutable
  OnlyLegalTransitions
