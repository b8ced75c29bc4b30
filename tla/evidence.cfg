SPECIFICATION Spec
CONSTANTS
  t1 = t1
  t2 = t2
  g1 = g1
  g2 = g2
  Tasks <- MCTasks
  Goals <- MCGoals
  Removed = Removed
  Unhashable = Unhashable
  Absent = Absent
  Garbage = Garbage
  MaxIterations = 2
  MaxLog = 3
  MaxChanges = 2
  MaxCrashes = 1
SYMMETRY Interchangeable
INVARIANTS TypeOK VerifiedEndBacked VerdictDigestsCommitted ViewsAgree SeamClosed
CHECK_DEADLOCK FALSE
