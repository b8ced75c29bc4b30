---------------------------- MODULE MCEventStore ----------------------------
(* Constants of EventStore for TLC.                                           *)
EXTENDS EventStore, TLC

CONSTANTS w1, w2, r1, r2, e1, e2, e3, b1

MCWriters == { w1, w2 }
MCRuns == { r1, r2 }
OneRun == { r1 }
MCEventIds == { e1, e2, e3 }
MCBodies == { b1 }

Interchangeable ==
  Permutations(MCWriters) \cup Permutations(MCEventIds) \cup Permutations(MCRuns)
=============================================================================
