----------------------------- MODULE MCEvidence -----------------------------
(* Evidence on small instances. *)
EXTENDS Evidence, TLC

CONSTANTS t1, t2, g1, g2

MCTasks == { t1, t2 }
MCGoals == { g1, g2 }

Interchangeable == Permutations(MCTasks) \cup Permutations(MCGoals)
=============================================================================
