----------------------------- MODULE RunContract -----------------------------
(* What the runtime promises of one run, whoever drives it: a ledger of      *)
(* iterations with growing ids, tasks dispatched in the order of their       *)
(* dependencies and never after they passed, only while the run stands in    *)
(* execute-task, one end, and a published record of that end. A pause is no  *)
(* part of it: it is an overlay that a dispatch does not look at.            *)
EXTENDS Naturals, Sequences

CONSTANTS
  Tasks,           \* the tasks of TASKS.json
  DependsOn,       \* the tasks each of them waits for
  NoTask,          \* what a move of the run works on
  Ends,            \* the ends a run may have
  Successes,       \* those of them that claim success
  NoEnd            \* the end of an open run

VARIABLES
  declared,        \* the tasks TASKS.json declares done
  ledger,          \* the recorded iterations, NoTask for a move of the run
  iteration,       \* the last iteration id that was given out
  ready,           \* the run stands in execute-task
  ended,           \* the recorded end, NoEnd while the run is open
  published        \* the end as terminal_state.json shows it

vars == << declared, ledger, iteration, ready, ended, published >>

Passed == { ledger[i].task : i \in { j \in DOMAIN ledger : ledger[j].passed } }

Done == declared \cup Passed

Init ==
  /\ declared \in SUBSET Tasks
  /\ iteration \in Nat
  /\ ledger \in Seq([ iter : 0 .. iteration, task : {NoTask}, passed : {FALSE} ])
  /\ ready = TRUE
  /\ ended = NoEnd
  /\ published = NoEnd

Record(t, passed) ==
  /\ iteration' = iteration + 1
  /\ ledger' = Append(ledger, [ iter |-> iteration + 1, task |-> t, passed |-> passed ])

\* loop run: a task that is not done, after everything it depends on.
Dispatch(t) ==
  /\ ended = NoEnd /\ ready
  /\ t \notin Done /\ DependsOn[t] \subseteq Done
  /\ \E passed \in BOOLEAN : Record(t, passed)
  /\ UNCHANGED << declared, ready, ended, published >>

\* The orchestrator records a move of the run.
Steer ==
  /\ ended = NoEnd
  /\ Record(NoTask, FALSE)
  /\ ready' \in BOOLEAN
  /\ UNCHANGED << declared, ended, published >>

\* The orchestrator asks for an approval.
Ask ==
  /\ ended = NoEnd
  /\ iteration' = iteration + 1
  /\ ready' = FALSE
  /\ UNCHANGED << declared, ledger, ended, published >>

\* An operator approves the return to execute-task.
Approve ==
  /\ ended = NoEnd /\ ~ready
  /\ ready' = TRUE
  /\ UNCHANGED << declared, ledger, iteration, ended, published >>

\* The run ends once; a success needs every task done in a run at work.
End ==
  /\ ended = NoEnd
  /\ ended' \in Ends
  /\ ended' \in Successes => ready /\ Tasks \subseteq Done
  /\ ready' = FALSE
  /\ UNCHANGED << declared, ledger, iteration, published >>

Publish ==
  /\ ended # NoEnd /\ published = NoEnd
  /\ published' = ended
  /\ UNCHANGED << declared, ledger, iteration, ready, ended >>

Next ==
  \/ \E t \in Tasks : Dispatch(t)
  \/ Steer \/ Ask \/ Approve \/ End \/ Publish

Spec == Init /\ [][Next]_vars
=============================================================================
