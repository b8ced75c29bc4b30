------------------------------ MODULE LoopRun ------------------------------
(***************************************************************************)
(* The event-sourced runtime: `loop run`, `approve`, `pause`, `resume` and *)
(* `cancel` invoked by any number of processes on one workspace, with an   *)
(* external orchestrator that appends its own events.                      *)
(*                                                                         *)
(* The event log is the source of truth; state.json, terminal_state.json,  *)
(* RUNLOG.md and the evidence files are written after it, one file at a    *)
(* time and without a lock.  Each step below is one read or one write of   *)
(* one file or of the store, because those are the points where another    *)
(* process or a crash can intervene.  An append is one transaction         *)
(* (BEGIN IMMEDIATE .. COMMIT) whose expected_sequence is compared with    *)
(* the next sequence number under the write lock.                          *)
(*                                                                         *)
(* proj is the fold of log (reduce_events).  Every reader of the code      *)
(* folds the whole stream anew; here the fold is kept beside the log and   *)
(* extended with every append (FoldLeft over an appended sequence is the    *)
(* fold so far and one more step).                                         *)
(***************************************************************************)
EXTENDS Reducer, FiniteSets

CONSTANTS
  TaskOrder,       \* TASKS.json: the task ids in declaration order
  DependsOn,       \* TASKS.json: the ids each task depends on
  Declarations,    \* TASKS.json: the statuses its author may declare
  Unrunnable,      \* TASKS.json: tasks whose verify is missing or does not parse
  Procs,           \* processes that run `loop` commands
  Commands,        \* the commands and orchestrator events they use
  Results,         \* how a task's verifier may end
  MaxEvents,       \* bound: longest log
  MaxCrashes       \* bound: processes killed in a behaviour

AllCommands ==
  { "run", "approve", "pause", "resume", "cancel",
    "request", "advance", "edit" }

ASSUME LoopRunAssumption ==
  /\ TaskOrder \in Seq(Tasks)
  /\ Tasks = {TaskOrder[i] : i \in DOMAIN TaskOrder}
  /\ None \notin Tasks
  /\ DependsOn \in [Tasks -> SUBSET Tasks]
  /\ Declarations \subseteq
       [Tasks -> {"pending", "active", "blocked", "done", "abandoned"}]
  /\ Unrunnable \subseteq Tasks
  /\ Commands \subseteq AllCommands
  /\ Results \subseteq {"passed", "failed", "unlaunchable"}
  /\ MaxEvents \in Nat
  /\ MaxCrashes \in Nat

VARIABLES
  status,          \* TASKS.json: the declared status of each task
  log,             \* .loop/events.db
  proj,            \* reduce_events(log)
  state,           \* .loop/state.json
  terminal,        \* .loop/terminal_state.json, NoVerdict while absent
  runlog,          \* RUNLOG.md: the iteration of each block, in file order
  files,           \* evidence artifacts on disk: <<kind, iteration>>
  op,              \* what each process is executing
  crashes          \* processes killed so far

vars == << status, log, proj, state, terminal, runlog, files, op, crashes >>

disk == << state, terminal, runlog, files >>

-----------------------------------------------------------------------------
(* State.                                                                  *)

StateDocs ==
  [ state : AllStates \cup {None}, iter : Nat, active : Tasks \cup {None},
    terminal : TerminalStates \cup {None}, paused : BOOLEAN,
    pending : Nat \cup {NoEvent} ]

Artifacts == {"object", "record", "bundle"} \X Nat

ProgramPoints ==
  { "idle", "reconcile", "mat_read", "mat_check", "mat_block", "mat_stamp",
    "select", "commit", "object", "record", "bundle", "end_check", "end_read",
    "end_create", "end_stamp", "sync_check", "sync_read", "sync_stamp",
    "reread", "doc_read", "doc_stamp" }

NoDoc ==
  [ state |-> None, iter |-> 0, active |-> None, terminal |-> None,
    paused |-> FALSE, pending |-> NoEvent ]

NoEventYet == Event("receipt_appended", 0)

\* A process that executes no command.  snap is the projection it read, doc
\* the state.json it read, event the event it is about to append, entry the
\* iteration it is materializing, verdict the terminal it records.
Idle ==
  [ pc |-> "idle", cmd |-> None, snap |-> EmptyProjection, doc |-> NoDoc,
    event |-> NoEventYet, entry |-> Entry(NoEventYet),
    verdict |-> NoVerdict ]

Ops ==
  [ pc : ProgramPoints, cmd : AllCommands \cup {None}, snap : Projections,
    doc : StateDocs, event : Events, entry : RunlogEntries,
    verdict : Verdicts ]

At(p, pc) == op[p].pc = pc
Goto(p, pc) == op' = [ op EXCEPT ![p].pc = pc ]
Return(p) == op' = [ op EXCEPT ![p] = Idle ]

-----------------------------------------------------------------------------
(* The contract as an orchestrator leaves it when work can start: opened,  *)
(* planned and moved to execute-task, with every event materialized.       *)

OpeningStates == << "plan", "critique-plan", "queue-tasks", "execute-task" >>

OpeningLog ==
  << Event("contract_opened", 0) >> \o
  [ n \in 1 .. 4 |-> [ Event("iteration_appended", n) EXCEPT
      !.iter = n, !.outcome = "replanned", !.target = OpeningStates[n] ] ]

OpeningProjection ==
  [ EmptyProjection EXCEPT
      !.state = "execute-task", !.iter = 4, !.count = 5,
      !.entries = [ n \in 1 .. 4 |->
        [ seq |-> n, iter |-> n, task |-> None, outcome |-> "replanned",
          state |-> OpeningStates[n] ] ] ]

Init ==
  /\ status \in Declarations
  /\ log = OpeningLog
  /\ proj = OpeningProjection
  /\ state = [ NoDoc EXCEPT !.state = "execute-task", !.iter = 4 ]
  /\ terminal = NoVerdict
  /\ runlog = << 1, 2, 3, 4 >>
  /\ files = {}
  /\ op = [ p \in Procs |-> Idle ]
  /\ crashes = 0

-----------------------------------------------------------------------------
(* Task selection.                                                         *)

\* Seeded fault: any recorded dispatch counts as passed.
DispatchedIn(pr) ==
  { pr.entries[i].task : i \in DOMAIN pr.entries } \ {None}

PassedIn(pr) ==
  { pr.entries[i].task : i \in { j \in DOMAIN pr.entries :
      pr.entries[j].outcome = "task_passed" } } \ {None}

DoneTasks(pr) == { t \in Tasks : status[t] = "done" } \cup PassedIn(pr)

\* Seeded fault: dependencies are not looked at.
SelectableUnordered(pr, t) ==
  /\ status[t] = "pending"
  /\ t \notin DoneTasks(pr)

\* Seeded fault: only TASKS.json can satisfy a dependency.
SelectableByDeclaration(pr, t) ==
  /\ status[t] = "pending"
  /\ t \notin DoneTasks(pr)
  /\ \A d \in DependsOn[t] : status[d] = "done"

Selectable(pr, t) ==
  /\ status[t] = "pending"
  /\ t \notin DoneTasks(pr)
  /\ DependsOn[t] \subseteq DoneTasks(pr)

\* select_next_task: the first selectable task in declaration order.
IsNextTask(pr, t) ==
  \E i \in DOMAIN TaskOrder :
    /\ t = TaskOrder[i]
    /\ Selectable(pr, t)
    /\ \A j \in 1 .. i - 1 : ~Selectable(pr, TaskOrder[j])

NothingSelectable(pr) == \A t \in Tasks : ~Selectable(pr, t)
AllDone(pr) == Tasks \subseteq DoneTasks(pr)

-----------------------------------------------------------------------------
(* The terminal a finished run records for itself.                         *)

\* The records that passing iterations of a task left on disk.
RecordsOf(pr, t) ==
  { pr.entries[i].iter : i \in { j \in DOMAIN pr.entries :
      /\ pr.entries[j].outcome = "task_passed"
      /\ pr.entries[j].task = t
      /\ << "record", pr.entries[j].iter >> \in files } }

BoundOnce(i) ==
  \E k \in DOMAIN log :
    /\ log[k].bound /\ log[k].iter = i
    /\ \A m \in DOMAIN log : log[m].bound /\ log[m].iter = i => m = k

\* Seeded fault: a record that is present satisfies the bar.
MeetsStrictBarByPresence(cited) ==
  \A i \in cited : << "record", i >> \in files

\* The record and the bundle it names are on disk, and one event bound them.
MeetsStrictBar(cited) ==
  \A i \in cited :
    /\ << "record", i >> \in files
    /\ << "bundle", i >> \in files
    /\ BoundOnce(i)

AutoVerdict(pr) ==
  LET cited == UNION { RecordsOf(pr, t) : t \in Tasks }
      strict == /\ \A t \in Tasks : RecordsOf(pr, t) # {}
                /\ MeetsStrictBar(cited)
  IN  [ result |-> "Succeeded",
        criteria |-> IF Tasks = {} THEN "empty" ELSE "met",
        evidence |-> IF strict THEN cited ELSE {RunlogCitation},
        policy |-> IF strict THEN VerifiedEvidence ELSE AllRequired,
        falseCompletion |-> FALSE ]

\* The bar emit.terminate enforces before it writes.
TerminateAccepts(v) ==
  v.result = "Succeeded" =>
    /\ SatisfiesCompletion(v)
    /\ v.policy = VerifiedEvidence => MeetsStrictBar(v.evidence)

-----------------------------------------------------------------------------
(* The event store.                                                        *)

\* The store gives an event the next sequence number of the run.
AppendEvent(e) ==
  LET stored == [ e EXCEPT !.seq = Len(log) ] IN
    /\ Len(log) < MaxEvents
    /\ log' = Append(log, stored)
    /\ proj' = ReduceOne(proj, stored)

\* Where a command continues once its event is durable.
AfterCommit(o) ==
  CASE o.cmd = "run" /\ o.event.type = "iteration_appended" -> "object"
    [] o.cmd = "run" /\ o.event.type = "terminal_written" -> "end_check"
    [] o.cmd = "cancel" -> "end_read"
    [] OTHER -> "reread"

\* Seeded fault: append without expected_sequence.
CommitUnchecked(p) ==
  /\ At(p, "commit")
  /\ AppendEvent(op[p].event)
  /\ Goto(p, AfterCommit(op[p]))
  /\ UNCHANGED << status, disk, crashes >>

\* SQLiteEventStore.append with expected_sequence = last_sequence + 1.
Commit(p) ==
  /\ At(p, "commit")
  /\ op[p].snap.count = proj.count
  /\ AppendEvent(op[p].event)
  /\ Goto(p, AfterCommit(op[p]))
  /\ UNCHANGED << status, disk, crashes >>

\* Seeded fault: the conflict is swallowed and the command materializes.
ConflictSwallowed(p) ==
  /\ At(p, "commit")
  /\ op[p].snap.count # proj.count
  /\ Goto(p, AfterCommit(op[p]))
  /\ UNCHANGED << status, log, proj, disk, crashes >>

\* SequenceConflictError: the command fails and writes nothing.
Conflict(p) ==
  /\ At(p, "commit")
  /\ op[p].snap.count # proj.count
  /\ Return(p)
  /\ UNCHANGED << status, log, proj, disk, crashes >>

-----------------------------------------------------------------------------
(* loop run.                                                               *)

RunReady(p) ==
  /\ At(p, "idle") /\ "run" \in Commands
  /\ proj.legal
  /\ proj.terminal = NoTerminal
  /\ proj.state = "execute-task"
  /\ op' = [ op EXCEPT ![p].pc = "reconcile", ![p].cmd = "run",
                       ![p].snap = proj ]
  /\ UNCHANGED << status, log, proj, disk, crashes >>

RunTerminal(p) ==
  /\ At(p, "idle") /\ "run" \in Commands
  /\ proj.legal
  /\ proj.terminal # NoTerminal
  /\ op' = [ op EXCEPT ![p].pc = "end_check", ![p].cmd = "run",
                       ![p].snap = proj,
                       ![p].verdict = proj.terminal.verdict ]
  /\ UNCHANGED << status, log, proj, disk, crashes >>

\* The first logged iteration whose id exceeds the current one.
IsNextDue(pr, current, e) ==
  \E i \in DOMAIN pr.entries :
    /\ e = pr.entries[i]
    /\ e.iter > current
    /\ \A j \in 1 .. i - 1 : pr.entries[j].iter <= current

NothingDue(pr, current) ==
  \A i \in DOMAIN pr.entries : pr.entries[i].iter <= current

\* The loop of _reconcile_legacy_iteration: on to the next entry that is due,
\* or to the selection of work.
ReconcileFrom(p, current) ==
  \/ /\ NothingDue(op[p].snap, current)
     /\ op' = [ op EXCEPT ![p].pc = "select", ![p].doc = NoDoc,
                          ![p].entry = Entry(NoEventYet) ]
  \/ \E i \in DOMAIN op[p].snap.entries :
       /\ IsNextDue(op[p].snap, current, op[p].snap.entries[i])
       /\ op' = [ op EXCEPT ![p].pc = "mat_read",
                            ![p].entry = op[p].snap.entries[i] ]

\* It decides from one read of state.json.
Reconcile(p) ==
  /\ At(p, "reconcile")
  /\ ReconcileFrom(p, state.iter)
  /\ UNCHANGED << status, log, proj, disk, crashes >>

Verify(p) ==
  /\ At(p, "select")
  /\ \E t \in Tasks, result \in Results \ {"unlaunchable"} :
       /\ IsNextTask(op[p].snap, t)
       /\ t \notin Unrunnable
       /\ op' = [ op EXCEPT ![p].pc = "commit",
            ![p].event =
              [ Event("iteration_appended", op[p].snap.count) EXCEPT
                  !.iter = op[p].snap.iter + 1, !.task = t, !.bound = TRUE,
                  !.outcome = IF result = "passed" THEN "task_passed"
                              ELSE "task_failed" ] ]
  /\ UNCHANGED << status, log, proj, disk, crashes >>

Conclude(p) ==
  /\ At(p, "select")
  /\ NothingSelectable(op[p].snap)
  /\ AllDone(op[p].snap)
  /\ LET v == AutoVerdict(op[p].snap) IN
       op' = [ op EXCEPT ![p].pc = "commit", ![p].verdict = v,
                 ![p].event =
                   [ Event("terminal_written", op[p].snap.count) EXCEPT
                       !.iter = op[p].snap.iter, !.verdict = v ] ]
  /\ UNCHANGED << status, log, proj, disk, crashes >>

\* Blocked, the verifier could not be launched, or the task declares none that
\* could be: nothing is recorded.
GiveUp(p) ==
  /\ At(p, "select")
  /\ \/ NothingSelectable(op[p].snap) /\ ~AllDone(op[p].snap)
     \/ "unlaunchable" \in Results /\ ~NothingSelectable(op[p].snap)
     \/ \E t \in Unrunnable : IsNextTask(op[p].snap, t)
  /\ Return(p)
  /\ UNCHANGED << status, log, proj, disk, crashes >>

\* write_verify_evidence: object, then record, then the bundle's final name.
WriteArtifact(p, kind, then) ==
  /\ At(p, kind)
  /\ files' = files \cup { << kind, op[p].event.iter >> }
  /\ op' = [ op EXCEPT ![p].pc = then,
       ![p].entry = IF then = "mat_read" THEN Entry(op[p].event) ELSE @ ]
  /\ UNCHANGED << status, log, proj, state, terminal, runlog, crashes >>

WriteEvidence(p) ==
  \/ WriteArtifact(p, "object", "record")
  \/ WriteArtifact(p, "record", "bundle")
  \/ WriteArtifact(p, "bundle", "mat_read")

-----------------------------------------------------------------------------
(* emit.append_iteration of the entry at hand.                             *)

MaterializeRead(p) ==
  /\ At(p, "mat_read")
  /\ LET new == op[p].entry.state IN
       IF new # None /\ ~IsLegalTransition(state.state, new)
       THEN Return(p)
       ELSE op' = [ op EXCEPT ![p].pc = "mat_check", ![p].doc = state ]
  /\ UNCHANGED << status, log, proj, disk, crashes >>

\* Seeded fault: the header is not looked for.
MaterializeUnchecked(p) ==
  /\ At(p, "mat_check")
  /\ Goto(p, "mat_block")
  /\ UNCHANGED << status, log, proj, disk, crashes >>

MaterializeCheck(p) ==
  /\ At(p, "mat_check")
  /\ \/ /\ \E i \in DOMAIN runlog : runlog[i] = op[p].entry.iter
        /\ Goto(p, "mat_stamp")
     \/ /\ \A i \in DOMAIN runlog : runlog[i] # op[p].entry.iter
        /\ Goto(p, "mat_block")
  /\ UNCHANGED << status, log, proj, disk, crashes >>

MaterializeBlock(p) ==
  /\ At(p, "mat_block")
  /\ runlog' = Append(runlog, op[p].entry.iter)
  /\ Goto(p, "mat_stamp")
  /\ UNCHANGED << status, log, proj, state, terminal, files, crashes >>

\* A dispatch materializes its own entry last; a reconciliation goes on.
MaterializeStamp(p) ==
  /\ At(p, "mat_stamp")
  /\ LET e == op[p].entry IN
       /\ state' = [ op[p].doc EXCEPT
            !.state = IF e.state = None THEN @ ELSE e.state,
            !.iter = e.iter,
            !.active = IF e.task = None THEN @ ELSE e.task ]
       /\ \/ op[p].event.type = "iteration_appended" /\ Return(p)
          \/ /\ op[p].event.type # "iteration_appended"
             /\ ReconcileFrom(p, e.iter)
  /\ UNCHANGED << status, log, proj, terminal, runlog, files, crashes >>

-----------------------------------------------------------------------------
(* _reconcile_legacy_terminal, emit.terminate, sync_state_to_terminal.     *)

\* Seeded fault: a run whose terminal file exists is taken to be finished.
EndCheckFileOnly(p) ==
  /\ At(p, "end_check")
  /\ IF terminal = NoVerdict /\ TerminateAccepts(op[p].verdict)
     THEN Goto(p, "end_read")
     ELSE Return(p)
  /\ UNCHANGED << status, log, proj, disk, crashes >>

EndCheck(p) ==
  /\ At(p, "end_check")
  /\ \/ terminal # NoVerdict /\ Goto(p, "sync_check")
     \/ /\ terminal = NoVerdict
        /\ TerminateAccepts(op[p].verdict)
        /\ Goto(p, "end_read")
     \/ /\ terminal = NoVerdict
        /\ ~TerminateAccepts(op[p].verdict)
        /\ Return(p)
  /\ UNCHANGED << status, log, proj, disk, crashes >>

\* Seeded fault: state.json is stamped before the record is created.
EndReadStampFirst(p) ==
  /\ At(p, "end_read")
  /\ IF terminal # NoVerdict THEN Return(p)
     ELSE op' = [ op EXCEPT ![p].pc = "end_stamp", ![p].doc = state ]
  /\ UNCHANGED << status, log, proj, disk, crashes >>

EndRead(p) ==
  /\ At(p, "end_read")
  /\ IF terminal # NoVerdict THEN Return(p)
     ELSE op' = [ op EXCEPT ![p].pc = "end_create", ![p].doc = state ]
  /\ UNCHANGED << status, log, proj, disk, crashes >>

\* Created once by os.link: a second creator fails.
EndCreate(p) ==
  /\ At(p, "end_create")
  /\ \/ /\ terminal = NoVerdict
        /\ terminal' = op[p].verdict
        /\ Goto(p, "end_stamp")
     \/ /\ terminal # NoVerdict
        /\ Return(p)
        /\ UNCHANGED terminal
  /\ UNCHANGED << status, log, proj, state, runlog, files, crashes >>

\* Seeded fault: the marker is stamped without the verdict.
EndStampMarkerOnly(p) ==
  /\ At(p, "end_stamp")
  /\ state' = [ op[p].doc EXCEPT !.state = TerminalMarker ]
  /\ IF op[p].cmd = "run" THEN Goto(p, "sync_check") ELSE Return(p)
  /\ UNCHANGED << status, log, proj, terminal, runlog, files, crashes >>

\* Seeded fault: the marker is stamped into both fields.
EndStampMarkerTwice(p) ==
  /\ At(p, "end_stamp")
  /\ state' = [ op[p].doc EXCEPT !.state = TerminalMarker,
                                 !.terminal = TerminalMarker ]
  /\ IF op[p].cmd = "run" THEN Goto(p, "sync_check") ELSE Return(p)
  /\ UNCHANGED << status, log, proj, terminal, runlog, files, crashes >>

EndStamp(p) ==
  /\ At(p, "end_stamp")
  /\ state' = [ op[p].doc EXCEPT !.state = TerminalMarker,
                                 !.terminal = op[p].verdict.result ]
  /\ IF op[p].cmd = "run" THEN Goto(p, "sync_check") ELSE Return(p)
  /\ UNCHANGED << status, log, proj, terminal, runlog, files, crashes >>

Stamped(doc, result) == doc.state = TerminalMarker /\ doc.terminal = result

SyncCheck(p) ==
  /\ At(p, "sync_check")
  /\ IF Stamped(state, op[p].verdict.result) THEN Return(p)
     ELSE Goto(p, "sync_read")
  /\ UNCHANGED << status, log, proj, disk, crashes >>

SyncRead(p) ==
  /\ At(p, "sync_read")
  /\ IF Stamped(state, terminal.result) THEN Return(p)
     ELSE op' = [ op EXCEPT ![p].pc = "sync_stamp", ![p].doc = state ]
  /\ UNCHANGED << status, log, proj, disk, crashes >>

SyncStamp(p) ==
  /\ At(p, "sync_stamp")
  /\ state' = [ op[p].doc EXCEPT !.state = TerminalMarker,
                                 !.terminal = terminal.result ]
  /\ Return(p)
  /\ UNCHANGED << status, log, proj, terminal, runlog, files, crashes >>

-----------------------------------------------------------------------------
(* Run control.                                                            *)

\* Reading a live run and preparing the event to append to it.
Prepare(p, cmd, e) ==
  /\ At(p, "idle") /\ cmd \in Commands
  /\ proj.legal
  /\ proj.terminal = NoTerminal
  /\ op' = [ op EXCEPT ![p].pc = "commit", ![p].cmd = cmd, ![p].snap = proj,
                       ![p].event = e, ![p].verdict = e.verdict ]
  /\ UNCHANGED << status, log, proj, disk, crashes >>

Approve(p) ==
  /\ proj.state = ApprovalWait
  /\ proj.pending # NoEvent
  /\ LET e == [ Event("approval_resolved", proj.count) EXCEPT
                  !.iter = proj.iter, !.cause = proj.pending ] IN
     \/ Prepare(p, "approve", [ e EXCEPT !.decision = "denied" ])
     \/ \E t \in ResumeTargets :
          Prepare(p, "approve", [ e EXCEPT !.decision = "approved",
                                           !.target = t ])

Pause(p) ==
  /\ ~proj.paused
  /\ Prepare(p, "pause", [ Event("run_paused", proj.count) EXCEPT
                             !.iter = proj.iter ])

Resume(p) ==
  /\ proj.paused
  /\ Prepare(p, "resume", [ Event("run_resumed", proj.count) EXCEPT
                              !.iter = proj.iter ])

Cancel(p) ==
  Prepare(p, "cancel", [ Event("terminal_written", proj.count) EXCEPT
            !.verdict = [ NoVerdict EXCEPT !.result = "AbortedByHuman" ] ])

\* The second projection a control command reads, after its append.
Reread(p) ==
  /\ At(p, "reread")
  /\ IF proj.legal
     THEN op' = [ op EXCEPT ![p].pc = "doc_read", ![p].snap = proj ]
     ELSE Return(p)
  /\ UNCHANGED << status, log, proj, disk, crashes >>

DocRead(p) ==
  /\ At(p, "doc_read")
  /\ op' = [ op EXCEPT ![p].pc = "doc_stamp", ![p].doc = state ]
  /\ UNCHANGED << status, log, proj, disk, crashes >>

\* Seeded fault: the pause overlay is not stamped.
DocStampWithoutOverlay(p) ==
  /\ At(p, "doc_stamp")
  /\ LET s == op[p].snap IN
       state' = [ op[p].doc EXCEPT !.state = s.state, !.pending = s.pending,
                                   !.iter = s.iter ]
  /\ Return(p)
  /\ UNCHANGED << status, log, proj, terminal, runlog, files, crashes >>

\* sync_state_to_projection: active_task and terminal_state stay as read.
DocStamp(p) ==
  /\ At(p, "doc_stamp")
  /\ LET s == op[p].snap IN
       state' = [ op[p].doc EXCEPT !.state = s.state, !.paused = s.paused,
                                   !.pending = s.pending, !.iter = s.iter ]
  /\ Return(p)
  /\ UNCHANGED << status, log, proj, terminal, runlog, files, crashes >>

-----------------------------------------------------------------------------
(* The external orchestrator appends legal events of its own with the      *)
(* store API; it is assumed to fold the log and to use expected_sequence.  *)

RequestApproval ==
  /\ "request" \in Commands
  /\ proj.legal /\ proj.terminal = NoTerminal
  /\ ApprovalWait \in LegalTargets(proj.state)
  /\ AppendEvent([ Event("approval_requested", proj.count) EXCEPT
                     !.iter = proj.iter + 1 ])
  /\ UNCHANGED << status, disk, op, crashes >>

Advance ==
  /\ "advance" \in Commands
  /\ proj.legal /\ proj.terminal = NoTerminal
  /\ \E t \in LegalTargets(proj.state) \ {TerminalMarker, ApprovalWait} :
       AppendEvent([ Event("iteration_appended", proj.count) EXCEPT
                       !.iter = proj.iter + 1, !.outcome = "replanned",
                       !.target = t ])
  /\ UNCHANGED << status, disk, op, crashes >>

\* A planner rewrites the statuses in TASKS.json, which no command does.
EditTasks ==
  /\ "edit" \in Commands
  /\ status' \in Declarations
  /\ UNCHANGED << log, proj, disk, op, crashes >>

-----------------------------------------------------------------------------

\* A process is killed, or fails on an I/O error, between two of its steps.
Crash(p) ==
  /\ ~At(p, "idle")
  /\ crashes < MaxCrashes
  /\ crashes' = crashes + 1
  /\ Return(p)
  /\ UNCHANGED << status, log, proj, disk >>

Work(p) ==
  \/ Commit(p) \/ Conflict(p)
  \/ Reconcile(p) \/ Verify(p) \/ Conclude(p) \/ GiveUp(p)
  \/ WriteEvidence(p)
  \/ MaterializeRead(p) \/ MaterializeCheck(p)
  \/ MaterializeBlock(p) \/ MaterializeStamp(p)
  \/ EndCheck(p) \/ EndRead(p) \/ EndCreate(p) \/ EndStamp(p)
  \/ SyncCheck(p) \/ SyncRead(p) \/ SyncStamp(p)
  \/ Reread(p) \/ DocRead(p) \/ DocStamp(p)

Invoke(p) ==
  \/ RunReady(p) \/ RunTerminal(p)
  \/ Approve(p) \/ Pause(p) \/ Resume(p) \/ Cancel(p)

Next ==
  \/ \E p \in Procs : Invoke(p) \/ Work(p) \/ Crash(p)
  \/ RequestApproval
  \/ Advance
  \/ EditTasks

Spec == Init /\ [][Next]_vars

\* A process that is neither killed nor waiting for its operator keeps
\* running, and `loop run` is invoked again and again on an open or an
\* unpublished run (it dispatches one task per invocation).
FairSpec ==
  /\ Spec
  /\ \A p \in Procs :
       WF_vars(Work(p)) /\ WF_vars(RunReady(p) \/ RunTerminal(p))

-----------------------------------------------------------------------------
(* What the read-only reports compare.                                     *)

\* _state_divergence finds nothing.
StateJsonAgrees ==
  /\ state.state = proj.state
  /\ state.iter = proj.iter
  /\ state.active = proj.active
  /\ state.terminal = proj.terminal.verdict.result
  /\ state.paused = proj.paused
  /\ state.pending = proj.pending

\* _terminal_desync finds nothing.
TerminalFileAgrees == terminal = proj.terminal.verdict

\* _bound_evidence_issues finds nothing: what an event binds is on disk.
BoundEvidencePresent ==
  \A k \in DOMAIN log :
    log[k].bound =>
      {"object", "record", "bundle"} \X {log[k].iter} \subseteq files

-----------------------------------------------------------------------------
(* Properties.                                                             *)

\* The variables have their types.
TypeOK ==
  /\ status \in Declarations
  /\ log \in Seq(Events)
  /\ proj \in Projections
  /\ state \in StateDocs
  /\ terminal \in Verdicts
  /\ runlog \in Seq(Nat)
  /\ files \subseteq Artifacts
  /\ op \in [ Procs -> Ops ]
  /\ crashes \in 0 .. MaxCrashes

\* Whatever commands race and whenever they die, the stream they leave folds:
\* each command checks the run it read and not the run it appends to, and
\* only the compared sequence number keeps a second pause, resolution or
\* terminal from being stored, after which no command could read the run.
LogStaysReplayable == proj.legal

\* No dispatch is duplicated: a task that passed never passes again, through
\* crashes after the commit and concurrent runs that selected the same task
\* (repo-os-contract, "Dispatch crash boundary").
NoTaskPassedTwice ==
  \A i, j \in DOMAIN proj.entries :
    /\ proj.entries[i].outcome = "task_passed"
    /\ proj.entries[j].outcome = "task_passed"
    /\ proj.entries[i].task = proj.entries[j].task
    => i = j

\* While TASKS.json stands, a dispatch is recorded only after every task it
\* depends on was recorded as passed, or declared done.
DependenciesRespected ==
  \A i \in DOMAIN proj.entries :
    LET t == proj.entries[i].task IN
      t # None =>
        \A d \in DependsOn[t] :
          \/ status[d] = "done"
          \/ \E j \in 1 .. i - 1 :
               /\ proj.entries[j].task = d
               /\ proj.entries[j].outcome = "task_passed"

\* While TASKS.json stands, a recorded success covers every task it declares:
\* what Conclude saw in the run it read holds of the run it ended.
SuccessCoversTasks ==
  proj.terminal.verdict.result = "Succeeded" =>
    \A t \in Tasks :
      \/ status[t] = "done"
      \/ \E k \in DOMAIN proj.entries :
           /\ proj.entries[k].task = t
           /\ proj.entries[k].outcome = "task_passed"

\* A success recorded under the verified-evidence policy cites a record of a
\* passing dispatch for every task, and every record it cites was bound by
\* exactly one event and is still on disk with its bundle and its object:
\* what the strict bar saw before the append is true of the recorded terminal
\* although dispatches bind their evidence before they write it.
VerifiedSuccessBacked ==
  LET v == proj.terminal.verdict IN
    v.result = "Succeeded" /\ v.policy = VerifiedEvidence =>
      /\ \A i \in v.evidence :
           /\ BoundOnce(i)
           /\ {"object", "record", "bundle"} \X {i} \subseteq files
      /\ \A t \in Tasks : \E k \in DOMAIN proj.entries :
           /\ proj.entries[k].task = t
           /\ proj.entries[k].outcome = "task_passed"
           /\ proj.entries[k].iter \in v.evidence

\* Iteration ids, which name RUNLOG blocks and evidence files, grow along the
\* log: two dispatches never share one.
IterationIdsIncrease ==
  \A i, j \in DOMAIN proj.entries :
    i < j => proj.entries[i].iter < proj.entries[j].iter

\* terminal_state.json, created once and never replaced, only ever holds the
\* decision the log holds, whoever commits the terminal and whoever of the
\* racing processes writes the file.
TerminalFileFollowsEvent ==
  terminal # NoVerdict => terminal = proj.terminal.verdict

\* The event is committed before anything is materialized: no file shows an
\* iteration, an artifact, an end or a request that the log does not have.
ProjectionsNeverAhead ==
  /\ \A i \in DOMAIN runlog : \E k \in DOMAIN proj.entries :
       proj.entries[k].iter = runlog[i]
  /\ \A f \in files : \E k \in DOMAIN log :
       log[k].bound /\ log[k].iter = f[2]
  /\ state.iter <= proj.iter
  /\ state.terminal # None => terminal # NoVerdict
  /\ state.pending # NoEvent =>
       log[state.pending + 1].type = "approval_requested"

\* One process at a time, crashes included: RUNLOG.md never gets a second
\* block for an iteration, however often its materialization is replayed.
RunlogBlockOnce ==
  \A i, j \in DOMAIN runlog : runlog[i] = runlog[j] => i = j

\* One process at a time, crashes included: once state.json says the run has
\* ended, no later command takes that back.
EndStaysStamped ==
  [][ state.state = TerminalMarker =>
        state'.state = TerminalMarker /\ state'.terminal = state.terminal ]_vars

\* One process at a time, until the first crash: after every command the
\* doctor finds nothing, and RUNLOG.md has the iterations of the log in order.
QuietWorkspaceAgrees ==
  crashes = 0 /\ (\A p \in Procs : At(p, "idle")) =>
    /\ StateJsonAgrees
    /\ TerminalFileAgrees
    /\ BoundEvidencePresent
    /\ runlog = [ i \in DOMAIN proj.entries |-> proj.entries[i].iter ]

\* A recorded end reaches both files and stays there, although a process may
\* die between the event, the file and the stamp, and a slower command may
\* write an older state.json over the stamp: `loop run` repairs it.
EndEventuallyPublished ==
  [] ( proj.terminal # NoTerminal =>
       <>[] ( /\ terminal = proj.terminal.verdict
              /\ Stamped(state, terminal.result) ) )

\* When every verifier passes, `loop run` invoked over and over completes the
\* run: a lost compare-and-swap means another process made progress, and a
\* crash never leaves a task neither selectable nor done.
RunSucceeds == <>(proj.terminal.verdict.result = "Succeeded")

-----------------------------------------------------------------------------
(* The contract the commands implement, as the log shows it.               *)

LedgerOf(pr) ==
  [ i \in DOMAIN pr.entries |->
      [ iter |-> pr.entries[i].iter, task |-> pr.entries[i].task,
        passed |-> pr.entries[i].outcome = "task_passed" ] ]

Contract == INSTANCE RunContract WITH
              NoTask <- None,
              Ends <- { v \in Verdicts : VerdictAdmissible(v) },
              Successes <- { v \in Verdicts : v.result = "Succeeded" },
              NoEnd <- NoVerdict,
              declared <- { t \in Tasks : status[t] = "done" },
              ledger <- LedgerOf(proj),
              iteration <- proj.iter,
              ready <- proj.state = "execute-task",
              ended <- proj.terminal.verdict,
              published <- terminal

\* While TASKS.json stands, everything the commands do to the log and to
\* terminal_state.json, in any interleaving and with any kill between two
\* writes, is one step of RunContract or no step of it.
ImplementsRunContract == Contract!Spec

-----------------------------------------------------------------------------
(* What documents and messages of the repository say and the code does not *)
(* keep; the runs that check these find a counterexample.                  *)

\* "A later `loop run` replays missing legacy materialization before
\* selecting work" (repo-os-contract, section 16).
SelectsAfterMaterializing ==
  \A p \in Procs : At(p, "select") =>
    \A i \in DOMAIN op[p].snap.entries : \E j \in DOMAIN runlog :
      runlog[j] = op[p].snap.entries[i].iter
=============================================================================
