------------------------------ MODULE Reports ------------------------------
(* The read-only commands beside a workspace that moves: doctor (contract.py, *)
(* runtime.py), simulate (simulate.py) and the stop hook that calls doctor     *)
(* (hooks/stop_firewall.py). None takes a lock, and each reads the store and   *)
(* the files several times; every read is a step. The workspace is LoopRun's.  *)
EXTENDS LoopRun

\* No process is called what stands for no process.
ASSUME ReportsAssumption == None \notin Procs

VARIABLES
  rd,        \* the read-only command being executed
  seen,      \* what was true of the workspace while it read
  forecast,  \* simulate's prediction, while nothing else has moved
  session    \* the agent session that wants to stop

readers == << rd, seen, forecast, session >>
allVars == << vars, readers >>

-----------------------------------------------------------------------------
(* Findings: code, what it names, iteration.                                 *)

Finding(code, what, iter) == << code, what, iter >>

StateDivergence(pr, doc) ==
  LET differs == [ state |-> doc.state # pr.state, iteration_id |-> doc.iter # pr.iter,
                   active_task |-> doc.active # pr.active,
                   terminal_state |-> doc.terminal # pr.terminal.verdict.result,
                   paused |-> doc.paused # pr.paused,
                   pending_approval |-> doc.pending # pr.pending ]
  IN  { Finding("state_field_mismatch", f, 0) : f \in { g \in DOMAIN differs : differs[g] } }

TerminalDesync(pr, end) ==
  LET v == pr.terminal.verdict
  IN  IF end = v THEN {}
      ELSE { Finding(IF end.result # v.result THEN "desynced_terminal_window"
                     ELSE "terminal_state_mismatch", "terminal", 0) }

\* Seeded fault: only the last event's artifacts are looked for.
MissingBoundOfLast(n) ==
  { Finding("missing_bound_evidence", f[1], f[2]) :
      f \in ( {"object", "record", "bundle"} \X
              { log[k].iter : k \in { j \in {n} : log[j].bound } } ) \ files }

\* The artifacts that the first n events bound and that are not there.
MissingBound(n) ==
  { Finding("missing_bound_evidence", f[1], f[2]) :
      f \in ( {"object", "record", "bundle"} \X
              { log[k].iter : k \in { j \in 1 .. n : log[j].bound } } ) \ files }

\* state.json names a verdict, so terminal_state.json is required.
MissingTerminal(doc, end) ==
  IF end = NoVerdict /\ doc.terminal # None
  THEN { Finding("missing_file", "terminal", 0) } ELSE {}

OrphanBundles ==
  { Finding("missing_evidence_record", "bundle", f[2]) :
      f \in { g \in files : g[1] = "bundle" /\ << "record", g[2] >> \notin files } }

DanglingRecords ==
  { Finding("missing_evidence_path", "record", f[2]) :
      f \in { g \in files : g[1] = "record" /\ << "bundle", g[2] >> \notin files } }

Unverified(end) ==
  IF /\ end.result = "Succeeded" /\ end.policy = VerifiedEvidence
     /\ ~MeetsStrictBar(end.evidence)
  THEN { Finding("unverified_evidence_terminal", "terminal", 0) } ELSE {}

\* Everything doctor would find if it read everything at once.
Faults ==
  UNION { StateDivergence(proj, state), TerminalDesync(proj, terminal),
          MissingBound(Len(log)), MissingTerminal(state, terminal),
          OrphanBundles, DanglingRecords, Unverified(terminal) }

\* The files say what the log says.
Consistent == StateJsonAgrees /\ TerminalFileAgrees /\ BoundEvidencePresent

-----------------------------------------------------------------------------
(* State.                                                                    *)

Off == [ pc |-> "off", verb |-> None, snap |-> EmptyProjection, doc |-> NoDoc,
         end |-> NoVerdict, found |-> {}, calm |-> TRUE, action |-> None,
         task |-> None ]

Unseen == [ faults |-> {}, agreed |-> FALSE ]

\* sync: legacy_sync_would_write. by: the `loop run` that came next. wrote:
\* whether that run has written a legacy file.
NoForecast == [ action |-> None, task |-> None, verdict |-> NoVerdict,
                sync |-> FALSE, by |-> None, wrote |-> FALSE ]

NeverBlocked == { Finding("none", "none", 0) }

ReportsInit ==
  /\ Init
  /\ rd = Off
  /\ seen = Unseen
  /\ forecast = NoForecast
  /\ session = [ open |-> TRUE, sentinel |-> NeverBlocked ]

\* Keeps what was true at any moment between a command's first and last read.
Watch ==
  seen' = IF rd'.pc = "off" THEN Unseen
          ELSE [ faults |-> (IF rd.pc = "off" THEN {} ELSE seen.faults) \cup Faults',
                 agreed |-> (rd.pc # "off" /\ seen.agreed) \/ Consistent' ]

Reading(at) == rd.pc = at /\ UNCHANGED << vars, session >>

\* One read that yields findings.
Found(then, new) == rd' = [ rd EXCEPT !.pc = then, !.found = @ \cup new ]

-----------------------------------------------------------------------------
(* loop doctor: validate_contract, then event_consistency_issues.            *)

StartDoctor ==
  /\ Reading("off")
  /\ rd' = [ Off EXCEPT !.pc = "state", !.verb = "doctor" ]
  /\ UNCHANGED forecast
  /\ Watch

ContractState ==
  /\ Reading("state")
  /\ rd' = [ rd EXCEPT !.pc = "terminal", !.doc = state ]
  /\ UNCHANGED forecast
  /\ Watch

ContractTerminal ==
  /\ Reading("terminal")
  /\ rd' = [ rd EXCEPT !.pc = "records", !.end = terminal,
                       !.found = @ \cup MissingTerminal(rd.doc, terminal) ]
  /\ UNCHANGED forecast
  /\ Watch

ContractRecords ==
  /\ Reading("records")
  /\ Found("bar", OrphanBundles \cup DanglingRecords)
  /\ UNCHANGED forecast
  /\ Watch

ContractBar ==
  /\ Reading("bar")
  /\ Found("status_log", Unverified(rd.end))
  /\ UNCHANGED forecast
  /\ Watch

\* Each report reads the stream anew and compares the fold it made of it.
ReadLog(at, then) ==
  /\ Reading(at)
  /\ rd' = [ rd EXCEPT !.pc = then, !.snap = proj,
               !.found = @ \cup IF proj.legal THEN {}
                                ELSE { Finding("illegal_event_sequence", "log", 0) } ]
  /\ UNCHANGED forecast
  /\ Watch

StatusState ==
  /\ Reading("status_state")
  /\ Found("replay_log", StateDivergence(rd.snap, state))
  /\ UNCHANGED forecast
  /\ Watch

ReplayTerminal ==
  /\ Reading("replay_terminal")
  /\ Found("bound_log", TerminalDesync(rd.snap, terminal))
  /\ UNCHANGED forecast
  /\ Watch

BoundFiles ==
  /\ Reading("bound_files")
  /\ Found("report", MissingBound(rd.snap.count))
  /\ UNCHANGED forecast
  /\ Watch

Doctor ==
  \/ ContractState \/ ContractTerminal \/ ContractRecords \/ ContractBar
  \/ ReadLog("status_log", "status_state") \/ StatusState
  \/ ReadLog("replay_log", "replay_terminal") \/ ReplayTerminal
  \/ ReadLog("bound_log", "bound_files") \/ BoundFiles

CloseReport ==
  /\ Reading("report") /\ rd.verb = "doctor"
  /\ rd' = Off
  /\ UNCHANGED forecast
  /\ Watch

-----------------------------------------------------------------------------
(* The stop hook.                                                            *)

\* Blocked once already in this turn, or not this time: the session ends.
StopAllowed == rd' = Off /\ session' = [ session EXCEPT !.open = FALSE ]

StartStop ==
  /\ Reading("off") /\ session.open
  /\ rd' = [ Off EXCEPT !.pc = "claim_file", !.verb = "stop" ]
  /\ UNCHANGED forecast
  /\ Watch

StopActive ==
  /\ rd.pc = "off" /\ session.open
  /\ StopAllowed
  /\ UNCHANGED << vars, forecast >>
  /\ Watch

\* _claims_succeeded: either file is enough.
ClaimFile ==
  /\ Reading("claim_file")
  /\ Found(IF terminal.result = "Succeeded" THEN "state" ELSE "claim_state", {})
  /\ UNCHANGED forecast
  /\ Watch

ClaimState ==
  /\ rd.pc = "claim_state"
  /\ IF state.terminal = "Succeeded" THEN Found("state", {}) /\ UNCHANGED session
     ELSE StopAllowed
  /\ UNCHANGED << vars, forecast >>
  /\ Watch

\* Seeded fault: the sentinel is compared and never written.
StopDecideForgetful ==
  /\ rd.pc = "report" /\ rd.verb = "stop"
  /\ IF rd.found = {} \/ session.sentinel = rd.found THEN StopAllowed
     ELSE rd' = Off /\ UNCHANGED session
  /\ UNCHANGED << vars, forecast >>
  /\ Watch

\* The sentinel holds the issues of the last block only.
StopDecide ==
  /\ rd.pc = "report" /\ rd.verb = "stop"
  /\ IF rd.found = {} \/ session.sentinel = rd.found THEN StopAllowed
     ELSE rd' = Off /\ session' = [ session EXCEPT !.sentinel = rd.found ]
  /\ UNCHANGED << vars, forecast >>
  /\ Watch

\* Fail-open: no CLI, a timeout, output that is not a report.
StopFails ==
  /\ rd.verb = "stop"
  /\ StopAllowed
  /\ UNCHANGED << vars, forecast >>
  /\ Watch

Stop == ClaimFile \/ ClaimState \/ StopDecide

-----------------------------------------------------------------------------
(* loop simulate.                                                            *)

StartSimulate ==
  /\ Reading("off") /\ proj.legal
  /\ rd' = [ Off EXCEPT !.pc = "sim_state", !.verb = "simulate", !.snap = proj ]
  /\ forecast' = NoForecast
  /\ Watch

SimulateState ==
  /\ Reading("sim_state")
  /\ Found("sim_terminal", StateDivergence(rd.snap, state))
  /\ UNCHANGED forecast
  /\ Watch

SimulateTerminal ==
  /\ Reading("sim_terminal")
  /\ Found("predict", TerminalDesync(rd.snap, terminal))
  /\ UNCHANGED forecast
  /\ Watch

\* Seeded fault: a prediction that ignores the dependencies.
PredictDeclared ==
  /\ Reading("predict")
  /\ LET pr == rd.snap
         Goes(action, t) ==
           rd' = [ rd EXCEPT !.pc = "sync", !.action = action, !.task = t,
                             !.end = IF action = "would_write_terminal"
                                     THEN AutoVerdict(pr) ELSE NoVerdict ]
     IN  IF pr.terminal # NoTerminal THEN Goes("already_terminal", None)
         ELSE IF pr.state # "execute-task" THEN Goes("would_refuse", None)
         ELSE IF NothingSelectable(pr)
              THEN Goes(IF AllDone(pr) THEN "would_write_terminal" ELSE "would_block", None)
              ELSE \E i \in DOMAIN TaskOrder :
                     /\ status[TaskOrder[i]] = "pending"
                     /\ TaskOrder[i] \notin DoneTasks(pr)
                     /\ \A j \in 1 .. i - 1 : TaskOrder[j] \in DoneTasks(pr)
                     /\ Goes(IF TaskOrder[i] \in Unrunnable THEN "would_refuse"
                             ELSE "would_dispatch", TaskOrder[i])
  /\ UNCHANGED forecast
  /\ Watch

\* _predict, from TASKS.json and the records that are there.
Predict ==
  /\ Reading("predict")
  /\ LET pr == rd.snap
         Goes(action, t) ==
           rd' = [ rd EXCEPT !.pc = "sync", !.action = action, !.task = t,
                             !.end = IF action = "would_write_terminal"
                                     THEN AutoVerdict(pr) ELSE NoVerdict ]
     IN  IF pr.terminal # NoTerminal THEN Goes("already_terminal", None)
         ELSE IF pr.state # "execute-task" THEN Goes("would_refuse", None)
         ELSE IF NothingSelectable(pr)
              THEN Goes(IF AllDone(pr) THEN "would_write_terminal" ELSE "would_block", None)
              ELSE \E t \in Tasks :
                     /\ IsNextTask(pr, t)
                     /\ Goes(IF t \in Unrunnable THEN "would_refuse" ELSE "would_dispatch", t)
  /\ UNCHANGED forecast
  /\ Watch

\* _legacy_sync_would_write
SyncWouldWrite(pr) ==
  IF pr.terminal # NoTerminal
  THEN terminal = NoVerdict \/ ~Stamped(state, pr.terminal.verdict.result)
  ELSE pr.state = "execute-task" /\ ~NothingDue(pr, state.iter)

\* The prediction is about a workspace that stood still while it was read.
PredictSync ==
  /\ Reading("sync")
  /\ forecast' = IF rd.calm
                 THEN [ NoForecast EXCEPT !.action = rd.action, !.task = rd.task,
                          !.verdict = rd.end, !.sync = SyncWouldWrite(rd.snap) ]
                 ELSE NoForecast
  /\ rd' = Off
  /\ Watch

Simulate == SimulateState \/ SimulateTerminal \/ Predict \/ PredictSync

-----------------------------------------------------------------------------
(* The workspace moves.                                                      *)

\* The next thing that happens after a prediction is a `loop run`, which the
\* prediction is then held against until that run appends.
Follow(p) ==
  forecast' =
    IF /\ forecast.action # None
       /\ op'[p].cmd = "run" /\ log' = log
       /\ IF forecast.by = None THEN At(p, "idle") ELSE forecast.by = p
    THEN [ forecast EXCEPT !.by = p,
             !.wrote = @ \/ << state, runlog, terminal >>' # << state, runlog, terminal >> ]
    ELSE NoForecast

Moves ==
  /\ \/ \E p \in Procs : (Invoke(p) \/ Work(p) \/ Crash(p)) /\ Follow(p)
     \/ (RequestApproval \/ Advance \/ EditTasks) /\ forecast' = NoForecast
  /\ rd' = IF rd.pc = "off" THEN rd ELSE [ rd EXCEPT !.calm = rd.verb # "simulate" ]
  /\ UNCHANGED session
  /\ Watch

ReportsNext ==
  \/ Moves
  \/ StartDoctor \/ Doctor \/ CloseReport
  \/ StartStop \/ StopActive \/ Stop \/ StopFails
  \/ StartSimulate \/ Simulate

\* The hook runs to its end, and the session asks again until it may stop.
ReportsSpec ==
  /\ ReportsInit /\ [][ReportsNext]_allVars
  /\ WF_allVars(Doctor \/ CloseReport \/ Stop \/ Simulate)
  /\ SF_allVars(StartStop)

-----------------------------------------------------------------------------
(* Properties.                                                               *)

\* A report beside a running command is still about this workspace: whatever
\* doctor finds was so at some moment while it read, although it compares a
\* file with a log it read earlier. And when it finds nothing there was a
\* moment when there was nothing to find; this half takes one process whose
\* only command is `loop run`. (A control command killed between its append and
\* its stamp, and a `loop run` that then brings state.json up to an older
\* entry, defeat it: the state.json that doctor reads agrees with the log it
\* read before the append, and never agreed with the log of its own time.)
ReportsTruthful ==
  /\ rd.pc \in { "report", "sync" } => rd.found \subseteq seen.faults
  /\ rd.pc = "report" /\ rd.found = {} => seen.agreed

\* What simulate predicts is what the next `loop run` does if nothing else
\* moves: whether it refuses, at once or once it has selected a task it cannot
\* verify, which task it dispatches, the payload it appends, and whether it
\* writes legacy files first (repo-os-contract, section 20).
PredictionsHold ==
  forecast.by # None =>
    LET o == op[forecast.by] IN
      /\ forecast.action = "would_refuse" => forecast.task # None
      /\ o.pc = "select" =>
           /\ forecast.action = "would_block" <=>
                NothingSelectable(o.snap) /\ ~AllDone(o.snap)
           /\ forecast.action = "would_refuse" <=>
                \E t \in Unrunnable : IsNextTask(o.snap, t)
      /\ o.pc \in { "mat_block", "mat_stamp", "end_create", "sync_stamp" } => forecast.sync
      /\ o.pc \in { "select", "commit" } => (forecast.sync <=> forecast.wrote)
      /\ o.pc \in { "end_check", "end_create", "sync_check" } =>
           forecast.action = "already_terminal"
      /\ o.pc = "commit" =>
           \/ /\ forecast.action = "would_dispatch"
              /\ o.event.type = "iteration_appended" /\ o.event.task = forecast.task
           \/ /\ forecast.action = "would_write_terminal"
              /\ o.event.type = "terminal_written" /\ o.event.verdict = forecast.verdict

\* The hook never locks a session: one that keeps asking to stop is let go,
\* although the findings it is blocked for change while commands run.
SessionEnds == <>(~session.open)
=============================================================================
