--------------------------- MODULE ReportsProofs ----------------------------
(***************************************************************************)
(* Proofs about the read-only commands beside a workspace that moves:      *)
(* what simulate foretells (Foretold), what a report that finds something  *)
(* has seen (Watched), and, for one process that only runs, what a report  *)
(* that finds nothing has seen (Tracking, Clean).                          *)
(***************************************************************************)
EXTENDS LoopRunFilesProofs, Reports

-----------------------------------------------------------------------------
(* The workspace underneath is LoopRun's: a reader never moves it.           *)

LEMMA ReadersMoveNothing ==
  ASSUME [ReportsNext]_allVars
  PROVE  [Next]_vars
<1>1. CASE Moves
  BY <1>1 DEF Moves, Next
<1>2. CASE StartDoctor \/ CloseReport \/ StartStop \/ StopActive \/ StopFails \/ StartSimulate
  BY <1>2 DEF StartDoctor, CloseReport, StartStop, StopActive, StopFails, StartSimulate,
     Reading
<1>3. CASE Doctor
  BY <1>3 DEF Doctor, ContractState, ContractTerminal, ContractRecords, ContractBar,
     ReadLog, StatusState, ReplayTerminal, BoundFiles, Reading
<1>4. CASE Stop \/ Simulate
  BY <1>4 DEF Stop, ClaimFile, ClaimState, StopDecide, Simulate, SimulateState,
     SimulateTerminal, Predict, PredictSync, Reading
<1>5. CASE UNCHANGED allVars
  BY <1>5 DEF allVars
<1> QED BY <1>1, <1>2, <1>3, <1>4, <1>5 DEF ReportsNext

LEMMA ReportsIsLoopRun == ReportsSpec => Spec
<1>1. ReportsInit => Init
  BY DEF ReportsInit
<1>2. [ReportsNext]_allVars => [Next]_vars
  BY ReadersMoveNothing
<1> QED BY <1>1, <1>2, PTL DEF ReportsSpec, Spec
-----------------------------------------------------------------------------
(* What simulate predicts.  A prediction speaks of the workspace as it stood  *)
(* when it was made; the `loop run` that comes next reads the same workspace  *)
(* step by step, and the prediction stays true of what it has yet to do.      *)

SimPoints == {"sim_state", "sim_terminal", "predict", "sync"}

\* What a `loop run` does to the workspace as it is.
Foreseen(action, t, v) ==
  \/ proj.terminal # NoTerminal /\ action = "already_terminal"
  \/ /\ proj.terminal = NoTerminal /\ proj.state # "execute-task"
     /\ action = "would_refuse"
  \/ /\ proj.terminal = NoTerminal /\ proj.state = "execute-task"
     /\ \/ /\ ~NothingSelectable(proj) /\ t \in Tasks /\ IsNextTask(proj, t)
           /\ action = IF t \in Unrunnable THEN "would_refuse" ELSE "would_dispatch"
        \/ NothingSelectable(proj) /\ AllDone(proj)
           /\ action = "would_write_terminal" /\ v = AutoVerdict(proj)
        \/ NothingSelectable(proj) /\ ~AllDone(proj) /\ action = "would_block"

Predicted(f, e) ==
  \/ /\ f.action = "would_dispatch"
     /\ e.type = "iteration_appended" /\ e.task = f.task
  \/ /\ f.action = "would_write_terminal"
     /\ e.type = "terminal_written" /\ e.verdict = f.verdict

\* A run on its way to an append, or to the files of an end.
KeepsForecast(o, f) ==
  /\ o.cmd = "run" /\ o.snap = proj
  /\ proj.terminal = NoTerminal =>
       /\ proj.state = "execute-task"
       /\ \/ o.pc = "reconcile" /\ ~f.wrote /\ (f.sync <=> ~NothingDue(proj, state.iter))
          \/ o.pc \in MatPoints /\ f.sync /\ (f.wrote \/ state.iter < o.entry.iter)
          \/ o.pc = "select" /\ (f.sync <=> f.wrote)
          \/ o.pc = "commit" /\ (f.sync <=> f.wrote) /\ Predicted(f, o.event)
  /\ proj.terminal # NoTerminal =>
       /\ o.verdict = proj.terminal.verdict
       /\ \/ /\ o.pc = "end_check"
             /\ f.sync <=> terminal = NoVerdict \/ ~Stamped(state, o.verdict.result)
          \/ o.pc \in {"end_read", "end_create", "end_stamp", "sync_read", "sync_stamp"}
             /\ f.sync
          \/ o.pc = "sync_check" /\ (f.sync \/ Stamped(state, o.verdict.result))

ReaderFields ==
  DOMAIN rd = { "pc", "verb", "snap", "doc", "end", "found", "calm", "action", "task" }

ForecastFields ==
  DOMAIN forecast = { "action", "task", "verdict", "sync", "by", "wrote" }

Simulating ==
  /\ rd.pc \in SimPoints <=> rd.verb = "simulate"
  /\ rd.verb = "simulate" /\ rd.calm =>
       /\ rd.snap = proj
       /\ rd.pc = "sync" => Foreseen(rd.action, rd.task, rd.end)

Forecasting ==
  /\ forecast.action # None => Foreseen(forecast.action, forecast.task, forecast.verdict)
  /\ forecast.action # None /\ forecast.by = None =>
       (forecast.sync <=> SyncWouldWrite(proj)) /\ ~forecast.wrote
  /\ forecast.by # None =>
       /\ forecast.action # None /\ forecast.by \in Procs
       /\ KeepsForecast(op[forecast.by], forecast)

Foretold == ReaderFields /\ ForecastFields /\ Simulating /\ Forecasting

LEMMA OffFields ==
  /\ DOMAIN Off = { "pc", "verb", "snap", "doc", "end", "found", "calm", "action", "task" }
  /\ Off.pc = "off" /\ Off.verb = None /\ Off.found = {}
BY DEF Off

LEMMA NoForecastFields ==
  /\ DOMAIN NoForecast = { "action", "task", "verdict", "sync", "by", "wrote" }
  /\ NoForecast.action = None /\ NoForecast.by = None
BY DEF NoForecast

LEMMA NoForecasting ==
  ASSUME forecast' = NoForecast
  PROVE  ForecastFields' /\ Forecasting'
BY NoForecastFields DEF ForecastFields, Forecasting

\* Readers other than simulate.
LEMMA OthersKeepReader ==
  ASSUME ReaderFields, Simulating,
         StartDoctor \/ Doctor \/ CloseReport \/ StartStop \/ StopActive \/ Stop \/ StopFails
  PROVE  ReaderFields' /\ Simulating' /\ UNCHANGED forecast
<1>1. CASE StartDoctor \/ StartStop
  <2>1. rd'.pc \in { "state", "claim_file" } /\ rd'.verb \in { "doctor", "stop" }
        /\ DOMAIN rd' = DOMAIN Off
    BY <1>1, OffFields DEF StartDoctor, StartStop
  <2> QED BY <1>1, <2>1, OffFields DEF StartDoctor, StartStop, Simulating, ReaderFields,
         SimPoints
<1>2. rd' = Off => ReaderFields' /\ Simulating'
  BY OffFields DEF Simulating, ReaderFields, SimPoints, None
<1>3. CASE CloseReport \/ StopActive \/ StopFails
  BY <1>2, <1>3 DEF CloseReport, StopActive, StopFails, StopAllowed
<1>4. ASSUME DOMAIN rd' = DOMAIN rd, rd'.verb = rd.verb, rd'.pc \notin SimPoints,
             rd.pc \notin SimPoints
      PROVE  ReaderFields' /\ Simulating'
  BY <1>4 DEF Simulating, ReaderFields
<1>5. CASE Doctor
  <2>1. /\ DOMAIN rd' = DOMAIN rd /\ rd'.verb = rd.verb
        /\ rd'.pc \notin SimPoints /\ rd.pc \notin SimPoints
    BY <1>5 DEF Doctor, ContractState, ContractTerminal, ContractRecords, ContractBar,
       ReadLog, StatusState, ReplayTerminal, BoundFiles, Reading, Found, ReaderFields,
       SimPoints
  <2>2. UNCHANGED forecast
    BY <1>5 DEF Doctor, ContractState, ContractTerminal, ContractRecords, ContractBar,
       ReadLog, StatusState, ReplayTerminal, BoundFiles
  <2> QED BY <1>4, <2>1, <2>2
<1>6. CASE Stop
  <2>1. UNCHANGED forecast
    BY <1>6 DEF Stop, ClaimFile, ClaimState, StopDecide
  <2>2. CASE rd' = Off
    BY <1>2, <2>1, <2>2
  <2>3. CASE rd' # Off
    <3>1. ClaimFile \/ ClaimState
      BY <1>6, <2>3 DEF Stop, StopDecide, StopAllowed
    <3>2. /\ DOMAIN rd' = DOMAIN rd /\ rd'.verb = rd.verb
          /\ rd'.pc \notin SimPoints /\ rd.pc \notin SimPoints
      BY <2>3, <3>1 DEF ClaimFile, ClaimState, StopAllowed, Reading, Found, ReaderFields,
         SimPoints
    <3> QED BY <1>4, <2>1, <3>2
  <2> QED BY <2>2, <2>3
<1> QED BY <1>1, <1>3, <1>5, <1>6 DEF StartDoctor, StartStop, CloseReport, StopActive, StopFails

LEMMA ForesightStays ==
  ASSUME UNCHANGED << status, log, proj, files >>, NEW a, NEW t, NEW v, Foreseen(a, t, v)
  PROVE  Foreseen(a, t, v)'
<1>1. \A u : Selectable(proj, u)' = Selectable(proj, u)
  BY DEF Selectable, DoneTasks, PassedIn
<1>2. NothingSelectable(proj)' = NothingSelectable(proj)
  BY <1>1 DEF NothingSelectable
<1>3. IsNextTask(proj, t) => IsNextTask(proj, t)'
  BY <1>1 DEF IsNextTask
<1>4. AllDone(proj)' = AllDone(proj)
  BY DEF AllDone, DoneTasks, PassedIn
<1>5. AutoVerdict(proj)' = AutoVerdict(proj)
  <2>1. \A u : RecordsOf(proj, u)' = RecordsOf(proj, u)
    BY DEF RecordsOf
  <2>2. \A c : MeetsStrictBar(c)' = MeetsStrictBar(c)
    BY DEF MeetsStrictBar, BoundOnce
  <2> QED BY <2>1, <2>2 DEF AutoVerdict
<1> QED BY <1>2, <1>3, <1>4, <1>5 DEF Foreseen

\* A prediction that was made while nothing moved.
LEMMA PredictForesees ==
  ASSUME rd.snap = proj, Predict, ReaderFields
  PROVE  Foreseen(rd.action, rd.task, rd.end)'
<1>1. UNCHANGED vars
  BY DEF Predict, Reading
<1> DEFINE Goes(action, t) ==
      rd' = [ rd EXCEPT !.pc = "sync", !.action = action, !.task = t,
                        !.end = IF action = "would_write_terminal"
                                THEN AutoVerdict(proj) ELSE NoVerdict ]
<1>2. ASSUME NEW action, NEW t, Goes(action, t), Foreseen(action, t, AutoVerdict(proj))
      PROVE  Foreseen(rd.action, rd.task, rd.end)'
  <2>1. rd'.action = action /\ rd'.task = t
        /\ (action = "would_write_terminal" => rd'.end = AutoVerdict(proj))
    BY <1>2 DEF ReaderFields
  <2>2. Foreseen(rd'.action, rd'.task, rd'.end)
    BY <1>2, <2>1 DEF Foreseen
  <2>3. \A a, x, v : Foreseen(a, x, v) => Foreseen(a, x, v)'
    BY <1>1, ForesightStays DEF vars
  <2>4. PICK a, x, v : a = rd'.action /\ x = rd'.task /\ v = rd'.end
    OBVIOUS
  <2>5. Foreseen(a, x, v)'
    BY <2>2, <2>3, <2>4
  <2> QED BY <2>4, <2>5 DEF Foreseen
<1>3. CASE proj.terminal # NoTerminal
  <2>1. Goes("already_terminal", None)
    BY <1>3 DEF Predict
  <2>2. Foreseen("already_terminal", None, AutoVerdict(proj))
    BY <1>3 DEF Foreseen
  <2> QED BY <1>2, <2>1, <2>2
<1>4. CASE proj.terminal = NoTerminal /\ proj.state # "execute-task"
  <2>1. Goes("would_refuse", None)
    BY <1>4 DEF Predict
  <2>2. Foreseen("would_refuse", None, AutoVerdict(proj))
    BY <1>4 DEF Foreseen
  <2> QED BY <1>2, <2>1, <2>2
<1>5. CASE proj.terminal = NoTerminal /\ proj.state = "execute-task" /\ NothingSelectable(proj)
  <2>1. CASE AllDone(proj)
    <3>1. Goes("would_write_terminal", None)
      BY <1>5, <2>1 DEF Predict
    <3>2. Foreseen("would_write_terminal", None, AutoVerdict(proj))
      BY <1>5, <2>1 DEF Foreseen
    <3> QED BY <1>2, <3>1, <3>2
  <2>2. CASE ~AllDone(proj)
    <3>1. Goes("would_block", None)
      BY <1>5, <2>2 DEF Predict
    <3>2. Foreseen("would_block", None, AutoVerdict(proj))
      BY <1>5, <2>2 DEF Foreseen
    <3> QED BY <1>2, <3>1, <3>2
  <2> QED BY <2>1, <2>2
<1>6. CASE proj.terminal = NoTerminal /\ proj.state = "execute-task" /\ ~NothingSelectable(proj)
  <2>1. PICK t \in Tasks :
          /\ IsNextTask(proj, t)
          /\ Goes(IF t \in Unrunnable THEN "would_refuse" ELSE "would_dispatch", t)
    BY <1>6 DEF Predict
  <2>2. PICK action : action = IF t \in Unrunnable THEN "would_refuse" ELSE "would_dispatch"
    OBVIOUS
  <2>3. Foreseen(action, t, AutoVerdict(proj))
    BY <1>6, <2>1, <2>2 DEF Foreseen
  <2> QED BY <1>2, <2>1, <2>2, <2>3
<1> QED BY <1>3, <1>4, <1>5, <1>6

\* A step of a process that appends nothing leaves the plan and the log alone.
LEMMA NoAppendNoChange ==
  ASSUME IInv, NEW p \in Procs, Invoke(p) \/ Work(p) \/ Crash(p), log' = log
  PROVE  UNCHANGED << status, log, proj >>
<1>1. CASE Invoke(p)
  BY <1>1, Zenon DEF Invoke, RunReady, RunTerminal, Approve, Pause, Resume, Cancel, Prepare
<1>2. ~Commit(p)
  BY DEF Commit, AppendEvent, IInv, LogInv
<1>3. CASE Verify(p) \/ Conclude(p)
  BY <1>3 DEF Verify, Conclude
<1>4. CASE WriteEvidence(p)
  BY <1>4 DEF WriteEvidence, WriteArtifact
<1> QED BY <1>1, <1>2, <1>3, <1>4, QuietSteps, Zenon DEF Work

\* The steps that can follow a prediction.
LEMMA IdleStarts ==
  ASSUME IInv, NEW p \in Procs, Invoke(p) \/ Work(p) \/ Crash(p), At(p, "idle"),
         op'[p].cmd = "run"
  PROVE  RunReady(p) \/ RunTerminal(p)
<1>0. op[p] \in Ops /\ DOMAIN op = Procs
  BY DEF IInv, OpsInv, OpInv
<1>1. ~Work(p) /\ ~Crash(p)
  <2>1. ~Crash(p)
    BY DEF Crash, At
  <2>2. ~(Commit(p) \/ Conflict(p) \/ Reconcile(p) \/ Verify(p) \/ Conclude(p) \/ GiveUp(p))
    BY DEF Commit, Conflict, Reconcile, Verify, Conclude, GiveUp, At
  <2>3. ~(WriteEvidence(p) \/ MaterializeRead(p) \/ MaterializeCheck(p)
           \/ MaterializeBlock(p) \/ MaterializeStamp(p))
    BY DEF WriteEvidence, WriteArtifact, MaterializeRead, MaterializeCheck,
       MaterializeBlock, MaterializeStamp, At
  <2>4. ~(EndCheck(p) \/ EndRead(p) \/ EndCreate(p) \/ EndStamp(p)
           \/ SyncCheck(p) \/ SyncRead(p) \/ SyncStamp(p))
    BY DEF EndCheck, EndRead, EndCreate, EndStamp, SyncCheck, SyncRead, SyncStamp, At
  <2>5. ~(Reread(p) \/ DocRead(p) \/ DocStamp(p))
    BY DEF Reread, DocRead, DocStamp, At
  <2> QED BY <2>1, <2>2, <2>3, <2>4, <2>5 DEF Work
<1>2. ASSUME NEW cmd \in {"approve", "pause", "resume", "cancel"}, NEW e PROVE ~Prepare(p, cmd, e)
  BY <1>0, <1>2 DEF Prepare, Ops
<1>3. ~(Approve(p) \/ Pause(p) \/ Resume(p) \/ Cancel(p))
  BY <1>2 DEF Approve, Pause, Resume, Cancel
<1> QED BY <1>1, <1>3 DEF Invoke

\* The run that comes next is as it was foreseen.
LEMMA StartKeepsForecast ==
  ASSUME IInv, NEW p \in Procs, RunReady(p) \/ RunTerminal(p), forecast.action # None,
         (forecast.sync <=> SyncWouldWrite(proj)) /\ ~forecast.wrote,
         NEW f, f.sync = forecast.sync, f.wrote <=> forecast.wrote,
         NEW n, n = op'[p]
  PROVE  KeepsForecast(n, f)'
<1>0. op[p] \in Ops /\ DOMAIN op = Procs
  BY DEF IInv, OpsInv, OpInv
<1>1. proj' = proj /\ state' = state /\ terminal' = terminal
  BY DEF RunReady, RunTerminal, disk
<1>2. CASE RunReady(p)
  <2>1. /\ n.pc = "reconcile" /\ n.cmd = "run" /\ n.snap = proj
        /\ proj.terminal = NoTerminal /\ proj.state = "execute-task"
    BY <1>0, <1>2 DEF RunReady, Ops
  <2>2. f.sync <=> ~NothingDue(proj, state.iter)
    BY <2>1 DEF SyncWouldWrite
  <2>3. NothingDue(proj, state.iter)' = NothingDue(proj, state.iter)
    BY <1>1 DEF NothingDue
  <2> QED BY <1>1, <2>1, <2>2, <2>3, Zenon DEF KeepsForecast
<1>3. CASE RunTerminal(p)
  <2>1. /\ n.pc = "end_check" /\ n.cmd = "run" /\ n.snap = proj
        /\ n.verdict = proj.terminal.verdict /\ proj.terminal # NoTerminal
    BY <1>0, <1>3 DEF RunTerminal, Ops
  <2>2. f.sync <=> terminal = NoVerdict \/ ~Stamped(state, proj.terminal.verdict.result)
    BY <2>1 DEF SyncWouldWrite
  <2> QED BY <1>1, <2>1, <2>2, Zenon DEF KeepsForecast, Stamped
<1> QED BY <1>2, <1>3

ChangesFiles == << state, runlog, terminal >>' # << state, runlog, terminal >>

\* On to the next entry, or to the selection.
LEMMA ReconcileFromKeepsForecast ==
  ASSUME IInv, NEW p \in Procs, NEW current \in Nat, ReconcileFrom(p, current),
         UNCHANGED proj, proj.terminal = NoTerminal, proj.state = "execute-task",
         op[p].cmd = "run", op[p].snap = proj,
         NEW n, n = op'[p], NEW f, state'.iter = current,
         NothingDue(proj, current) => (f.sync <=> f.wrote),
         ~NothingDue(proj, current) => f.sync
  PROVE  KeepsForecast(n, f)'
<1>0. op[p] \in Ops /\ DOMAIN op = Procs
  BY DEF IInv, OpsInv, OpInv
<1>1. CASE NothingDue(proj, current) /\
           op' = [ op EXCEPT ![p].pc = "select", ![p].doc = NoDoc,
                             ![p].entry = Entry(NoEventYet) ]
  <2>1. n.pc = "select" /\ n.cmd = "run" /\ n.snap = proj
    BY <1>0, <1>1 DEF Ops
  <2> QED BY <1>1, <2>1, Zenon DEF KeepsForecast
<1>2. ASSUME NEW i \in DOMAIN op[p].snap.entries,
             IsNextDue(op[p].snap, current, op[p].snap.entries[i]),
             op' = [ op EXCEPT ![p].pc = "mat_read", ![p].entry = op[p].snap.entries[i] ]
      PROVE  KeepsForecast(n, f)'
  <2>1. /\ n.pc = "mat_read" /\ n.cmd = "run" /\ n.snap = proj
        /\ n.entry = op[p].snap.entries[i]
    BY <1>0, <1>2 DEF Ops
  <2>2. n.entry.iter > current
    BY <1>2, <2>1 DEF IsNextDue
  <2>3. ~NothingDue(proj, current)
    <3>1. proj.entries[i] \in RunlogEntries
      BY <1>2 DEF IInv, LogInv, Projections
    <3>2. proj.entries[i].iter \in Nat
      BY <3>1 DEF RunlogEntries
    <3>3. ~(proj.entries[i].iter <= current)
      BY <2>1, <2>2, <3>2
    <3> QED BY <1>2, <3>3 DEF NothingDue
  <2> QED BY <2>1, <2>2, <2>3 DEF KeepsForecast, MatPoints
<1> QED BY <1>1, <1>2 DEF ReconcileFrom

\* What a step leaves of a forecast.
SameForecast(f) ==
  /\ f.action = forecast.action /\ f.task = forecast.task /\ f.verdict = forecast.verdict
  /\ f.sync = forecast.sync
  /\ f.wrote <=> forecast.wrote \/ ChangesFiles

LEMMA ForecastPoints ==
  ASSUME NEW o, NEW f, KeepsForecast(o, f)
  PROVE  /\ o.cmd = "run" /\ o.snap = proj
         /\ o.pc \in {"reconcile", "select", "commit"} \cup MatPoints =>
              proj.terminal = NoTerminal /\ proj.state = "execute-task"
         /\ o.pc = "reconcile" => ~f.wrote /\ (f.sync <=> ~NothingDue(proj, state.iter))
         /\ o.pc \in MatPoints => f.sync /\ (f.wrote \/ state.iter < o.entry.iter)
         /\ o.pc \in {"select", "commit"} => (f.sync <=> f.wrote)
         /\ o.pc = "commit" => Predicted(f, o.event)
<1>1. /\ o.cmd = "run" /\ o.snap = proj
      /\ o.pc \in {"reconcile", "select", "commit"} \cup MatPoints =>
              proj.terminal = NoTerminal /\ proj.state = "execute-task"
  BY DEF KeepsForecast, MatPoints
<1>2. /\ o.pc = "reconcile" => ~f.wrote /\ (f.sync <=> ~NothingDue(proj, state.iter))
      /\ o.pc \in {"select", "commit"} => (f.sync <=> f.wrote)
      /\ o.pc = "commit" => Predicted(f, o.event)
  BY <1>1 DEF KeepsForecast, MatPoints
<1>3. o.pc \in MatPoints => f.sync /\ (f.wrote \/ state.iter < o.entry.iter)
  BY <1>1 DEF KeepsForecast, MatPoints
<1> QED BY <1>1, <1>2, <1>3

LEMMA EndForecastPoints ==
  ASSUME NEW o, NEW f, KeepsForecast(o, f),
         o.pc \in { "end_check", "end_read", "end_create", "end_stamp", "sync_check",
                    "sync_read", "sync_stamp" }
  PROVE  /\ o.cmd = "run" /\ o.snap = proj
         /\ proj.terminal # NoTerminal /\ o.verdict = proj.terminal.verdict
         /\ o.pc = "end_check" =>
              (f.sync <=> terminal = NoVerdict \/ ~Stamped(state, o.verdict.result))
         /\ o.pc = "sync_check" => (f.sync \/ Stamped(state, o.verdict.result))
         /\ o.pc \notin {"end_check", "sync_check"} => f.sync
<1>1. /\ o.cmd = "run" /\ o.snap = proj
      /\ proj.terminal # NoTerminal /\ o.verdict = proj.terminal.verdict
  BY DEF KeepsForecast, MatPoints
<1>2. /\ o.pc = "end_check" =>
              (f.sync <=> terminal = NoVerdict \/ ~Stamped(state, o.verdict.result))
      /\ o.pc = "sync_check" => (f.sync \/ Stamped(state, o.verdict.result))
      /\ o.pc \notin {"end_check", "sync_check"} => f.sync
  BY <1>1 DEF KeepsForecast
<1> QED BY <1>1, <1>2

\* Only one task is the next one.
LEMMA NextTaskUnique ==
  ASSUME NEW s, NEW t, NEW u, IsNextTask(s, t), IsNextTask(s, u)
  PROVE  t = u
<1>1. PICK i \in DOMAIN TaskOrder :
        /\ t = TaskOrder[i] /\ Selectable(s, t)
        /\ \A j \in 1 .. i - 1 : ~Selectable(s, TaskOrder[j])
  BY DEF IsNextTask
<1>2. PICK k \in DOMAIN TaskOrder :
        /\ u = TaskOrder[k] /\ Selectable(s, u)
        /\ \A j \in 1 .. k - 1 : ~Selectable(s, TaskOrder[j])
  BY DEF IsNextTask
<1>3. i \in Nat \ {0} /\ k \in Nat \ {0}
  BY LoopRunAssumption
<1>4. i \notin 1 .. k - 1 /\ k \notin 1 .. i - 1
  BY <1>1, <1>2
<1>5. i = k
  BY <1>3, <1>4
<1> QED BY <1>1, <1>2, <1>5

LEMMA ReconcileKeepsForecast ==
  ASSUME IInv, NEW p \in Procs, KeepsForecast(op[p], forecast), Reconcile(p),
         NEW n, n = op'[p], NEW f, SameForecast(f)
  PROVE  KeepsForecast(n, f)'
<1>1. UNCHANGED << proj, state, runlog, terminal >> /\ op[p].pc = "reconcile"
      /\ ReconcileFrom(p, state.iter)
  BY DEF Reconcile, disk, At
<1>2. /\ op[p].cmd = "run" /\ op[p].snap = proj /\ proj.terminal = NoTerminal
      /\ proj.state = "execute-task" /\ ~forecast.wrote
      /\ forecast.sync <=> ~NothingDue(proj, state.iter)
  BY <1>1, ForecastPoints
<1>3. f.sync = forecast.sync /\ ~f.wrote
  BY <1>1, <1>2, Zenon DEF SameForecast, ChangesFiles
<1>4. state'.iter = state.iter /\ state.iter \in Nat
  BY <1>1 DEF IInv, DiskTyped, StateDocs
<1>5. /\ NothingDue(proj, state.iter) => (f.sync <=> f.wrote)
      /\ ~NothingDue(proj, state.iter) => f.sync
  BY <1>2, <1>3, Zenon
<1> QED BY <1>1, <1>2, <1>4, <1>5, ReconcileFromKeepsForecast

LEMMA SelectKeepsForecast ==
  ASSUME IInv, NEW p \in Procs, KeepsForecast(op[p], forecast),
         Foreseen(forecast.action, forecast.task, forecast.verdict),
         Verify(p) \/ Conclude(p),
         NEW n, n = op'[p], NEW f, SameForecast(f)
  PROVE  KeepsForecast(n, f)'
<1>0. op[p] \in Ops /\ DOMAIN op = Procs /\ op[p].snap.count \in Nat
  BY DEF IInv, OpsInv, OpInv, Ops, Projections
<1>1. proj' = proj /\ state' = state /\ runlog' = runlog /\ terminal' = terminal
      /\ op[p].pc = "select"
  BY DEF Verify, Conclude, disk, At
<1>2. /\ op[p].cmd = "run" /\ op[p].snap = proj /\ proj.terminal = NoTerminal
      /\ proj.state = "execute-task" /\ (forecast.sync <=> forecast.wrote)
  BY <1>1, ForecastPoints
<1>3. /\ f.sync <=> f.wrote
      /\ f.action = forecast.action /\ f.task = forecast.task
      /\ f.verdict = forecast.verdict
  BY <1>1, <1>2, Zenon DEF SameForecast, ChangesFiles
<1>4. /\ n.pc = "commit" /\ n.cmd = "run" /\ n.snap = proj
      /\ Predicted(f, n.event)
  <2>1. CASE Verify(p)
    <3>1. PICK t \in Tasks, outcome \in { "task_passed", "task_failed" } :
            /\ IsNextTask(proj, t) /\ t \notin Unrunnable
            /\ op' = [ op EXCEPT ![p].pc = "commit",
                 ![p].event = [ Event("iteration_appended", op[p].snap.count) EXCEPT
                   !.iter = op[p].snap.iter + 1, !.task = t, !.bound = TRUE,
                   !.outcome = outcome ] ]
      BY <1>2, <2>1 DEF Verify
    <3>2. n.pc = "commit" /\ n.cmd = "run" /\ n.snap = proj
          /\ n.event.type = "iteration_appended" /\ n.event.task = t
      BY <1>0, <1>2, <3>1 DEF Ops, Event
    <3>3. ~NothingSelectable(proj)
      BY <3>1 DEF IsNextTask, NothingSelectable
    <3>4. IsNextTask(proj, forecast.task)
          /\ (forecast.task \notin Unrunnable => forecast.action = "would_dispatch")
      BY <1>2, <3>3 DEF Foreseen
    <3>5. forecast.task = t
      BY <3>1, <3>4, NextTaskUnique
    <3> QED BY <1>3, <3>1, <3>2, <3>4, <3>5 DEF Predicted
  <2>2. CASE Conclude(p)
    <3>1. PICK v : v = AutoVerdict(proj)
      OBVIOUS
    <3>2. /\ op' = [ op EXCEPT ![p].pc = "commit", ![p].verdict = v,
                 ![p].event = [ Event("terminal_written", op[p].snap.count) EXCEPT
                       !.iter = op[p].snap.iter, !.verdict = v ] ]
          /\ NothingSelectable(proj) /\ AllDone(proj)
      BY <1>2, <2>2, <3>1 DEF Conclude
    <3>3. n.pc = "commit" /\ n.cmd = "run" /\ n.snap = proj
          /\ n.event.type = "terminal_written" /\ n.event.verdict = v
      BY <1>0, <1>2, <3>2 DEF Ops, Event
    <3>4. forecast.action = "would_write_terminal" /\ forecast.verdict = v
      BY <1>2, <3>1, <3>2 DEF Foreseen
    <3> QED BY <1>3, <3>3, <3>4 DEF Predicted
  <2> QED BY <2>1, <2>2
<1> QED BY <1>1, <1>2, <1>3, <1>4, Zenon DEF KeepsForecast

\* A step to pc that leaves the rest of what matters.
LEMMA OnwardFields ==
  ASSUME IInv, NEW p \in Procs, NEW pc,
         \/ Goto(p, pc)
         \/ op' = [ op EXCEPT ![p].pc = pc, ![p].doc = state ]
  PROVE  /\ op'[p].pc = pc /\ op'[p].cmd = op[p].cmd /\ op'[p].snap = op[p].snap
         /\ op'[p].entry = op[p].entry /\ op'[p].event = op[p].event
         /\ op'[p].verdict = op[p].verdict
<1>1. op[p] \in Ops /\ DOMAIN op = Procs
  BY DEF IInv, OpsInv, OpInv
<1>2. CASE Goto(p, pc)
  BY <1>1, <1>2 DEF Goto, Ops
<1>3. CASE op' = [ op EXCEPT ![p].pc = pc, ![p].doc = state ]
  BY <1>1, <1>3 DEF Ops
<1> QED BY <1>2, <1>3

LEMMA ReturnEndsForecast ==
  ASSUME IInv, NEW p \in Procs, Return(p)
  PROVE  op'[p].cmd # "run"
<1>1. DOMAIN op = Procs /\ Idle.cmd = None
  BY DEF IInv, OpsInv, Idle
<1> QED BY <1>1 DEF Return, None

LEMMA MaterializeKeepsForecast ==
  ASSUME IInv, NEW p \in Procs, KeepsForecast(op[p], forecast), op'[p].cmd = "run",
         MaterializeRead(p) \/ MaterializeCheck(p) \/ MaterializeBlock(p) \/ MaterializeStamp(p),
         NEW n, n = op'[p], NEW f, SameForecast(f)
  PROVE  KeepsForecast(n, f)'
<1>0. op[p] \in Ops /\ DOMAIN op = Procs /\ state.iter \in Nat /\ op[p].entry.iter \in Nat
  BY DEF IInv, OpsInv, OpInv, Ops, DiskTyped, StateDocs, RunlogEntries
<1>1. op[p].pc \in MatPoints
  BY DEF MaterializeRead, MaterializeCheck, MaterializeBlock, MaterializeStamp, MatPoints, At
<1>2. /\ op[p].cmd = "run" /\ op[p].snap = proj /\ proj.terminal = NoTerminal
      /\ proj.state = "execute-task" /\ forecast.sync
      /\ forecast.wrote \/ state.iter < op[p].entry.iter
  BY <1>1, ForecastPoints
<1>3. f.sync
  BY <1>2, Zenon DEF SameForecast
<1>4. proj' = proj
  BY DEF MaterializeRead, MaterializeCheck, MaterializeBlock, MaterializeStamp
<1>5. CASE MaterializeRead(p) \/ MaterializeCheck(p) \/ MaterializeBlock(p)
  <2>1. state' = state
    BY <1>5 DEF MaterializeRead, MaterializeCheck, MaterializeBlock, disk
  <2>2. PICK pc \in MatPoints :
          Goto(p, pc) \/ op' = [ op EXCEPT ![p].pc = pc, ![p].doc = state ]
    BY <1>5, ReturnEndsForecast DEF MaterializeRead, MaterializeCheck, MaterializeBlock,
       MatPoints
  <2>3. /\ n.pc \in MatPoints /\ n.cmd = op[p].cmd /\ n.snap = op[p].snap
        /\ n.entry = op[p].entry
    BY <2>2, OnwardFields
  <2>4. f.wrote \/ state'.iter < n.entry.iter
    <3>1. forecast.wrote => f.wrote
      BY Zenon DEF SameForecast
    <3>2. state.iter < op[p].entry.iter => state'.iter < n.entry.iter
      BY <2>1, <2>3
    <3> QED BY <1>2, <3>1, <3>2, Zenon
  <2> QED BY <1>2, <1>3, <1>4, <2>3, <2>4, Zenon DEF KeepsForecast
<1>6. CASE MaterializeStamp(p)
  <2>1. PICK i : i = op[p].entry.iter
    OBVIOUS
  <2>2. state'.iter = i
    <3>1. \/ op[p].doc \in StateDocs
      BY <1>0 DEF Ops
    <3> QED BY <1>6, <2>1, <3>1 DEF MaterializeStamp, StateDocs
  <2>3. f.wrote
    <3>1. forecast.wrote \/ state' # state
      BY <1>0, <1>2, <2>1, <2>2
    <3> QED BY <3>1, Zenon DEF SameForecast, ChangesFiles
  <2>4. ReconcileFrom(p, i)
    BY <1>6, <2>1, ReturnEndsForecast DEF MaterializeStamp
  <2>5. f.sync <=> f.wrote
    BY <1>3, <2>3, Zenon
  <2> QED BY <1>0, <1>2, <1>3, <1>4, <2>1, <2>2, <2>4, <2>5, ReconcileFromKeepsForecast
<1> QED BY <1>5, <1>6

LEMMA PublishKeepsForecast ==
  ASSUME IInv, NEW p \in Procs, KeepsForecast(op[p], forecast), op'[p].cmd = "run",
         \/ EndCheck(p) \/ EndRead(p) \/ EndCreate(p) \/ EndStamp(p)
         \/ SyncCheck(p) \/ SyncRead(p) \/ SyncStamp(p),
         NEW n, n = op'[p], NEW f, SameForecast(f)
  PROVE  KeepsForecast(n, f)'
<1>1. op[p].pc \in { "end_check", "end_read", "end_create", "end_stamp", "sync_check",
                     "sync_read", "sync_stamp" }
  BY DEF EndCheck, EndRead, EndCreate, EndStamp, SyncCheck, SyncRead, SyncStamp, At
<1>2. proj' = proj
  BY DEF EndCheck, EndRead, EndCreate, EndStamp, SyncCheck, SyncRead, SyncStamp
<1>3. /\ op[p].cmd = "run" /\ op[p].snap = proj
      /\ proj.terminal # NoTerminal /\ op[p].verdict = proj.terminal.verdict
      /\ op[p].pc = "end_check" =>
           (forecast.sync <=> terminal = NoVerdict \/ ~Stamped(state, op[p].verdict.result))
      /\ op[p].pc = "sync_check" => (forecast.sync \/ Stamped(state, op[p].verdict.result))
      /\ op[p].pc \notin {"end_check", "sync_check"} => forecast.sync
  BY <1>1, EndForecastPoints
<1>4. ASSUME NEW pc \in { "end_read", "end_create", "end_stamp", "sync_read", "sync_stamp" },
             \/ Goto(p, pc) \/ op' = [ op EXCEPT ![p].pc = pc, ![p].doc = state ],
             forecast.sync
      PROVE  KeepsForecast(n, f)'
  <2>1. /\ n.pc = pc /\ n.cmd = op[p].cmd /\ n.snap = op[p].snap
        /\ n.verdict = op[p].verdict
    BY <1>4, OnwardFields
  <2>2. f.sync
    BY <1>4, Zenon DEF SameForecast
  <2> QED BY <1>2, <1>3, <2>1, <2>2, Zenon DEF KeepsForecast
<1>5. ASSUME Goto(p, "sync_check"),
             forecast.sync \/ Stamped(state', op[p].verdict.result)
      PROVE  KeepsForecast(n, f)'
  <2>1. /\ n.pc = "sync_check" /\ n.cmd = op[p].cmd /\ n.snap = op[p].snap
        /\ n.verdict = op[p].verdict
    BY <1>5, OnwardFields
  <2>2. f.sync \/ Stamped(state', n.verdict.result)
    BY <1>5, <2>1, Zenon DEF SameForecast, Stamped
  <2> QED BY <1>2, <1>3, <2>1, <2>2, Zenon DEF KeepsForecast, Stamped
<1>6. CASE EndCheck(p)
  <2>1. op[p].pc = "end_check" /\ state' = state
    BY <1>6 DEF EndCheck, At, disk
  <2>2. CASE terminal # NoVerdict
    <3>1. Goto(p, "sync_check")
      BY <1>6, <2>2 DEF EndCheck
    <3>2. forecast.sync \/ Stamped(state, op[p].verdict.result)
      BY <1>3, <2>1, <2>2, Zenon
    <3> QED BY <1>5, <2>1, <3>1, <3>2
  <2>3. CASE terminal = NoVerdict
    <3>1. Goto(p, "end_read")
      BY <1>6, <2>3, ReturnEndsForecast DEF EndCheck
    <3>2. forecast.sync
      BY <1>3, <2>1, <2>3, Zenon
    <3> QED BY <1>4, <3>1, <3>2
  <2> QED BY <2>2, <2>3
<1>7. CASE EndRead(p)
  BY <1>3, <1>4, <1>7, ReturnEndsForecast DEF EndRead, At
<1>8. CASE EndCreate(p)
  BY <1>3, <1>4, <1>8, ReturnEndsForecast DEF EndCreate, At
<1>9. CASE EndStamp(p)
  <2>1. Goto(p, "sync_check") /\ op[p].pc = "end_stamp"
    BY <1>3, <1>9 DEF EndStamp, At
  <2> QED BY <1>3, <1>5, <2>1
<1>10. CASE SyncCheck(p)
  <2>1. op[p].pc = "sync_check" /\ ~Stamped(state, op[p].verdict.result)
        /\ Goto(p, "sync_read")
    BY <1>10, ReturnEndsForecast DEF SyncCheck, At
  <2> QED BY <1>3, <1>4, <2>1
<1>11. CASE SyncRead(p)
  BY <1>3, <1>4, <1>11, ReturnEndsForecast DEF SyncRead, At
<1>12. ~SyncStamp(p)
  BY ReturnEndsForecast DEF SyncStamp
<1> QED BY <1>6, <1>7, <1>8, <1>9, <1>10, <1>11, <1>12

\* The process that a prediction is held against takes a step that appends
\* nothing.
LEMMA WorkKeepsForecast ==
  ASSUME IInv, NEW p \in Procs, KeepsForecast(op[p], forecast), op'[p].cmd = "run",
         Foreseen(forecast.action, forecast.task, forecast.verdict),
         Invoke(p) \/ Work(p) \/ Crash(p), log' = log,
         NEW n, n = op'[p], NEW f, SameForecast(f)
  PROVE  KeepsForecast(n, f)'
<1>1. op[p].pc \in { "reconcile", "select", "commit", "end_check", "end_read", "end_create",
                     "end_stamp", "sync_check", "sync_read", "sync_stamp" } \cup MatPoints
  BY DEF KeepsForecast
<1>2. ~Invoke(p)
  BY <1>1, Zenon DEF Invoke, RunReady, RunTerminal, Approve, Pause, Resume, Cancel, Prepare, At,
     MatPoints
<1>3. ~Crash(p) /\ ~Conflict(p) /\ ~GiveUp(p)
  BY ReturnEndsForecast DEF Crash, Conflict, GiveUp
<1>4. ~Commit(p)
  BY DEF Commit, AppendEvent, IInv, LogInv
<1>5. ~WriteEvidence(p) /\ ~Reread(p) /\ ~DocRead(p) /\ ~DocStamp(p)
  BY <1>1 DEF WriteEvidence, WriteArtifact, Reread, DocRead, DocStamp, At, MatPoints
<1> QED BY <1>2, <1>3, <1>4, <1>5, ReconcileKeepsForecast, SelectKeepsForecast,
        MaterializeKeepsForecast, PublishKeepsForecast DEF Work

\* The record of a forecast after a step.
LEMMA FollowedForecast ==
  ASSUME ForecastFields, NEW p,
         forecast' = [ forecast EXCEPT !.by = p, !.wrote = @ \/ ChangesFiles ]
  PROVE  ForecastFields' /\ SameForecast(forecast') /\ forecast'.by = p
<1>1. ForecastFields' /\ forecast'.by = p
  BY DEF ForecastFields
<1>2. /\ forecast'.action = forecast.action /\ forecast'.task = forecast.task
      /\ forecast'.verdict = forecast.verdict /\ forecast'.sync = forecast.sync
  BY DEF ForecastFields
<1>3. forecast'.wrote = (forecast.wrote \/ ChangesFiles)
  BY DEF ForecastFields
<1>4. forecast'.wrote <=> forecast.wrote \/ ChangesFiles
  BY <1>3, Zenon
<1> QED BY <1>1, <1>2, <1>4 DEF SameForecast

LEMMA MovesKeepForetold ==
  ASSUME IInv, Foretold, Moves
  PROVE  Foretold'
<1>1. ReaderFields' /\ Simulating'
  <2>1. CASE rd.pc = "off"
    BY <2>1 DEF Moves, Foretold, ReaderFields, Simulating, SimPoints
  <2>2. CASE rd.pc # "off"
    <3>1. rd' = [ rd EXCEPT !.calm = rd.verb # "simulate" ]
      BY <2>2 DEF Moves
    <3>2. /\ DOMAIN rd' = DOMAIN rd /\ rd'.pc = rd.pc /\ rd'.verb = rd.verb
          /\ rd'.calm = (rd.verb # "simulate")
      BY <3>1 DEF Foretold, ReaderFields
    <3>3. rd'.verb = "simulate" => ~rd'.calm
      BY <3>2, Zenon
    <3> QED BY <3>2, <3>3 DEF Foretold, ReaderFields, Simulating
  <2> QED BY <2>1, <2>2
<1>2. CASE forecast' = NoForecast
  BY <1>1, <1>2, NoForecasting DEF Foretold
<1>3. CASE forecast' # NoForecast
  <2>1. PICK p \in Procs : (Invoke(p) \/ Work(p) \/ Crash(p)) /\ Follow(p)
    BY <1>3 DEF Moves
  <2>2. /\ forecast.action # None /\ op'[p].cmd = "run" /\ log' = log
        /\ IF forecast.by = None THEN At(p, "idle") ELSE forecast.by = p
        /\ forecast' = [ forecast EXCEPT !.by = p, !.wrote = @ \/ ChangesFiles ]
    BY <1>3, <2>1 DEF Follow, ChangesFiles
  <2>3. PICK f : f = forecast'
    OBVIOUS
  <2>4. PICK n : n = op'[p]
    OBVIOUS
  <2>5. ForecastFields' /\ SameForecast(f) /\ forecast'.by = p
    BY <2>2, <2>3, FollowedForecast DEF Foretold
  <2>6. UNCHANGED << status, log, proj >>
    BY <2>1, <2>2, NoAppendNoChange
  <2>7. Foreseen(forecast.action, forecast.task, forecast.verdict)
    BY <2>2 DEF Foretold, Forecasting
  <2>8. ASSUME forecast.by = None PROVE KeepsForecast(n, f)'
    <3>1. RunReady(p) \/ RunTerminal(p)
      BY <2>1, <2>2, <2>8, IdleStarts
    <3>2. UNCHANGED << state, runlog, terminal, files >>
      BY <3>1 DEF RunReady, RunTerminal, disk
    <3>3. (forecast.sync <=> SyncWouldWrite(proj)) /\ ~forecast.wrote
      BY <2>2, <2>8 DEF Foretold, Forecasting
    <3>4. f.sync = forecast.sync /\ (f.wrote <=> forecast.wrote)
      BY <2>5, <3>2, Zenon DEF SameForecast, ChangesFiles
    <3>5. KeepsForecast(n, f)'
      BY <2>2, <2>4, <3>1, <3>3, <3>4, StartKeepsForecast
    <3> QED BY <3>5
  <2>9. ASSUME forecast.by # None PROVE KeepsForecast(n, f)'
    <3>1. forecast.by = p /\ KeepsForecast(op[p], forecast)
      BY <2>2, <2>9 DEF Foretold, Forecasting
    <3>2. KeepsForecast(n, f)'
      BY <2>1, <2>2, <2>4, <2>5, <2>7, <3>1, WorkKeepsForecast
    <3> QED BY <3>2
  <2>10. KeepsForecast(n, f)'
    BY <2>8, <2>9
  <2>11. files' = files
    <3>1. op[p].pc \notin { "object", "record", "bundle" }
      <4>1. CASE forecast.by = None
        BY <2>2, <4>1 DEF At
      <4>2. CASE forecast.by # None
        BY <2>2, <4>2 DEF Foretold, Forecasting, KeepsForecast, MatPoints
      <4> QED BY <4>1, <4>2
    <3>2. ~WriteEvidence(p)
      BY <3>1 DEF WriteEvidence, WriteArtifact, At
    <3>3. ~Commit(p)
      BY <2>6 DEF Commit, AppendEvent, IInv, LogInv
    <3>4. CASE Invoke(p) \/ Verify(p) \/ Conclude(p)
      BY <3>4, Zenon DEF Invoke, RunReady, RunTerminal, Approve, Pause, Resume, Cancel, Prepare,
         Verify, Conclude, disk
    <3> QED BY <2>1, <3>2, <3>3, <3>4, QuietSteps DEF Work
  <2>12. Foreseen(forecast.action, forecast.task, forecast.verdict)'
    <3>1. PICK a, t, v : a = forecast.action /\ t = forecast.task /\ v = forecast.verdict
      OBVIOUS
    <3>2. Foreseen(a, t, v)'
      BY <2>6, <2>7, <2>11, <3>1, ForesightStays
    <3>3. a = forecast'.action /\ t = forecast'.task /\ v = forecast'.verdict
      BY <2>3, <2>5, <3>1 DEF SameForecast
    <3> QED BY <3>2, <3>3 DEF Foreseen
  <2>13. forecast'.by # None /\ forecast'.action # None
    BY <2>1, <2>2, <2>3, <2>5, ReportsAssumption DEF SameForecast
  <2>14. KeepsForecast(op[forecast.by], forecast)'
    BY <2>3, <2>4, <2>5, <2>10 DEF KeepsForecast
  <2>15. Forecasting'
    BY <2>1, <2>5, <2>12, <2>13, <2>14 DEF Forecasting
  <2> QED BY <1>1, <2>5, <2>15 DEF Foretold
<1> QED BY <1>2, <1>3

LEMMA UnmovedKeepsForecasting ==
  ASSUME UNCHANGED << vars, forecast >>, Forecasting
  PROVE  Forecasting'
<1>1. /\ SyncWouldWrite(proj)' = SyncWouldWrite(proj)
      /\ KeepsForecast(op[forecast.by], forecast)' = KeepsForecast(op[forecast.by], forecast)
  BY DEF vars, SyncWouldWrite, NothingDue, KeepsForecast
<1>2. Foreseen(forecast.action, forecast.task, forecast.verdict) =>
        Foreseen(forecast.action, forecast.task, forecast.verdict)'
  <2>1. PICK a, t, v : a = forecast.action /\ t = forecast.task /\ v = forecast.verdict
    OBVIOUS
  <2>2. Foreseen(a, t, v) => Foreseen(a, t, v)'
    BY ForesightStays DEF vars
  <2> QED BY <2>1, <2>2 DEF Foreseen
<1> QED BY <1>1, <1>2 DEF Forecasting

LEMMA SimulateKeepsForetold ==
  ASSUME Foretold, StartSimulate \/ Simulate
  PROVE  Foretold'
<1>1. UNCHANGED vars
  BY DEF StartSimulate, Simulate, SimulateState, SimulateTerminal, Predict, PredictSync,
     Reading
<1>2. CASE StartSimulate
  <2>1. /\ DOMAIN rd' = DOMAIN Off /\ rd'.pc = "sim_state" /\ rd'.verb = "simulate"
        /\ rd'.snap = proj
    BY <1>2, OffFields DEF StartSimulate
  <2>2. ReaderFields' /\ Simulating'
    BY <1>1, <2>1, OffFields DEF ReaderFields, Simulating, SimPoints, vars
  <2> QED BY <1>2, <2>2, NoForecasting DEF StartSimulate, Foretold
<1>3. ASSUME UNCHANGED forecast
      PROVE  ForecastFields' /\ Forecasting'
  BY <1>1, <1>3, UnmovedKeepsForecasting DEF Foretold, ForecastFields
<1>4. CASE SimulateState \/ SimulateTerminal
  <2>1. /\ DOMAIN rd' = DOMAIN rd /\ rd'.pc \in { "sim_terminal", "predict" }
        /\ rd.pc \in SimPoints
        /\ rd'.verb = rd.verb /\ rd'.snap = rd.snap /\ rd'.calm = rd.calm
    BY <1>4 DEF SimulateState, SimulateTerminal, Found, Reading, Foretold, ReaderFields,
       SimPoints
  <2>2. UNCHANGED forecast
    BY <1>4 DEF SimulateState, SimulateTerminal
  <2> QED BY <1>1, <1>3, <2>1, <2>2 DEF Foretold, ReaderFields, Simulating, SimPoints, vars
<1>5. CASE Predict
  <2>1. PICK a, t, v : rd' = [ rd EXCEPT !.pc = "sync", !.action = a, !.task = t, !.end = v ]
    BY <1>5 DEF Predict
  <2>2. /\ DOMAIN rd' = DOMAIN rd /\ rd'.pc = "sync" /\ rd'.verb = rd.verb
        /\ rd'.snap = rd.snap /\ rd'.calm = rd.calm
    BY <2>1 DEF Foretold, ReaderFields
  <2>3. rd.verb = "simulate"
    BY <1>5 DEF Predict, Reading, Foretold, Simulating, SimPoints
  <2>4. rd.calm => rd.snap = proj /\ Foreseen(rd.action, rd.task, rd.end)'
    BY <1>5, <2>3, PredictForesees DEF Foretold, Simulating
  <2>5. ReaderFields' /\ Simulating'
    BY <1>1, <2>2, <2>3, <2>4 DEF Foretold, ReaderFields, Simulating, SimPoints, vars
  <2>6. UNCHANGED forecast
    BY <1>5 DEF Predict
  <2> QED BY <1>3, <2>5, <2>6 DEF Foretold
<1>6. CASE PredictSync
  <2>1. rd' = Off /\ rd.pc = "sync" /\ rd.verb = "simulate"
    BY <1>6 DEF PredictSync, Reading, Foretold, Simulating, SimPoints
  <2>2. ReaderFields' /\ Simulating'
    BY <2>1, OffFields DEF ReaderFields, Simulating, SimPoints, None
  <2>3. CASE ~rd.calm
    <3>1. forecast' = NoForecast
      BY <1>6, <2>3 DEF PredictSync
    <3> QED BY <2>2, <3>1, NoForecasting DEF Foretold
  <2>4. CASE rd.calm
    <3>1. rd.snap = proj /\ Foreseen(rd.action, rd.task, rd.end)
      BY <2>1, <2>4 DEF Foretold, Simulating
    <3>2. forecast' = [ NoForecast EXCEPT !.action = rd.action, !.task = rd.task,
                          !.verdict = rd.end, !.sync = SyncWouldWrite(proj) ]
      BY <1>6, <2>4, <3>1 DEF PredictSync
    <3>3. /\ ForecastFields' /\ forecast'.action = rd.action /\ forecast'.task = rd.task
          /\ forecast'.verdict = rd.end /\ forecast'.by = None
      BY <3>2, NoForecastFields DEF ForecastFields
    <3>4. forecast'.sync <=> SyncWouldWrite(proj)
      <4>1. forecast'.sync = SyncWouldWrite(proj)
        BY <3>2, NoForecastFields
      <4> QED BY <4>1, Zenon
    <3>5. ~forecast'.wrote
      <4>1. forecast'.wrote = NoForecast.wrote
        BY <3>2, NoForecastFields
      <4>2. NoForecast.wrote = FALSE
        BY DEF NoForecast
      <4> QED BY <4>1, <4>2, Zenon
    <3>6. SyncWouldWrite(proj)' = SyncWouldWrite(proj)
      BY <1>1 DEF vars, SyncWouldWrite, NothingDue
    <3>7. Foreseen(forecast.action, forecast.task, forecast.verdict)'
      <4>1. PICK a, t, v : a = rd.action /\ t = rd.task /\ v = rd.end
        OBVIOUS
      <4>2. Foreseen(a, t, v)'
        BY <1>1, <3>1, <4>1, ForesightStays DEF vars
      <4> QED BY <3>3, <4>1, <4>2 DEF Foreseen
    <3>8. Forecasting'
      BY <3>3, <3>4, <3>5, <3>6, <3>7, Zenon DEF Forecasting
    <3> QED BY <2>2, <3>3, <3>8 DEF Foretold
  <2> QED BY <2>3, <2>4
<1> QED BY <1>2, <1>4, <1>5, <1>6 DEF Simulate

LEMMA NextKeepsForetold ==
  ASSUME IInv, Foretold, [ReportsNext]_allVars
  PROVE  Foretold'
<1>1. CASE StartDoctor \/ Doctor \/ CloseReport \/ StartStop \/ StopActive \/ Stop \/ StopFails
  <2>1. ReaderFields' /\ Simulating' /\ UNCHANGED forecast
    BY <1>1, OthersKeepReader DEF Foretold
  <2>2. UNCHANGED vars
    BY <1>1 DEF StartDoctor, Doctor, ContractState, ContractTerminal, ContractRecords,
       ContractBar, ReadLog, StatusState, ReplayTerminal, BoundFiles, CloseReport, StartStop,
       StopActive, Stop, ClaimFile, ClaimState, StopDecide, StopFails, Reading
  <2> QED BY <2>1, <2>2, UnmovedKeepsForecasting DEF Foretold, ForecastFields
<1>2. CASE UNCHANGED allVars
  <2>1. UNCHANGED << vars, rd, forecast >>
    BY <1>2 DEF allVars, readers
  <2>2. Simulating'
    <3>1. PICK a, t, v : a = rd.action /\ t = rd.task /\ v = rd.end
      OBVIOUS
    <3>2. Foreseen(a, t, v) => Foreseen(a, t, v)'
      BY <2>1, ForesightStays DEF vars
    <3> QED BY <2>1, <3>1, <3>2 DEF Foretold, Simulating, vars, Foreseen
  <2> QED BY <2>1, <2>2, UnmovedKeepsForecasting DEF Foretold, ReaderFields, ForecastFields
<1> QED BY <1>1, <1>2, MovesKeepForetold, SimulateKeepsForetold DEF ReportsNext

LEMMA ForetoldPredicts == Foretold => PredictionsHold
<1> SUFFICES ASSUME Foretold, forecast.by # None
             PROVE  PredictionsHold
  BY DEF PredictionsHold
<1> DEFINE o == op[forecast.by]
<1>1. /\ Foreseen(forecast.action, forecast.task, forecast.verdict)
      /\ KeepsForecast(o, forecast)
  BY DEF Foretold, Forecasting
<1> HIDE DEF o
<1>2. proj.terminal = NoTerminal => proj.state = "execute-task"
  BY <1>1 DEF KeepsForecast
<1>3. forecast.action = "would_refuse" => forecast.task # None
  BY <1>1, <1>2, LoopRunAssumption DEF Foreseen
<1>4. o.pc \in { "mat_block", "mat_stamp", "end_create", "sync_stamp" } => forecast.sync
  BY <1>1 DEF KeepsForecast, MatPoints
<1>5. o.pc \in { "select", "commit" } => (forecast.sync <=> forecast.wrote)
  BY <1>1, ForecastPoints
<1>6. o.pc \in { "end_check", "end_create", "sync_check" } =>
        forecast.action = "already_terminal"
  <2>1. o.pc \in { "end_check", "end_create", "sync_check" } => proj.terminal # NoTerminal
    BY <1>1, EndForecastPoints
  <2> QED BY <1>1, <2>1 DEF Foreseen
<1>7. o.pc = "commit" => Predicted(forecast, o.event)
  BY <1>1, ForecastPoints
<1>8. ASSUME o.pc = "select"
      PROVE  /\ forecast.action = "would_block" <=>
                  NothingSelectable(o.snap) /\ ~AllDone(o.snap)
             /\ forecast.action = "would_refuse" <=>
                  \E t \in Unrunnable : IsNextTask(o.snap, t)
  <2>1. o.snap = proj /\ proj.terminal = NoTerminal /\ proj.state = "execute-task"
    BY <1>1, <1>8, ForecastPoints
  <2>2. ASSUME NEW t, IsNextTask(proj, t) PROVE t \in Tasks /\ ~NothingSelectable(proj)
    BY <2>2, LoopRunAssumption DEF IsNextTask, NothingSelectable
  <2>3. CASE NothingSelectable(proj)
    <3>1. ~\E t \in Unrunnable : IsNextTask(proj, t)
      BY <2>2, <2>3
    <3>2. forecast.action = "would_block" <=> ~AllDone(proj)
      BY <1>1, <2>1, <2>3 DEF Foreseen
    <3>3. forecast.action # "would_refuse"
      BY <1>1, <2>1, <2>3 DEF Foreseen
    <3> QED BY <2>1, <2>3, <3>1, <3>2, <3>3
  <2>4. CASE ~NothingSelectable(proj)
    <3>1. /\ IsNextTask(proj, forecast.task)
          /\ forecast.action = IF forecast.task \in Unrunnable
                               THEN "would_refuse" ELSE "would_dispatch"
      BY <1>1, <2>1, <2>4 DEF Foreseen
    <3>2. \A t \in Unrunnable : IsNextTask(proj, t) => t = forecast.task
      BY <3>1, NextTaskUnique
    <3> QED BY <2>1, <2>4, <3>1, <3>2
  <2> QED BY <2>3, <2>4
<1> QED BY <1>3, <1>4, <1>5, <1>6, <1>7, <1>8, Zenon DEF PredictionsHold, Predicted, o

LEMMA ReportsForetold == ASSUME Tasks # {} PROVE ReportsSpec => []Foretold
<1>1. ReportsInit => Foretold
  <2> SUFFICES ASSUME ReportsInit PROVE Foretold
    OBVIOUS
  <2>1. rd = Off /\ forecast = NoForecast
    BY DEF ReportsInit
  <2> QED BY <2>1, OffFields, NoForecastFields DEF Foretold, ReaderFields, ForecastFields,
         Simulating, Forecasting, SimPoints, None
<1>2. IInv /\ Foretold /\ [ReportsNext]_allVars => Foretold'
  BY NextKeepsForetold
<1> QED BY <1>1, <1>2, ReportsIsLoopRun, LoopRunIInv, PTL DEF ReportsSpec

\* For any number of processes, any commands and any kills: when nothing else
\* moves between a prediction of simulate and the append of the next `loop run`,
\* that run refuses, dispatches, ends and writes legacy files as predicted.
THEOREM ReportsPredictions ==
  ASSUME Tasks # {} PROVE ReportsSpec => []PredictionsHold
<1>1. Foretold => PredictionsHold
  BY ForetoldPredicts
<1> QED BY <1>1, ReportsForetold, PTL

-----------------------------------------------------------------------------
(* What a report finds.  A report compares a file with a log it read earlier. *)
(* No step changes the log and a file, so when the two readings differ from   *)
(* one another the difference stood at some moment between them.             *)

\* Nothing but a commit appends, and terminal_state.json is never replaced.
LEMMA OnlyCommits ==
  ASSUME NEW p \in Procs, Invoke(p) \/ Work(p) \/ Crash(p), ~Commit(p)
  PROVE  UNCHANGED << log, proj >> /\ (terminal # NoVerdict => terminal' = terminal)
<1>1. CASE Invoke(p) \/ Verify(p) \/ Conclude(p)
  BY <1>1, Zenon DEF Invoke, RunReady, RunTerminal, Approve, Pause, Resume, Cancel, Prepare,
     Verify, Conclude, disk
<1>2. CASE WriteEvidence(p)
  BY <1>2 DEF WriteEvidence, WriteArtifact
<1>3. CASE Conflict(p) \/ GiveUp(p) \/ Crash(p) \/ Reconcile(p) \/ Reread(p) \/ DocRead(p)
           \/ DocStamp(p)
  BY <1>3 DEF Conflict, GiveUp, Crash, Reconcile, Reread, DocRead, DocStamp, disk
<1>4. CASE MaterializeRead(p) \/ MaterializeCheck(p) \/ MaterializeBlock(p)
           \/ MaterializeStamp(p)
  BY <1>4 DEF MaterializeRead, MaterializeCheck, MaterializeBlock, MaterializeStamp, disk
<1>5. CASE EndCheck(p) \/ EndRead(p) \/ EndCreate(p) \/ EndStamp(p) \/ SyncCheck(p)
           \/ SyncRead(p) \/ SyncStamp(p)
  BY <1>5 DEF EndCheck, EndRead, EndCreate, EndStamp, SyncCheck, SyncRead, SyncStamp, disk
<1> QED BY <1>1, <1>2, <1>3, <1>4, <1>5, Zenon DEF Work

\* What one step leaves in place for a reader.
LEMMA Underfoot ==
  ASSUME IInv, IInv', History, [Next]_vars
  PROVE  /\ UNCHANGED << log, proj >> \/ UNCHANGED disk
         /\ terminal # NoVerdict => terminal' = terminal
         /\ proj.terminal # NoTerminal => proj'.terminal = proj.terminal
         /\ proj.count <= proj'.count
<1>1. ASSUME NEW e \in Events, Follows(proj, e), AppendEvent(e), UNCHANGED disk
      PROVE  /\ UNCHANGED disk /\ terminal' = terminal
             /\ proj.terminal = NoTerminal /\ proj.count <= proj'.count
  <2>1. proj.terminal = NoTerminal
    BY <1>1, AppendKeepsTrace
  <2>2. Len(log') = Len(log) + 1 /\ Len(log) \in Nat
    BY <1>1 DEF AppendEvent, IInv, LogInv
  <2>3. proj.count = Len(log) /\ proj'.count = Len(log')
    BY DEF IInv, LogInv
  <2> QED BY <1>1, <2>1, <2>2, <2>3 DEF disk
<1>2. proj.count \in Nat
  BY DEF IInv, LogInv, Projections
<1>3. ASSUME UNCHANGED << log, proj >>, terminal # NoVerdict => terminal' = terminal
      PROVE  /\ UNCHANGED << log, proj >>
             /\ terminal # NoVerdict => terminal' = terminal
             /\ proj.count <= proj'.count
  BY <1>2, <1>3
<1>4. ASSUME NEW p \in Procs, Commit(p)
      PROVE  \E e \in Events : Follows(proj, e) /\ AppendEvent(e) /\ UNCHANGED disk
  BY <1>4, CommitReads DEF Commit, History, OpTrace
<1>5. CASE RequestApproval \/ Advance
  <2>1. \E e \in Events : Follows(proj, e) /\ AppendEvent(e) /\ UNCHANGED disk
    BY <1>5, OrchestratorAppends DEF RequestApproval, Advance
  <2> QED BY <1>1, <2>1
<1>6. ASSUME NEW p \in Procs, Invoke(p) \/ Work(p) \/ Crash(p), ~Commit(p)
      PROVE  UNCHANGED << log, proj >> /\ (terminal # NoVerdict => terminal' = terminal)
  BY <1>6, OnlyCommits
<1>7. CASE EditTasks \/ UNCHANGED vars
  BY <1>3, <1>7 DEF EditTasks, vars, disk
<1>8. ASSUME NEW p \in Procs, Invoke(p) \/ Work(p) \/ Crash(p)
      PROVE  /\ UNCHANGED << log, proj >> \/ UNCHANGED disk
             /\ terminal # NoVerdict => terminal' = terminal
             /\ proj.terminal # NoTerminal => proj'.terminal = proj.terminal
             /\ proj.count <= proj'.count
  <2>1. CASE Commit(p)
    BY <1>1, <1>4, <2>1
  <2>2. CASE ~Commit(p)
    BY <1>3, <1>6, <1>8, <2>2
  <2> QED BY <2>1, <2>2
<1> QED BY <1>3, <1>5, <1>7, <1>8 DEF Next

Noted(code, what) == Finding(code, what, 0) \in seen.faults

\* What was read of the log is still there, or it differed from the file.
Held(read, now, field) == read = now \/ Noted("state_field_mismatch", field)

StateHeld ==
  /\ Held(rd.snap.state, proj.state, "state")
  /\ Held(rd.snap.iter, proj.iter, "iteration_id")
  /\ Held(rd.snap.active, proj.active, "active_task")
  /\ Held(rd.snap.terminal.verdict.result, proj.terminal.verdict.result, "terminal_state")
  /\ Held(rd.snap.paused, proj.paused, "paused")
  /\ Held(rd.snap.pending, proj.pending, "pending_approval")

EndHeld ==
  \/ rd.snap.terminal = proj.terminal
  \/ rd.snap.terminal = NoTerminal /\ Noted("desynced_terminal_window", "terminal")

Watched ==
  rd.pc # "off" =>
    /\ Faults \subseteq seen.faults
    /\ Consistent => seen.agreed
    /\ rd.found \subseteq seen.faults
    /\ rd.pc = "terminal" => (rd.doc.terminal # None => terminal # NoVerdict)
    /\ rd.pc \in { "records", "bar" } => (rd.end # NoVerdict => terminal = rd.end)
    /\ rd.pc \in { "status_state", "sim_state" } => StateHeld
    /\ rd.pc \in { "replay_terminal", "sim_state", "sim_terminal" } => EndHeld
    /\ rd.pc = "bound_files" => rd.snap.count \in Nat /\ rd.snap.count <= proj.count

LEMMA DivergenceFields ==
  ASSUME NEW pr, NEW doc, NEW x
  PROVE  x \in StateDivergence(pr, doc) <=>
           \/ doc.state # pr.state /\ x = Finding("state_field_mismatch", "state", 0)
           \/ doc.iter # pr.iter /\ x = Finding("state_field_mismatch", "iteration_id", 0)
           \/ doc.active # pr.active /\ x = Finding("state_field_mismatch", "active_task", 0)
           \/ doc.terminal # pr.terminal.verdict.result
                /\ x = Finding("state_field_mismatch", "terminal_state", 0)
           \/ doc.paused # pr.paused /\ x = Finding("state_field_mismatch", "paused", 0)
           \/ doc.pending # pr.pending
                /\ x = Finding("state_field_mismatch", "pending_approval", 0)
<1> DEFINE d == [ state |-> doc.state # pr.state, iteration_id |-> doc.iter # pr.iter,
                  active_task |-> doc.active # pr.active,
                  terminal_state |-> doc.terminal # pr.terminal.verdict.result,
                  paused |-> doc.paused # pr.paused,
                  pending_approval |-> doc.pending # pr.pending ]
<1>1. DOMAIN d = { "state", "iteration_id", "active_task", "terminal_state", "paused",
                   "pending_approval" }
  OBVIOUS
<1>2. /\ d["state"] = (doc.state # pr.state)
      /\ d["iteration_id"] = (doc.iter # pr.iter)
      /\ d["active_task"] = (doc.active # pr.active)
  OBVIOUS
<1>3. /\ d["terminal_state"] = (doc.terminal # pr.terminal.verdict.result)
      /\ d["paused"] = (doc.paused # pr.paused)
      /\ d["pending_approval"] = (doc.pending # pr.pending)
  OBVIOUS
<1>4. StateDivergence(pr, doc) =
        { Finding("state_field_mismatch", f, 0) : f \in { g \in DOMAIN d : d[g] } }
  BY DEF StateDivergence
<1> HIDE DEF d
<1>5. x \in StateDivergence(pr, doc) <=>
        \E f \in DOMAIN d : d[f] /\ x = Finding("state_field_mismatch", f, 0)
  BY <1>4, Zenon
<1> QED BY <1>1, <1>2, <1>3, <1>5, Zenon

LEMMA FaultParts ==
  /\ StateDivergence(proj, state) \subseteq Faults
  /\ TerminalDesync(proj, terminal) \subseteq Faults
  /\ MissingBound(Len(log)) \subseteq Faults
  /\ MissingTerminal(state, terminal) \subseteq Faults
  /\ OrphanBundles \subseteq Faults /\ DanglingRecords \subseteq Faults
  /\ Unverified(terminal) \subseteq Faults
<1> QED BY Zenon DEF Faults

LEMMA WatchSees ==
  ASSUME Watch, rd'.pc # "off"
  PROVE  /\ Faults' \subseteq seen'.faults
         /\ Consistent' => seen'.agreed
         /\ rd.pc # "off" => seen.faults \subseteq seen'.faults /\ (seen.agreed => seen'.agreed)
<1>1. seen' = [ faults |-> (IF rd.pc = "off" THEN {} ELSE seen.faults) \cup Faults',
                agreed |-> (rd.pc # "off" /\ seen.agreed) \/ Consistent' ]
  BY DEF Watch
<1>2. /\ seen'.faults = (IF rd.pc = "off" THEN {} ELSE seen.faults) \cup Faults'
      /\ seen'.agreed = ((rd.pc # "off" /\ seen.agreed) \/ Consistent')
  BY <1>1
<1>3. (Consistent' => seen'.agreed) /\ (rd.pc # "off" => (seen.agreed => seen'.agreed))
  BY <1>2, Zenon
<1> QED BY <1>2, <1>3

\* One field: it is read again, or it changed under the reader.
LEMMA HeldStays ==
  ASSUME NEW x, NEW now, NEW later, NEW field, NEW file, NEW S, NEW T,
         \/ x = now \/ Finding("state_field_mismatch", field, 0) \in S,
         S \subseteq T,
         file # now => Finding("state_field_mismatch", field, 0) \in S,
         later = now \/ (file # later => Finding("state_field_mismatch", field, 0) \in T)
  PROVE  x = later \/ Finding("state_field_mismatch", field, 0) \in T
OBVIOUS

\* A state.json that differs from the projection is noted, field by field.
LEMMA DivergenceNoted ==
  ASSUME NEW pr, NEW doc, NEW S, StateDivergence(pr, doc) \subseteq S
  PROVE  /\ doc.state # pr.state => Finding("state_field_mismatch", "state", 0) \in S
         /\ doc.iter # pr.iter => Finding("state_field_mismatch", "iteration_id", 0) \in S
         /\ doc.active # pr.active => Finding("state_field_mismatch", "active_task", 0) \in S
         /\ doc.terminal # pr.terminal.verdict.result =>
              Finding("state_field_mismatch", "terminal_state", 0) \in S
         /\ doc.paused # pr.paused => Finding("state_field_mismatch", "paused", 0) \in S
         /\ doc.pending # pr.pending =>
              Finding("state_field_mismatch", "pending_approval", 0) \in S
BY DivergenceFields, Zenon

LEMMA StateHeldStays ==
  ASSUME StateHeld, Faults \subseteq seen.faults, Faults' \subseteq seen'.faults,
         seen.faults \subseteq seen'.faults, rd'.snap = rd.snap,
         proj' = proj \/ state' = state
  PROVE  StateHeld'
<1>1. PICK pr, qr, doc, S, T :
        pr = proj /\ qr = proj' /\ doc = state /\ S = seen.faults /\ T = seen'.faults
  OBVIOUS
<1>2. StateDivergence(pr, doc) \subseteq S
  BY <1>1, FaultParts
<1>3. qr = pr \/ StateDivergence(qr, doc) \subseteq T
  <2>1. CASE proj' = proj
    BY <1>1, <2>1
  <2>2. CASE state' = state
    <3>1. StateDivergence(proj', state') \subseteq Faults'
      BY Zenon DEF Faults
    <3> QED BY <1>1, <2>2, <3>1 DEF StateDivergence
  <2> QED BY <2>1, <2>2
<1>4. S \subseteq T
  BY <1>1
<1>5. /\ doc.state # pr.state => Finding("state_field_mismatch", "state", 0) \in S
      /\ doc.iter # pr.iter => Finding("state_field_mismatch", "iteration_id", 0) \in S
      /\ doc.active # pr.active => Finding("state_field_mismatch", "active_task", 0) \in S
      /\ doc.terminal # pr.terminal.verdict.result =>
              Finding("state_field_mismatch", "terminal_state", 0) \in S
      /\ doc.paused # pr.paused => Finding("state_field_mismatch", "paused", 0) \in S
      /\ doc.pending # pr.pending =>
              Finding("state_field_mismatch", "pending_approval", 0) \in S
  BY <1>2, DivergenceNoted
<1>6. qr = pr \/
      /\ doc.state # qr.state => Finding("state_field_mismatch", "state", 0) \in T
      /\ doc.iter # qr.iter => Finding("state_field_mismatch", "iteration_id", 0) \in T
      /\ doc.active # qr.active => Finding("state_field_mismatch", "active_task", 0) \in T
      /\ doc.terminal # qr.terminal.verdict.result =>
              Finding("state_field_mismatch", "terminal_state", 0) \in T
      /\ doc.paused # qr.paused => Finding("state_field_mismatch", "paused", 0) \in T
      /\ doc.pending # qr.pending =>
              Finding("state_field_mismatch", "pending_approval", 0) \in T
  BY <1>3, DivergenceNoted
<1>7. /\ Held(rd.snap.state, proj.state, "state")'
      /\ Held(rd.snap.iter, proj.iter, "iteration_id")'
      /\ Held(rd.snap.active, proj.active, "active_task")'
  BY <1>1, <1>4, <1>5, <1>6, Zenon DEF StateHeld, Held, Noted
<1>8. /\ Held(rd.snap.terminal.verdict.result, proj.terminal.verdict.result, "terminal_state")'
      /\ Held(rd.snap.paused, proj.paused, "paused")'
      /\ Held(rd.snap.pending, proj.pending, "pending_approval")'
  BY <1>1, <1>4, <1>5, <1>6, Zenon DEF StateHeld, Held, Noted
<1> QED BY <1>7, <1>8 DEF StateHeld

\* The verdict of a recorded end has a result.
LEMMA RecordedResult ==
  ASSUME Marking, proj.terminal # NoTerminal
  PROVE  proj.terminal.verdict.result # None
BY DEF Marking, EndsMarked, VerdictAdmissible, TerminalStates, None

LEMMA EndHeldStays ==
  ASSUME IInv, IInv', History, Marking', [Next]_vars, EndHeld, rd'.snap = rd.snap,
         Faults' \subseteq seen'.faults, seen.faults \subseteq seen'.faults
  PROVE  EndHeld'
<1>1. CASE Noted("desynced_terminal_window", "terminal") /\ rd.snap.terminal = NoTerminal
  BY <1>1 DEF EndHeld, Noted
<1>2. CASE rd.snap.terminal = proj.terminal
  <2>1. CASE proj'.terminal = proj.terminal
    BY <1>2, <2>1 DEF EndHeld
  <2>2. CASE proj'.terminal # proj.terminal
    <3>1. proj.terminal = NoTerminal /\ UNCHANGED disk
      BY <2>2, Underfoot
    <3>2. terminal' = NoVerdict
      BY <3>1 DEF History, disk
    <3>3. proj'.terminal.verdict.result # None
      <4>1. proj'.terminal # NoTerminal
        BY <2>2, <3>1
      <4> QED BY <4>1 DEF Marking, EndsMarked, VerdictAdmissible, TerminalStates, None
    <3>4. NoVerdict.result = None
      BY DEF NoVerdict
    <3>5. Finding("desynced_terminal_window", "terminal", 0) \in TerminalDesync(proj', terminal')
      BY <3>2, <3>3, <3>4 DEF TerminalDesync
    <3>6. TerminalDesync(proj', terminal') \subseteq Faults'
      BY Zenon DEF Faults
    <3> QED BY <1>2, <3>1, <3>5, <3>6 DEF EndHeld, Noted
  <2> QED BY <2>1, <2>2
<1> QED BY <1>1, <1>2 DEF EndHeld

\* A commanded step under a reader.
LEMMA MovesKeepWatched ==
  ASSUME IInv, IInv', History, Marking', [Next]_vars, ReaderFields, Watched, Watch,
         rd' = rd \/ rd' = [ rd EXCEPT !.calm = rd.verb # "simulate" ]
  PROVE  Watched'
<1> SUFFICES ASSUME rd'.pc # "off" PROVE Watched'
  BY DEF Watched
<1>1. /\ rd'.pc = rd.pc /\ rd'.snap = rd.snap /\ rd'.doc = rd.doc /\ rd'.end = rd.end
      /\ rd'.found = rd.found
  BY DEF ReaderFields
<1>2. /\ Faults' \subseteq seen'.faults /\ (Consistent' => seen'.agreed)
      /\ seen.faults \subseteq seen'.faults
  BY <1>1, WatchSees
<1>3. /\ UNCHANGED << log, proj >> \/ UNCHANGED disk
      /\ terminal # NoVerdict => terminal' = terminal
      /\ proj.count <= proj'.count
  BY Underfoot
<1>4. rd.pc \in { "status_state", "sim_state" } => StateHeld'
  BY <1>1, <1>2, <1>3, StateHeldStays DEF Watched, disk
<1>5. rd.pc \in { "replay_terminal", "sim_state", "sim_terminal" } => EndHeld'
  BY <1>1, <1>2, EndHeldStays DEF Watched
<1>6. rd'.pc = "bound_files" => rd'.snap.count \in Nat /\ rd'.snap.count <= proj'.count
  <2>1. proj.count \in Nat /\ proj'.count \in Nat
    BY DEF IInv, LogInv, Projections
  <2> QED BY <1>1, <1>3, <2>1 DEF Watched
<1>7. /\ rd'.pc = "terminal" => (rd'.doc.terminal # None => terminal' # NoVerdict)
      /\ rd'.pc \in { "records", "bar" } => (rd'.end # NoVerdict => terminal' = rd'.end)
      /\ rd'.found \subseteq seen'.faults
  BY <1>1, <1>2, <1>3 DEF Watched
<1> QED BY <1>1, <1>2, <1>4, <1>5, <1>6, <1>7 DEF Watched

\* A reader's step, with the workspace as it was.
LEMMA ReadKeepsWatched ==
  ASSUME IInv, UNCHANGED vars, Watched, Watch, rd'.pc # "off",
         IF rd.pc = "off" THEN rd'.found = {} ELSE rd'.found \subseteq rd.found \cup seen.faults,
         rd'.pc = "terminal" => (rd'.doc.terminal # None => terminal # NoVerdict),
         rd'.pc \in { "records", "bar" } => (rd'.end # NoVerdict => terminal = rd'.end),
         rd'.pc \in { "status_state", "sim_state", "replay_terminal", "bound_files" } =>
           rd'.snap = proj,
         rd'.pc = "sim_terminal" => rd.pc = "sim_state" /\ rd'.snap = rd.snap
  PROVE  Watched'
<1>1. /\ Faults' \subseteq seen'.faults /\ (Consistent' => seen'.agreed)
      /\ rd.pc # "off" => seen.faults \subseteq seen'.faults
  BY WatchSees
<1>2. /\ proj' = proj /\ terminal' = terminal
      /\ proj.count \in Nat /\ proj'.count \in Nat
  BY DEF vars, IInv, LogInv, Projections
<1>3. rd'.found \subseteq seen'.faults
  <2>1. CASE rd.pc = "off"
    BY <2>1
  <2>2. CASE rd.pc # "off"
    BY <1>1, <2>2 DEF Watched
  <2> QED BY <2>1, <2>2
<1>4. rd'.pc \in { "status_state", "sim_state" } => StateHeld'
  BY <1>2 DEF StateHeld, Held
<1>5. rd'.pc \in { "replay_terminal", "sim_state" } => EndHeld'
  BY <1>2 DEF EndHeld
<1>6. rd'.pc = "sim_terminal" => EndHeld'
  <2> SUFFICES ASSUME rd'.pc = "sim_terminal" PROVE EndHeld'
    OBVIOUS
  <2>1. rd'.snap = rd.snap /\ EndHeld /\ seen.faults \subseteq seen'.faults
    BY <1>1 DEF Watched
  <2> QED BY <1>2, <2>1 DEF EndHeld, Noted
<1>7. rd'.pc = "bound_files" => rd'.snap.count \in Nat /\ rd'.snap.count <= proj'.count
  BY <1>2
<1> QED BY <1>1, <1>2, <1>3, <1>4, <1>5, <1>6, <1>7 DEF Watched

\* state.json against a log read earlier.
LEMMA DivergenceHeld ==
  ASSUME Faults \subseteq seen.faults, StateHeld
  PROVE  StateDivergence(rd.snap, state) \subseteq seen.faults
<1>1. PICK sn, pr, doc, S :
        sn = rd.snap /\ pr = proj /\ doc = state /\ S = seen.faults
  OBVIOUS
<1>2. StateDivergence(pr, doc) \subseteq S
  BY <1>1, FaultParts
<1>3. /\ doc.state # pr.state => Finding("state_field_mismatch", "state", 0) \in S
      /\ doc.iter # pr.iter => Finding("state_field_mismatch", "iteration_id", 0) \in S
      /\ doc.active # pr.active => Finding("state_field_mismatch", "active_task", 0) \in S
      /\ doc.terminal # pr.terminal.verdict.result =>
           Finding("state_field_mismatch", "terminal_state", 0) \in S
      /\ doc.paused # pr.paused => Finding("state_field_mismatch", "paused", 0) \in S
      /\ doc.pending # pr.pending =>
           Finding("state_field_mismatch", "pending_approval", 0) \in S
  BY <1>2, DivergenceNoted
<1>4. /\ sn.state = pr.state \/ Finding("state_field_mismatch", "state", 0) \in S
      /\ sn.iter = pr.iter \/ Finding("state_field_mismatch", "iteration_id", 0) \in S
      /\ sn.active = pr.active \/ Finding("state_field_mismatch", "active_task", 0) \in S
      /\ \/ sn.terminal.verdict.result = pr.terminal.verdict.result
         \/ Finding("state_field_mismatch", "terminal_state", 0) \in S
      /\ sn.paused = pr.paused \/ Finding("state_field_mismatch", "paused", 0) \in S
      /\ sn.pending = pr.pending
           \/ Finding("state_field_mismatch", "pending_approval", 0) \in S
  BY <1>1, Zenon DEF StateHeld, Held, Noted
<1>5. ASSUME NEW x \in StateDivergence(sn, doc) PROVE x \in S
  <2>1. \/ doc.state # sn.state /\ x = Finding("state_field_mismatch", "state", 0)
        \/ doc.iter # sn.iter /\ x = Finding("state_field_mismatch", "iteration_id", 0)
        \/ doc.active # sn.active /\ x = Finding("state_field_mismatch", "active_task", 0)
        \/ doc.terminal # sn.terminal.verdict.result
             /\ x = Finding("state_field_mismatch", "terminal_state", 0)
        \/ doc.paused # sn.paused /\ x = Finding("state_field_mismatch", "paused", 0)
        \/ doc.pending # sn.pending
             /\ x = Finding("state_field_mismatch", "pending_approval", 0)
    BY <1>5, DivergenceFields
  <2> QED BY <1>3, <1>4, <2>1, Zenon
<1> QED BY <1>1, <1>5

\* terminal_state.json against a log read earlier.
LEMMA DesyncHeld ==
  ASSUME History, Marking, Faults \subseteq seen.faults, EndHeld
  PROVE  TerminalDesync(rd.snap, terminal) \subseteq seen.faults
<1>1. CASE rd.snap.terminal = proj.terminal
  BY <1>1, FaultParts DEF TerminalDesync
<1>2. CASE rd.snap.terminal = NoTerminal /\ Noted("desynced_terminal_window", "terminal")
  <2>1. rd.snap.terminal.verdict = NoVerdict
    BY <1>2 DEF NoTerminal
  <2>2. CASE terminal = NoVerdict
    BY <2>1, <2>2 DEF TerminalDesync
  <2>3. CASE terminal # NoVerdict
    <3>1. terminal.result # None
      BY <2>3, RecordedResult DEF History
    <3>2. NoVerdict.result = None
      BY DEF NoVerdict
    <3>3. TerminalDesync(rd.snap, terminal) =
            { Finding("desynced_terminal_window", "terminal", 0) }
      BY <2>1, <2>3, <3>1, <3>2 DEF TerminalDesync
    <3> QED BY <1>2, <3>3 DEF Noted
  <2> QED BY <2>2, <2>3
<1> QED BY <1>1, <1>2 DEF EndHeld

\* The artifacts of a shorter log.
LEMMA MissingBoundGrows ==
  ASSUME NEW n \in Nat, NEW m \in Nat, n <= m
  PROVE  MissingBound(n) \subseteq MissingBound(m)
<1>1. 1 .. n \subseteq 1 .. m
  OBVIOUS
<1>2. { log[k].iter : k \in { j \in 1 .. n : log[j].bound } }
        \subseteq { log[k].iter : k \in { j \in 1 .. m : log[j].bound } }
  BY <1>1
<1> DEFINE A == { log[k].iter : k \in { j \in 1 .. n : log[j].bound } }
           B == { log[k].iter : k \in { j \in 1 .. m : log[j].bound } }
<1> HIDE DEF A, B
<1>3. { Finding("missing_bound_evidence", f[1], f[2]) :
          f \in ({"object", "record", "bundle"} \X A) \ files }
        \subseteq { Finding("missing_bound_evidence", f[1], f[2]) :
                      f \in ({"object", "record", "bundle"} \X B) \ files }
  BY <1>2 DEF A, B
<1> QED BY <1>3 DEF A, B, MissingBound

\* The steps of doctor.
LEMMA DoctorKeepsWatched ==
  ASSUME IInv, History, Marking, ProjectionsNeverAhead, ReaderFields, Watched, Doctor
  PROVE  Watched'
<1>1. UNCHANGED vars /\ Watch /\ rd.pc # "off"
  BY DEF Doctor, ContractState, ContractTerminal, ContractRecords, ContractBar, ReadLog,
     StatusState, ReplayTerminal, BoundFiles, Reading
<1>2. /\ Faults \subseteq seen.faults /\ rd.found \subseteq seen.faults
      /\ rd.pc = "terminal" => (rd.doc.terminal # None => terminal # NoVerdict)
      /\ rd.pc = "bar" => (rd.end # NoVerdict => terminal = rd.end)
      /\ rd.pc = "records" => (rd.end # NoVerdict => terminal = rd.end)
      /\ rd.pc = "status_state" => StateHeld
      /\ rd.pc = "replay_terminal" => EndHeld
      /\ rd.pc = "bound_files" => rd.snap.count \in Nat /\ rd.snap.count <= proj.count
  BY <1>1 DEF Watched
<1>3. CASE ContractState
  <2>1. rd'.pc = "terminal" /\ rd'.doc = state /\ rd'.found = rd.found
    BY <1>3 DEF ContractState, ReaderFields
  <2>2. state.terminal # None => terminal # NoVerdict
    BY DEF ProjectionsNeverAhead
  <2> QED BY <1>1, <2>1, <2>2, ReadKeepsWatched
<1>4. CASE ContractTerminal
  <2>1. MissingTerminal(rd.doc, terminal) = {}
    BY <1>2, <1>4 DEF ContractTerminal, Reading, MissingTerminal
  <2>2. rd'.pc = "records" /\ rd'.end = terminal /\ rd'.found = rd.found
    BY <1>4, <2>1 DEF ContractTerminal, ReaderFields
  <2> QED BY <1>1, <2>2, ReadKeepsWatched
<1>5. CASE ContractRecords
  <2>1. /\ rd'.pc = "bar" /\ rd'.end = rd.end /\ rd.pc = "records"
        /\ rd'.found = rd.found \cup (OrphanBundles \cup DanglingRecords)
    BY <1>5 DEF ContractRecords, Found, Reading, ReaderFields
  <2>2. rd'.found \subseteq rd.found \cup seen.faults
    BY <1>2, <2>1, FaultParts
  <2> QED BY <1>1, <1>2, <2>1, <2>2, ReadKeepsWatched
<1>6. CASE ContractBar
  <2>1. /\ rd'.pc = "status_log" /\ rd.pc = "bar"
        /\ rd'.found = rd.found \cup Unverified(rd.end)
    BY <1>6 DEF ContractBar, Found, Reading, ReaderFields
  <2>2. CASE rd.end = NoVerdict
    <3>1. Unverified(rd.end) = {}
      BY <2>2 DEF Unverified, NoVerdict, None
    <3> QED BY <1>1, <2>1, <3>1, ReadKeepsWatched
  <2>3. CASE rd.end # NoVerdict
    <3>1. Unverified(rd.end) \subseteq seen.faults
      BY <1>2, <2>1, <2>3, FaultParts
    <3> QED BY <1>1, <2>1, <3>1, ReadKeepsWatched
  <2> QED BY <2>2, <2>3
<1>7. ASSUME NEW at, NEW then \in { "status_state", "replay_terminal", "bound_files" },
             ReadLog(at, then)
      PROVE  Watched'
  <2>1. proj.legal
    BY DEF IInv, LogInv
  <2>2. rd'.pc = then /\ rd'.snap = proj /\ rd'.found = rd.found
    BY <1>7, <2>1 DEF ReadLog, ReaderFields
  <2> QED BY <1>1, <2>2, ReadKeepsWatched
<1>8. CASE StatusState
  <2>1. /\ rd'.pc = "replay_log" /\ rd.pc = "status_state"
        /\ rd'.found = rd.found \cup StateDivergence(rd.snap, state)
    BY <1>8 DEF StatusState, Found, Reading, ReaderFields
  <2>2. StateDivergence(rd.snap, state) \subseteq seen.faults
    BY <1>2, <2>1, DivergenceHeld
  <2> QED BY <1>1, <2>1, <2>2, ReadKeepsWatched
<1>9. CASE ReplayTerminal
  <2>1. /\ rd'.pc = "bound_log" /\ rd.pc = "replay_terminal"
        /\ rd'.found = rd.found \cup TerminalDesync(rd.snap, terminal)
    BY <1>9 DEF ReplayTerminal, Found, Reading, ReaderFields
  <2>2. TerminalDesync(rd.snap, terminal) \subseteq seen.faults
    BY <1>2, <2>1, DesyncHeld
  <2> QED BY <1>1, <2>1, <2>2, ReadKeepsWatched
<1>10. CASE BoundFiles
  <2>1. /\ rd'.pc = "report" /\ rd.pc = "bound_files"
        /\ rd'.found = rd.found \cup MissingBound(rd.snap.count)
    BY <1>10 DEF BoundFiles, Found, Reading, ReaderFields
  <2>2. proj.count = Len(log) /\ proj.count \in Nat
    BY DEF IInv, LogInv, Projections
  <2>3. MissingBound(rd.snap.count) \subseteq MissingBound(Len(log))
    BY <1>2, <2>1, <2>2, MissingBoundGrows
  <2>4. MissingBound(rd.snap.count) \subseteq seen.faults
    BY <1>2, <2>3, FaultParts
  <2> QED BY <1>1, <2>1, <2>4, ReadKeepsWatched
<1> QED BY <1>3, <1>4, <1>5, <1>6, <1>7, <1>8, <1>9, <1>10 DEF Doctor

\* The steps of simulate, and those that the hook takes without doctor.
LEMMA OthersKeepWatched ==
  ASSUME IInv, History, Marking, ReaderFields, Watched,
         \/ StartDoctor \/ CloseReport \/ StartStop \/ StopActive \/ Stop \/ StopFails
         \/ StartSimulate \/ Simulate
  PROVE  Watched'
<1>1. /\ Watch /\ UNCHANGED vars
  BY DEF StartDoctor, CloseReport, StartStop, StopActive, Stop, StopFails, ClaimFile,
     ClaimState, StopDecide, StartSimulate, Simulate, SimulateState, SimulateTerminal,
     Predict, PredictSync, Reading
<1>2. CASE rd' = Off
  BY <1>2, OffFields DEF Watched
<1>3. CASE StartDoctor \/ StartStop
  <2>1. rd'.pc \in { "state", "claim_file" } /\ rd.pc = "off" /\ rd'.found = {}
    BY <1>3, OffFields DEF StartDoctor, StartStop, Reading
  <2> QED BY <1>1, <2>1, ReadKeepsWatched
<1>4. CASE StartSimulate
  <2>1. /\ rd'.pc = "sim_state" /\ rd.pc = "off" /\ rd'.found = {}
        /\ rd'.snap = proj
    BY <1>4, OffFields DEF StartSimulate, Reading
  <2> QED BY <1>1, <2>1, ReadKeepsWatched
<1>5. CASE rd' # Off /\ (ClaimFile \/ ClaimState)
  <2>1. PICK then \in { "state", "claim_state" } : Found(then, {})
    BY <1>5 DEF ClaimFile, ClaimState, StopAllowed
  <2>2. rd.pc # "off" /\ rd'.pc = then /\ rd'.found = rd.found
    BY <1>5, <2>1 DEF Found, ClaimFile, ClaimState, Reading, ReaderFields
  <2> QED BY <1>1, <2>2, ReadKeepsWatched
<1>6. CASE SimulateState
  <2>1. /\ rd'.pc = "sim_terminal" /\ rd.pc = "sim_state" /\ rd'.snap = rd.snap
        /\ rd'.found = rd.found \cup StateDivergence(rd.snap, state)
    BY <1>6 DEF SimulateState, Found, Reading, ReaderFields
  <2>2. StateDivergence(rd.snap, state) \subseteq seen.faults
    BY <2>1, DivergenceHeld DEF Watched
  <2> QED BY <1>1, <2>1, <2>2, ReadKeepsWatched
<1>7. CASE SimulateTerminal
  <2>1. /\ rd'.pc = "predict" /\ rd.pc = "sim_terminal"
        /\ rd'.found = rd.found \cup TerminalDesync(rd.snap, terminal)
    BY <1>7 DEF SimulateTerminal, Found, Reading, ReaderFields
  <2>2. TerminalDesync(rd.snap, terminal) \subseteq seen.faults
    BY <2>1, DesyncHeld DEF Watched
  <2> QED BY <1>1, <2>1, <2>2, ReadKeepsWatched
<1>8. CASE Predict
  <2>1. PICK a, t, v : rd' = [ rd EXCEPT !.pc = "sync", !.action = a, !.task = t, !.end = v ]
    BY <1>8 DEF Predict
  <2>2. rd'.pc = "sync" /\ rd.pc = "predict" /\ rd'.found = rd.found
    BY <1>8, <2>1 DEF Predict, Reading, ReaderFields
  <2> QED BY <1>1, <2>2, ReadKeepsWatched
<1>9. CloseReport \/ StopActive \/ StopDecide \/ StopFails \/ PredictSync => rd' = Off
  BY DEF CloseReport, StopActive, StopDecide, StopFails, StopAllowed, PredictSync
<1> QED BY <1>2, <1>3, <1>4, <1>5, <1>6, <1>7, <1>8, <1>9 DEF Stop, Simulate

LEMMA UnmovedKeepsWatched ==
  ASSUME Watched, UNCHANGED allVars
  PROVE  Watched'
<1>1. /\ log' = log /\ proj' = proj /\ state' = state /\ terminal' = terminal
      /\ files' = files /\ rd' = rd /\ seen' = seen
  BY DEF allVars, readers, vars, disk
<1>2. Faults' = Faults
  <2>1. MissingBound(Len(log))' = MissingBound(Len(log))
    BY <1>1 DEF MissingBound
  <2>2. OrphanBundles' = OrphanBundles /\ DanglingRecords' = DanglingRecords
    <3>1. { g \in files' : g[1] = "bundle" /\ << "record", g[2] >> \notin files' }
            = { g \in files : g[1] = "bundle" /\ << "record", g[2] >> \notin files }
      BY <1>1
    <3>2. { g \in files' : g[1] = "record" /\ << "bundle", g[2] >> \notin files' }
            = { g \in files : g[1] = "record" /\ << "bundle", g[2] >> \notin files }
      BY <1>1
    <3>3. OrphanBundles' = OrphanBundles
      BY <3>1 DEF OrphanBundles
    <3>4. DanglingRecords' = DanglingRecords
      BY <3>2 DEF DanglingRecords
    <3> QED BY <3>3, <3>4
  <2>3. /\ StateDivergence(proj', state') = StateDivergence(proj, state)
        /\ TerminalDesync(proj', terminal') = TerminalDesync(proj, terminal)
        /\ MissingTerminal(state', terminal') = MissingTerminal(state, terminal)
    BY <1>1, Zenon
  <2>4. Unverified(terminal)' = Unverified(terminal)
    BY <1>1 DEF Unverified, MeetsStrictBar, BoundOnce
  <2>5. PICK a, b, c, d, e, f, g :
          /\ a = StateDivergence(proj, state) /\ b = TerminalDesync(proj, terminal)
          /\ c = MissingBound(Len(log)) /\ d = MissingTerminal(state, terminal)
          /\ e = OrphanBundles /\ f = DanglingRecords /\ g = Unverified(terminal)
    BY Zenon
  <2>6. Faults = UNION { a, b, c, d, e, f, g }
    BY <2>5, Zenon DEF Faults
  <2>7. Faults' = UNION { a, b, c, d, e, f, g }
    <3>1. /\ a = StateDivergence(proj', state') /\ b = TerminalDesync(proj', terminal')
          /\ c = MissingBound(Len(log))' /\ d = MissingTerminal(state', terminal')
          /\ e = OrphanBundles' /\ f = DanglingRecords' /\ g = Unverified(terminal)'
      BY <2>1, <2>2, <2>3, <2>4, <2>5, Zenon
    <3> QED BY <3>1, Zenon DEF Faults
  <2> QED BY <2>6, <2>7, Zenon
<1>3. Consistent' => Consistent
  BY <1>1 DEF Consistent, StateJsonAgrees, TerminalFileAgrees, BoundEvidencePresent
<1>4. (StateHeld => StateHeld') /\ (EndHeld => EndHeld')
  BY <1>1, Zenon DEF StateHeld, EndHeld, Held, Noted
<1> QED BY <1>1, <1>2, <1>3, <1>4, Zenon DEF Watched

LEMMA NextKeepsWatched ==
  ASSUME IInv, IInv', History, Marking, Marking', ProjectionsNeverAhead, ReaderFields,
         Watched, [ReportsNext]_allVars
  PROVE  Watched'
<1>1. CASE Moves
  <2>1. [Next]_vars
    BY ReadersMoveNothing
  <2>2. Watch /\ (rd' = rd \/ rd' = [ rd EXCEPT !.calm = rd.verb # "simulate" ])
    BY <1>1 DEF Moves
  <2> QED BY <2>1, <2>2, MovesKeepWatched
<1>2. CASE UNCHANGED allVars
  BY <1>2, UnmovedKeepsWatched
<1> QED BY <1>1, <1>2, DoctorKeepsWatched, OthersKeepWatched DEF ReportsNext

LEMMA ReportsWatched == ASSUME Tasks # {} PROVE ReportsSpec => []Watched
<1>1. ReportsInit => Watched
  BY OffFields DEF ReportsInit, Watched
<1>2. IInv /\ IInv' /\ History /\ Marking /\ Marking' /\ ProjectionsNeverAhead /\ Foretold
        /\ Watched /\ [ReportsNext]_allVars => Watched'
  BY NextKeepsWatched DEF Foretold
<1> QED BY <1>1, <1>2, ReportsIsLoopRun, LoopRunIInv, LoopRunHistory, LoopRunMarking,
       LoopRunNeverAhead, ReportsForetold, PTL DEF ReportsSpec

\* The first half of ReportsTruthful.
FindingsTrue == rd.pc \in { "report", "sync" } => rd.found \subseteq seen.faults

\* Whatever doctor or simulate finds beside any number of processes, with any
\* commands and any kills, was so at some moment while it read.
THEOREM ReportsFindings ==
  ASSUME Tasks # {} PROVE ReportsSpec => []FindingsTrue
<1>1. Watched => FindingsTrue
  BY DEF Watched, FindingsTrue
<1> QED BY <1>1, ReportsWatched, PTL

-----------------------------------------------------------------------------
(* What a report does not find.  One process whose only command is `loop run` *)
(* keeps state.json on its way through the log, entry by entry, and appends    *)
(* only when it has arrived: just before an append the files agree.            *)

OnlyRuns == Commands \subseteq { "run", "edit" }

\* state.json as it is when it has come to the k-th entry.
Shows(doc, pr, k) ==
  /\ k \in DOMAIN pr.entries /\ k >= 4
  /\ doc.state = "execute-task"
  /\ doc.iter = pr.entries[k].iter /\ doc.active = pr.entries[k].task
  /\ doc.terminal = None /\ doc.paused = FALSE /\ doc.pending = NoEvent

\* Entries beyond the opening are dispatches.
OpenRun(pr) ==
  /\ pr.state = "execute-task" /\ pr.paused = FALSE /\ pr.pending = NoEvent
  /\ Len(pr.entries) >= 4
  /\ pr.iter = pr.entries[Len(pr.entries)].iter
  /\ pr.active = pr.entries[Len(pr.entries)].task
  /\ \A k \in DOMAIN pr.entries : k > 4 =>
       pr.entries[k].task # None /\ pr.entries[k].state = None

\* An event or entry that is the k-th in the log.
Carries(x, pr, k) ==
  k \in DOMAIN pr.entries /\ x.iter = pr.entries[k].iter /\ x.task = pr.entries[k].task

InStep(o, pr, doc) ==
  /\ o.pc \notin ControlPoints
  /\ o.pc \in { "reconcile", "select", "commit" } => o.snap = pr
  /\ o.pc \in { "select", "commit" } => Shows(doc, pr, Len(pr.entries))
  /\ o.pc = "commit" =>
       /\ o.cmd = "run"
       /\ \/ o.event.type = "terminal_written"
          \/ /\ o.event.type = "iteration_appended"
             /\ o.event.task # None /\ o.event.target = None
  /\ o.pc \in WritePoints =>
       /\ Shows(doc, pr, Len(pr.entries) - 1)
       /\ Carries(o.event, pr, Len(pr.entries)) /\ o.event.target = None
  /\ o.pc \in MatPoints =>
       /\ \E k \in Nat : Shows(doc, pr, k) /\ Carries(o.entry, pr, k + 1)
       /\ o.entry.state = None
       /\ o.event.type # "iteration_appended" => o.snap = pr
  /\ o.pc \in { "mat_check", "mat_block", "mat_stamp" } => o.doc = doc

Tracking ==
  proj.terminal = NoTerminal =>
    /\ OpenRun(proj)
    /\ \E k : Shows(state, proj, k)
    /\ \A k \in DOMAIN log : log[k].bound => log[k].iter <= proj.iter
    /\ \A p \in Procs : InStep(op[p], proj, state)

\* A step that appends nothing.
LEMMA TrackingStep ==
  ASSUME IInv, OneProcess, Tracking, UNCHANGED << log, proj >>,
         NEW p \in Procs, NEW n, op' = [ op EXCEPT ![p] = n ],
         proj.terminal = NoTerminal =>
           (\E k : Shows(state', proj, k)) /\ InStep(n, proj, state')
  PROVE  Tracking'
<1>1. DOMAIN op = Procs
  BY DEF IInv, OpsInv
<1>2. \A q \in Procs : op'[q] = n
  BY <1>1 DEF OneProcess
<1>3. log' = log /\ proj' = proj
  OBVIOUS
<1>4. \A q \in Procs : proj.terminal = NoTerminal => InStep(op'[q], proj, state')
  BY <1>2
<1> QED BY <1>3, <1>4 DEF Tracking

LEMMA IdleInStep == \A pr, doc : InStep(Idle, pr, doc)
<1>1. Idle.pc = "idle"
  BY DEF Idle
<1> QED BY <1>1 DEF InStep, ControlPoints, WritePoints, MatPoints

LEMMA TrackingReturn ==
  ASSUME IInv, OneProcess, Tracking, UNCHANGED << log, proj, state >>,
         NEW p \in Procs, Return(p)
  PROVE  Tracking'
BY TrackingStep, IdleInStep DEF Return, Tracking

LEMMA EntriesTyped ==
  ASSUME IInv
  PROVE  /\ proj.entries \in Seq(RunlogEntries) /\ Len(proj.entries) \in Nat
         /\ DOMAIN proj.entries = 1 .. Len(proj.entries)
         /\ \A i \in DOMAIN proj.entries : proj.entries[i].iter \in Nat
<1>1. proj.entries \in Seq(RunlogEntries)
  BY DEF IInv, LogInv, Projections
<1>2. ASSUME NEW i \in DOMAIN proj.entries PROVE proj.entries[i].iter \in Nat
  <2>1. proj.entries[i] \in RunlogEntries
    BY <1>1
  <2> QED BY <2>1 DEF RunlogEntries
<1> QED BY <1>1, <1>2

\* From one entry to the next that is due, or to the selection.
LEMMA TrackingReconcile ==
  ASSUME IInv, OneProcess, Tracking, History, UNCHANGED << log, proj >>, NEW p \in Procs,
         proj.terminal = NoTerminal => op[p].snap = proj,
         NEW c, NEW current, ReconcileFrom(p, current),
         proj.terminal = NoTerminal => Shows(state', proj, c) /\ current = proj.entries[c].iter
  PROVE  Tracking'
<1>1. op[p] \in Ops
  BY DEF IInv, OpsInv, OpInv
<1> DEFINE s == op[p].snap
           m == Len(proj.entries)
<1>2. /\ proj.entries \in Seq(RunlogEntries) /\ m \in Nat /\ DOMAIN proj.entries = 1 .. m
      /\ \A i \in DOMAIN proj.entries : proj.entries[i].iter \in Nat
  BY EntriesTyped
<1>3. \A i, j \in DOMAIN proj.entries : i < j => proj.entries[i].iter < proj.entries[j].iter
  BY DEF History, Ordered
<1>4. CASE NothingDue(s, current)
             /\ op' = [ op EXCEPT ![p].pc = "select", ![p].doc = NoDoc,
                          ![p].entry = Entry(NoEventYet) ]
  <2>1. PICK n : n = [ op[p] EXCEPT !.pc = "select", !.doc = NoDoc,
                                    !.entry = Entry(NoEventYet) ]
    OBVIOUS
  <2>2. n.pc = "select" /\ n.snap = s /\ op' = [ op EXCEPT ![p] = n ]
    BY <1>1, <1>4, <2>1 DEF Ops
  <2>3. ASSUME proj.terminal = NoTerminal
        PROVE  Shows(state', proj, m) /\ InStep(n, proj, state')
    <3>1. Shows(state', proj, c) /\ current = proj.entries[c].iter /\ s = proj
      BY <2>3
    <3>2. c \in 1 .. m /\ \A i \in DOMAIN proj.entries : proj.entries[i].iter <= current
      BY <1>2, <1>4, <3>1 DEF Shows, NothingDue
    <3>3. c = m
      <4>1. m \in DOMAIN proj.entries /\ c \in DOMAIN proj.entries
        BY <1>2, <3>2
      <4>2. c < m => current < proj.entries[m].iter
        BY <1>3, <3>1, <4>1
      <4>3. proj.entries[m].iter <= proj.entries[c].iter
        BY <3>1, <3>2, <4>1
      <4> QED BY <1>2, <3>1, <3>2, <4>1, <4>2, <4>3
    <3> QED BY <2>2, <3>1, <3>3 DEF InStep, ControlPoints, WritePoints, MatPoints
  <2> QED BY <2>2, <2>3, TrackingStep
<1>5. ASSUME NEW i \in DOMAIN s.entries, IsNextDue(s, current, s.entries[i]),
             op' = [ op EXCEPT ![p].pc = "mat_read", ![p].entry = s.entries[i] ]
      PROVE  Tracking'
  <2>1. PICK n : n = [ op[p] EXCEPT !.pc = "mat_read", !.entry = s.entries[i] ]
    OBVIOUS
  <2>2. n.pc = "mat_read" /\ n.snap = s /\ n.entry = s.entries[i]
        /\ op' = [ op EXCEPT ![p] = n ]
    BY <1>1, <1>5, <2>1 DEF Ops
  <2>3. ASSUME proj.terminal = NoTerminal
        PROVE  Shows(state', proj, c) /\ InStep(n, proj, state')
    <3>1. /\ Shows(state', proj, c) /\ current = proj.entries[c].iter /\ s = proj
          /\ OpenRun(proj)
      BY <2>3 DEF Tracking
    <3>2. c \in DOMAIN proj.entries /\ c >= 4 /\ c \in Nat
      BY <1>2, <3>1 DEF Shows
    <3>3. PICK j \in DOMAIN proj.entries :
            /\ proj.entries[i] = proj.entries[j]
            /\ proj.entries[j].iter > current
            /\ \A h \in 1 .. j - 1 : proj.entries[h].iter <= current
      BY <1>5, <3>1 DEF IsNextDue
    <3>4. j = c + 1
      <4>1. ~(j < c)
        BY <1>2, <1>3, <3>1, <3>2, <3>3
      <4>2. j # c
        BY <1>2, <3>1, <3>2, <3>3
      <4>3. ~(c + 1 < j)
        <5> SUFFICES ASSUME c + 1 < j PROVE FALSE
          OBVIOUS
        <5>1. c + 1 \in 1 .. j - 1 /\ c + 1 \in DOMAIN proj.entries
          BY <1>2, <3>2, <3>3
        <5>2. proj.entries[c].iter < proj.entries[c + 1].iter
          BY <1>3, <3>2, <5>1
        <5>3. proj.entries[c + 1].iter <= proj.entries[c].iter
          BY <3>1, <3>3, <5>1
        <5> QED BY <1>2, <3>2, <5>1, <5>2, <5>3
      <4> QED BY <1>2, <3>2, <3>3, <4>1, <4>2, <4>3
    <3>5. n.entry = proj.entries[c + 1] /\ c + 1 \in DOMAIN proj.entries /\ c + 1 > 4
      BY <2>2, <3>1, <3>2, <3>3, <3>4
    <3>6. Carries(n.entry, proj, c + 1) /\ n.entry.state = None
      BY <3>1, <3>5 DEF Carries, OpenRun
    <3> QED BY <2>2, <3>1, <3>2, <3>6 DEF InStep, ControlPoints, WritePoints, MatPoints
  <2> QED BY <2>2, <2>3, TrackingStep
<1> QED BY <1>4, <1>5 DEF ReconcileFrom

\* After the end there is nothing to keep.
LEMMA TrackingEnded ==
  ASSUME proj'.terminal # NoTerminal
  PROVE  Tracking'
BY DEF Tracking

LEMMA TrackingStart ==
  ASSUME IInv, OneProcess, OnlyRuns, History, Tracking, NEW p \in Procs,
         \/ Invoke(p) \/ Reconcile(p) \/ Conflict(p) \/ GiveUp(p) \/ Crash(p)
         \/ Reread(p) \/ DocRead(p) \/ DocStamp(p)
  PROVE  Tracking'
<1>0. op[p] \in Ops
  BY DEF IInv, OpsInv, OpInv
<1>1. CASE RunReady(p)
  <2>1. PICK n : n = [ op[p] EXCEPT !.pc = "reconcile", !.cmd = "run", !.snap = proj ]
    OBVIOUS
  <2>2. /\ n.pc = "reconcile" /\ n.snap = proj /\ op' = [ op EXCEPT ![p] = n ]
        /\ UNCHANGED << log, proj, state >>
    BY <1>0, <1>1, <2>1 DEF Ops, RunReady, disk
  <2>3. InStep(n, proj, state)
    BY <2>2 DEF InStep, ControlPoints, WritePoints, MatPoints
  <2> QED BY <2>2, <2>3, TrackingStep DEF Tracking
<1>2. CASE RunTerminal(p)
  BY <1>2, TrackingEnded DEF RunTerminal
<1>3. ~(Approve(p) \/ Pause(p) \/ Resume(p) \/ Cancel(p))
  BY DEF OnlyRuns, Approve, Pause, Resume, Cancel, Prepare
<1>4. CASE Conflict(p) \/ GiveUp(p) \/ Crash(p)
  BY <1>4, TrackingReturn DEF Conflict, GiveUp, Crash, disk
<1>5. CASE Reconcile(p)
  <2>1. /\ ReconcileFrom(p, state.iter) /\ op[p].pc = "reconcile"
        /\ UNCHANGED << log, proj, state >>
    BY <1>5 DEF Reconcile, At, disk
  <2>2. proj.terminal = NoTerminal => op[p].snap = proj
    BY <2>1 DEF Tracking, InStep
  <2>3. PICK c : proj.terminal = NoTerminal => Shows(state, proj, c)
    BY DEF Tracking
  <2>4. proj.terminal = NoTerminal =>
          Shows(state', proj, c) /\ state.iter = proj.entries[c].iter
    BY <2>1, <2>3 DEF Shows
  <2> QED BY <2>1, <2>2, <2>4, TrackingReconcile
<1>6. CASE Reread(p) \/ DocRead(p) \/ DocStamp(p)
  <2>1. op[p].pc \in ControlPoints /\ proj' = proj
    BY <1>6 DEF Reread, DocRead, DocStamp, At, ControlPoints
  <2>2. proj.terminal # NoTerminal
    BY <2>1 DEF Tracking, InStep
  <2> QED BY <2>1, <2>2, TrackingEnded
<1> QED BY <1>1, <1>2, <1>3, <1>4, <1>5, <1>6 DEF Invoke

LEMMA TrackingPlanning ==
  ASSUME IInv, OneProcess, History, Tracking, NEW p \in Procs, Verify(p) \/ Conclude(p)
  PROVE  Tracking'
<1> DEFINE o == op[p]
           s == o.snap
<1>0. o \in Ops
  BY DEF IInv, OpsInv, OpInv
<1>1. o.pc = "select" /\ o.cmd = "run" /\ UNCHANGED << log, proj, state >>
  <2>1. o.pc = "select" /\ UNCHANGED << log, proj, state >>
    BY DEF Verify, Conclude, At, disk
  <2> QED BY <2>1 DEF History, OpTrace, RunPoints
<1>2. ASSUME proj.terminal = NoTerminal
      PROVE  s = proj /\ Shows(state, proj, Len(proj.entries))
  BY <1>1, <1>2 DEF Tracking, InStep
<1>3. ASSUME NEW n, op' = [ op EXCEPT ![p] = n ], n.pc = "commit", n.snap = s,
             n.cmd = o.cmd,
             \/ n.event.type = "terminal_written"
             \/ /\ n.event.type = "iteration_appended"
                /\ n.event.task # None /\ n.event.target = None
      PROVE  Tracking'
  <2>1. proj.terminal = NoTerminal => InStep(n, proj, state)
    BY <1>1, <1>2, <1>3 DEF InStep, ControlPoints, WritePoints, MatPoints
  <2> QED BY <1>1, <1>3, <2>1, TrackingStep DEF Tracking
<1>4. CASE Verify(p)
  <2> DEFINE E(t, oc) == [ Event("iteration_appended", s.count) EXCEPT
                  !.iter = s.iter + 1, !.task = t, !.bound = TRUE, !.outcome = oc ]
  <2>1. PICK t, oc : t \in Tasks /\ op' = [ op EXCEPT ![p].pc = "commit", ![p].event = E(t, oc) ]
    BY <1>4 DEF Verify
  <2>2. E(t, oc).target = None /\ E(t, oc).type = "iteration_appended" /\ E(t, oc).task = t
    BY DEF Event
  <2>3. PICK e : e = E(t, oc)
    OBVIOUS
  <2>4. PICK n : n = [ o EXCEPT !.pc = "commit", !.event = e ]
    OBVIOUS
  <2>5. n.pc = "commit" /\ n.snap = s /\ n.event = e /\ n.cmd = o.cmd
    BY <1>0, <2>4 DEF Ops
  <2>6. op' = [ op EXCEPT ![p] = n ]
    BY <2>1, <2>3, <2>4
  <2>7. e.target = None /\ e.type = "iteration_appended" /\ e.task # None
    BY <2>1, <2>2, <2>3, LoopRunAssumption
  <2> QED BY <1>3, <2>5, <2>6, <2>7
<1>5. CASE Conclude(p)
  <2> DEFINE v == AutoVerdict(s)
             e == [ Event("terminal_written", s.count) EXCEPT !.iter = s.iter, !.verdict = v ]
  <2>1. PICK n : n = [ o EXCEPT !.pc = "commit", !.verdict = v, !.event = e ]
    OBVIOUS
  <2>2. op' = [ op EXCEPT ![p] = n ]
    BY <1>5, <2>1 DEF Conclude
  <2>3. e.type = "terminal_written"
    BY DEF Event
  <2> HIDE DEF e, v
  <2>4. n.pc = "commit" /\ n.snap = s /\ n.event = e /\ n.cmd = o.cmd
    BY <1>0, <2>1 DEF Ops
  <2> QED BY <1>3, <2>2, <2>3, <2>4
<1> QED BY <1>4, <1>5

LEMMA TrackingWriteEvidence ==
  ASSUME IInv, OneProcess, Tracking, NEW p \in Procs, WriteEvidence(p)
  PROVE  Tracking'
<1> DEFINE o == op[p]
           m == Len(proj.entries)
<1>0. o \in Ops
  BY DEF IInv, OpsInv, OpInv
<1>1. PICK kind \in WritePoints, then \in { "record", "bundle", "mat_read" } :
        WriteArtifact(p, kind, then)
  BY DEF WriteEvidence, WritePoints
<1>2. PICK n : n = [ o EXCEPT !.pc = then,
                       !.entry = IF then = "mat_read" THEN Entry(o.event) ELSE @ ]
  OBVIOUS
<1>3. /\ o.pc = kind /\ op' = [ op EXCEPT ![p] = n ] /\ UNCHANGED << log, proj, state >>
      /\ n.pc = then /\ n.event = o.event
      /\ then = "mat_read" => n.entry = Entry(o.event)
  BY <1>0, <1>1, <1>2 DEF WriteArtifact, At, Ops
<1>4. ASSUME proj.terminal = NoTerminal
      PROVE  InStep(n, proj, state)
  <2>1. /\ Shows(state, proj, m - 1) /\ Carries(o.event, proj, m)
        /\ o.event.target = None
    BY <1>1, <1>3, <1>4 DEF Tracking, InStep
  <2>2. CASE then # "mat_read"
    BY <1>1, <1>3, <2>1, <2>2 DEF InStep, ControlPoints, WritePoints, MatPoints
  <2>3. CASE then = "mat_read"
    <3>1. /\ n.entry.iter = o.event.iter /\ n.entry.task = o.event.task
          /\ n.entry.state = o.event.target
      BY <1>3, <2>3 DEF Entry
    <3>2. m - 1 + 1 = m /\ m - 1 \in Nat
      BY <2>1, EntriesTyped DEF Shows
    <3>3. Carries(n.entry, proj, m - 1 + 1) /\ n.entry.state = None
      BY <2>1, <3>1, <3>2 DEF Carries
    <3>4. o.event.type = "iteration_appended"
      BY <1>1, <1>3 DEF IInv, OpsInv, OpInv, WritePoints
    <3> QED BY <1>3, <2>1, <2>3, <3>2, <3>3, <3>4
            DEF InStep, ControlPoints, WritePoints, MatPoints
  <2> QED BY <2>2, <2>3
<1> QED BY <1>3, <1>4, TrackingStep DEF Tracking

LEMMA TrackingMaterialize ==
  ASSUME IInv, OneProcess, History, Tracking, NEW p \in Procs,
         \/ MaterializeRead(p) \/ MaterializeCheck(p)
         \/ MaterializeBlock(p) \/ MaterializeStamp(p)
  PROVE  Tracking'
<1> DEFINE o == op[p]
<1>0. o \in Ops /\ o.doc \in StateDocs
  BY DEF IInv, OpsInv, OpInv, Ops
<1>1. o.pc \in MatPoints /\ UNCHANGED << log, proj >>
  BY DEF MaterializeRead, MaterializeCheck, MaterializeBlock, MaterializeStamp, At, MatPoints,
     disk
<1>2. CASE proj.terminal # NoTerminal
  BY <1>1, <1>2, TrackingEnded
<1>3. CASE proj.terminal = NoTerminal
  <2>1. /\ o.entry.state = None /\ InStep(o, proj, state) /\ OpenRun(proj)
        /\ o.event.type # "iteration_appended" => o.snap = proj
    BY <1>1, <1>3 DEF Tracking, InStep
  <2>2. PICK k \in Nat : Shows(state, proj, k) /\ Carries(o.entry, proj, k + 1)
    BY <1>1, <1>3 DEF Tracking, InStep
  <2>3. ASSUME NEW n, op' = [ op EXCEPT ![p] = n ], UNCHANGED state,
               n.pc \in { "mat_check", "mat_block", "mat_stamp" },
               n.snap = o.snap, n.event = o.event, n.entry = o.entry, n.doc = state
        PROVE  Tracking'
    <3>1. InStep(n, proj, state)
      BY <2>1, <2>2, <2>3 DEF InStep, ControlPoints, WritePoints, MatPoints
    <3> QED BY <1>1, <2>2, <2>3, <3>1, TrackingStep
  <2>4. CASE MaterializeRead(p)
    <3>1. op' = [ op EXCEPT ![p].pc = "mat_check", ![p].doc = state ] /\ UNCHANGED state
      BY <2>1, <2>4 DEF MaterializeRead, disk
    <3>2. PICK n : n = [ o EXCEPT !.pc = "mat_check", !.doc = state ]
      OBVIOUS
    <3>3. /\ n.pc = "mat_check" /\ n.event = o.event /\ n.entry = o.entry /\ n.doc = state
          /\ n.snap = o.snap
      BY <1>0, <3>2 DEF Ops
    <3> QED BY <2>3, <3>1, <3>2, <3>3
  <2>5. CASE MaterializeCheck(p) \/ MaterializeBlock(p)
    <3>1. PICK pc \in { "mat_block", "mat_stamp" } : Goto(p, pc)
      BY <2>5 DEF MaterializeCheck, MaterializeBlock
    <3>2. o.doc = state /\ UNCHANGED state
      BY <2>1, <2>5 DEF MaterializeCheck, MaterializeBlock, At, InStep, disk
    <3>3. PICK n : n = [ o EXCEPT !.pc = pc ]
      OBVIOUS
    <3>4. /\ n.pc = pc /\ n.event = o.event /\ n.entry = o.entry /\ n.doc = state
          /\ n.snap = o.snap /\ op' = [ op EXCEPT ![p] = n ]
      BY <1>0, <3>1, <3>2, <3>3 DEF Ops, Goto
    <3> QED BY <2>3, <3>2, <3>4
  <2>6. CASE MaterializeStamp(p)
    <3>1. o.doc = state
      BY <2>1, <2>6 DEF MaterializeStamp, At, InStep
    <3>2. state' = [ state EXCEPT !.iter = o.entry.iter,
                       !.active = IF o.entry.task = None THEN @ ELSE o.entry.task ]
      <4>1. state' = [ o.doc EXCEPT
              !.state = IF o.entry.state = None THEN @ ELSE o.entry.state,
              !.iter = o.entry.iter,
              !.active = IF o.entry.task = None THEN @ ELSE o.entry.task ]
        BY <2>6 DEF MaterializeStamp
      <4> QED BY <1>0, <2>1, <3>1, <4>1 DEF StateDocs
    <3>3. /\ k + 1 \in DOMAIN proj.entries /\ k >= 4 /\ k + 1 > 4 /\ k + 1 >= 4
          /\ o.entry.iter = proj.entries[k + 1].iter
          /\ o.entry.task = proj.entries[k + 1].task
      BY <2>2 DEF Carries, Shows
    <3>4. o.entry.task # None
      BY <2>1, <3>3 DEF OpenRun
    <3>5. state' = [ state EXCEPT !.iter = o.entry.iter, !.active = o.entry.task ]
      BY <3>2, <3>4
    <3>6. Shows(state', proj, k + 1)
      <4>1. /\ state'.state = state.state /\ state'.iter = o.entry.iter
            /\ state'.active = o.entry.task /\ state'.terminal = state.terminal
            /\ state'.paused = state.paused /\ state'.pending = state.pending
        BY <1>0, <3>1, <3>5 DEF StateDocs
      <4> QED BY <2>2, <3>3, <4>1, Zenon DEF Shows
    <3>7. CASE Return(p)
      BY <1>1, <3>6, <3>7, IdleInStep, TrackingStep DEF Return
    <3>8. CASE o.event.type # "iteration_appended" /\ ReconcileFrom(p, o.entry.iter)
      BY <1>1, <2>1, <3>3, <3>6, <3>8, TrackingReconcile
    <3> QED BY <2>6, <3>7, <3>8 DEF MaterializeStamp
  <2> QED BY <2>4, <2>5, <2>6
<1> QED BY <1>2, <1>3

\* Publishing is after the end.
LEMMA TrackingPublish ==
  ASSUME History, Solo, NEW p \in Procs,
         \/ EndCheck(p) \/ EndRead(p) \/ EndCreate(p) \/ EndStamp(p)
         \/ SyncCheck(p) \/ SyncRead(p) \/ SyncStamp(p)
  PROVE  Tracking'
<1>1. proj' = proj
  BY DEF EndCheck, EndRead, EndCreate, EndStamp, SyncCheck, SyncRead, SyncStamp
<1>2. CASE EndCheck(p) \/ EndRead(p) \/ EndCreate(p)
  BY <1>1, <1>2, TrackingEnded DEF EndCheck, EndRead, EndCreate, At, History, OpTrace,
     EndPoints
<1>3. CASE EndStamp(p) \/ SyncCheck(p) \/ SyncRead(p) \/ SyncStamp(p)
  <2>1. op[p].pc \in SyncPoints \cup { "end_stamp" }
    BY <1>3 DEF EndStamp, SyncCheck, SyncRead, SyncStamp, At, SyncPoints
  <2>2. terminal # NoVerdict
    BY <2>1 DEF Solo, SoloOp, SyncPoints
  <2> QED BY <1>1, <2>2, TrackingEnded DEF History
<1> QED BY <1>2, <1>3

LEMMA TrackingCommit ==
  ASSUME IInv, IInv', OneProcess, History, Tracking, NEW p \in Procs, Commit(p)
  PROVE  Tracking'
<1> DEFINE o == op[p]
           m == Len(proj.entries)
<1>0. o \in Ops /\ OpTrace(o, proj) /\ DOMAIN op = Procs
  BY DEF IInv, OpsInv, OpInv, History
<1>1. o.pc = "commit" /\ o.snap = proj /\ o.event \in Events
  BY CommitReads
<1>2. PICK e \in Events : e = o.event
  BY <1>1
<1>3. Follows(proj, e) /\ AppendEvent(e) /\ UNCHANGED state
  BY <1>0, <1>1, <1>2 DEF OpTrace, Commit, disk
<1>4. PICK x : x = [ e EXCEPT !.seq = Len(log) ]
  OBVIOUS
<1>5. /\ proj \in Projections /\ proj.legal /\ proj'.legal /\ log \in Seq(Events)
      /\ Len(log) \in Nat /\ proj.entries \in Seq(RunlogEntries) /\ m \in Nat
      /\ DOMAIN proj.entries = 1 .. m /\ proj.iter \in Nat
  BY EntriesTyped DEF IInv, LogInv, Projections
<1>6. /\ x \in Events /\ x.type = e.type /\ x.iter = e.iter /\ x.task = e.task
      /\ x.target = e.target /\ x.bound = e.bound /\ x.seq = Len(log)
  BY <1>4, <1>5 DEF Events
<1>7. proj' = ReduceOne(proj, x) /\ log' = Append(log, x)
  BY <1>3, <1>4 DEF AppendEvent
<1>8. ~Refused(proj, x)
  BY <1>5, <1>7 DEF ReduceOne, Illegal, EmptyProjection
<1>9. x.type \notin { "contract_opened", "terminal_superseded" }
  BY <1>3, <1>6 DEF Follows
<1>10. /\ proj.terminal = NoTerminal
       /\ proj'.iter = IF e.type \in {"receipt_appended", "terminal_written"}
                       THEN proj.iter ELSE e.iter
       /\ proj'.entries = IF e.type = "iteration_appended"
                          THEN Append(proj.entries, Entry(x)) ELSE proj.entries
       /\ e.type = "terminal_written" =>
            proj'.terminal = [ verdict |-> x.verdict, seq |-> x.seq ]
  BY <1>5, <1>6, <1>7, <1>8, <1>9, ReduceOneFields
<1>11. /\ OpenRun(proj) /\ Shows(state, proj, m) /\ o.cmd = "run"
       /\ \A k \in DOMAIN log : log[k].bound => log[k].iter <= proj.iter
       /\ \/ e.type = "terminal_written"
          \/ e.type = "iteration_appended" /\ e.task # None /\ e.target = None
  BY <1>1, <1>2, <1>10 DEF Tracking, InStep
<1>12. CASE e.type = "terminal_written"
  <2>1. proj'.terminal.seq # NoEvent
    BY <1>5, <1>6, <1>10, <1>12 DEF NoEvent
  <2> QED BY <2>1, TrackingEnded DEF NoTerminal
<1>13. CASE e.type = "iteration_appended" /\ e.task # None /\ e.target = None
  <2>1. /\ proj'.entries = Append(proj.entries, Entry(x)) /\ proj'.iter = e.iter
        /\ Entry(x).iter = e.iter /\ Entry(x).task = e.task /\ Entry(x).state = None
        /\ e.iter > proj.iter
    BY <1>3, <1>6, <1>10, <1>13 DEF Entry, Follows
  <2>2. /\ Len(proj'.entries) = m + 1 /\ proj'.entries[m + 1] = Entry(x)
        /\ DOMAIN proj'.entries = 1 .. m + 1
        /\ \A i \in 1 .. m : proj'.entries[i] = proj.entries[i]
    <3>1. Entry(x) \in RunlogEntries
      <4>1. proj'.entries \in Seq(RunlogEntries)
        BY EntriesTyped DEF IInv, LogInv, Projections
      <4> QED BY <1>6 DEF Entry, RunlogEntries, Events
    <3> QED BY <1>5, <2>1, <3>1
  <2>3. proj'.state = proj.state
    <3>1. proj'.state = IF x.target = None THEN proj.state ELSE x.target
      BY <1>5, <1>6, <1>7, <1>8, <1>9, <1>13, ReduceOneState
    <3> QED BY <1>6, <1>13, <3>1
  <2>4. proj'.paused = proj.paused /\ proj'.pending = proj.pending /\ proj'.active = e.task
    BY <1>5, <1>6, <1>7, <1>8, <1>9, <1>13, ReduceOneOverlay
  <2>5. m >= 4 /\ m \in DOMAIN proj.entries
    BY <1>11 DEF Shows
  <2>6. PICK q : q = proj'
    OBVIOUS
  <2>7. OpenRun(q)
    <3>0. /\ proj.state = "execute-task" /\ proj.paused = FALSE /\ proj.pending = NoEvent
          /\ \A k \in DOMAIN proj.entries : k > 4 =>
               proj.entries[k].task # None /\ proj.entries[k].state = None
      BY <1>11, Zenon DEF OpenRun
    <3>1. ASSUME NEW k \in DOMAIN q.entries, k > 4
          PROVE  q.entries[k].task # None /\ q.entries[k].state = None
      <4>1. CASE k = m + 1
        BY <1>13, <2>1, <2>2, <2>6, <4>1
      <4>2. CASE k # m + 1
        <5>1. k \in 1 .. m + 1
          BY <2>2, <2>6
        <5>2. k \in 1 .. m
          BY <1>5, <4>2, <5>1
        <5>3. k \in DOMAIN proj.entries /\ q.entries[k] = proj.entries[k]
          BY <1>5, <2>2, <2>6, <5>2, Zenon
        <5> QED BY <3>0, <3>1, <5>3
      <4> QED BY <4>1, <4>2
    <3>2. Len(q.entries) >= 4 /\ q.entries[Len(q.entries)] = Entry(x)
      BY <1>5, <2>2, <2>5, <2>6
    <3>3. /\ q.state = "execute-task" /\ q.paused = FALSE /\ q.pending = NoEvent
          /\ q.iter = Entry(x).iter /\ q.active = Entry(x).task
      BY <2>1, <2>3, <2>4, <2>6, <3>0
    <3> HIDE DEF m
    <3> QED BY <3>1, <3>2, <3>3, Zenon DEF OpenRun
  <2>8. Shows(state, q, m) /\ Len(q.entries) - 1 = m
    <3>1. Len(q.entries) - 1 = m
      BY <1>5, <2>2, <2>6
    <3>2. m \in 1 .. m /\ m \in 1 .. m + 1
      BY <1>5, <2>5
    <3>3. m \in DOMAIN q.entries /\ q.entries[m] = proj.entries[m]
      BY <2>2, <2>6, <3>2, Zenon
    <3> HIDE DEF m
    <3> QED BY <1>11, <3>1, <3>3, Zenon DEF Shows
  <2>9. \A k \in DOMAIN log' : log'[k].bound => log'[k].iter <= q.iter
    <3> SUFFICES ASSUME NEW k \in DOMAIN log', log'[k].bound
                 PROVE  log'[k].iter <= q.iter
      OBVIOUS
    <3>1. (k \in DOMAIN log /\ log'[k] = log[k]) \/ log'[k] = x
      BY <1>5, <1>6, <1>7
    <3>2. e.iter \in Nat
      BY DEF Events
    <3>3. CASE k \in DOMAIN log /\ log'[k] = log[k]
      <4>1. log[k].iter <= proj.iter /\ log[k].iter \in Nat
        <5>1. log[k] \in Events
          BY <1>5, <3>3
        <5>2. log[k].bound
          BY <3>3
        <5> QED BY <1>11, <3>3, <5>1, <5>2 DEF Events
      <4> QED BY <1>5, <2>1, <2>6, <3>2, <3>3, <4>1
    <3>4. CASE log'[k] = x
      BY <1>6, <2>1, <2>6, <3>2, <3>4
    <3> QED BY <3>1, <3>3, <3>4
  <2>10. PICK n : n = [ o EXCEPT !.pc = AfterCommit(o) ]
    OBVIOUS
  <2>11. n.pc = "object" /\ n.event = e /\ op' = [ op EXCEPT ![p] = n ]
    <3>1. AfterCommit(o) = "object"
      BY <1>2, <1>11, <1>13 DEF AfterCommit
    <3> QED BY <1>0, <1>2, <2>10, <3>1 DEF Ops, Commit, Goto
  <2>12. Carries(e, q, Len(q.entries))
    BY <1>5, <2>1, <2>2, <2>6 DEF Carries
  <2>13. InStep(n, q, state)
    BY <1>13, <2>8, <2>11, <2>12 DEF InStep, ControlPoints, WritePoints, MatPoints
  <2>14. \A r \in Procs : op'[r] = n
    BY <1>0, <2>11 DEF OneProcess
  <2> QED BY <1>3, <2>6, <2>7, <2>8, <2>9, <2>13, <2>14 DEF Tracking
<1> QED BY <1>11, <1>12, <1>13

LEMMA NextTracking ==
  ASSUME IInv, IInv', OneProcess, OnlyRuns, History, Solo, Tracking, [Next]_vars
  PROVE  Tracking'
<1>1. ASSUME NEW p \in Procs, Invoke(p) \/ Work(p) \/ Crash(p) PROVE Tracking'
  BY <1>1, TrackingStart, TrackingPlanning, TrackingWriteEvidence, TrackingMaterialize,
     TrackingPublish, TrackingCommit DEF Work
<1>2. ~(RequestApproval \/ Advance)
  BY DEF OnlyRuns, RequestApproval, Advance
<1>3. CASE EditTasks \/ UNCHANGED vars
  <2>1. log' = log /\ proj' = proj /\ state' = state /\ op' = op
    BY <1>3 DEF EditTasks, vars, disk
  <2> QED BY <2>1 DEF Tracking
<1> QED BY <1>1, <1>2, <1>3 DEF Next

LEMMA OpeningTracking ==
  ASSUME Init, IInv, OneProcess
  PROVE  Tracking
<1>1. /\ proj.state = "execute-task" /\ proj.iter = 4 /\ proj.active = None
      /\ proj.paused = FALSE /\ proj.pending = NoEvent
      /\ proj.entries = [ n \in 1 .. 4 |->
           [ seq |-> n, iter |-> n, task |-> None, outcome |-> "replanned",
             state |-> OpeningStates[n] ] ]
  BY DEF Init, OpeningProjection, EmptyProjection
<1>2. /\ state.state = "execute-task" /\ state.iter = 4 /\ state.active = None
      /\ state.terminal = None /\ state.paused = FALSE /\ state.pending = NoEvent
  BY DEF Init, NoDoc
<1>3. DOMAIN proj.entries = 1 .. 4 /\ proj.entries[4].iter = 4 /\ proj.entries[4].task = None
  BY <1>1
<1>4. Len(proj.entries) = 4
  <2>1. PICK l : l = Len(proj.entries)
    OBVIOUS
  <2>2. l \in Nat /\ 1 .. l = 1 .. 4
    BY <1>3, <2>1, EntriesTyped
  <2>3. l = 4
    BY <2>2
  <2> QED BY <2>1, <2>3
<1>5. OpenRun(proj) /\ Shows(state, proj, 4)
  BY <1>1, <1>2, <1>3, <1>4 DEF OpenRun, Shows
<1>6. BoundEvidencePresent /\ files = {}
  <2>1. PICK p \in Procs : op[p].pc = "idle"
    BY DEF OneProcess, Init, Idle
  <2>2. Agreed
    BY <2>1, OpeningQuiet DEF Quiet, QuietOp, SettledPoints
  <2> QED BY <2>2 DEF Agreed, Init
<1>7. ASSUME NEW k \in DOMAIN log, log[k].bound PROVE FALSE
  <2>1. {"object", "record", "bundle"} \X {log[k].iter} \subseteq files
    BY <1>6, <1>7, Zenon DEF BoundEvidencePresent
  <2>2. << "object", log[k].iter >> \in files
    BY <2>1
  <2> QED BY <1>6, <2>2
<1> QED BY <1>5, <1>7, IdleInStep DEF Init, Tracking

LEMMA ReportsTracking ==
  ASSUME Tasks # {}, OneProcess, OnlyRuns PROVE Spec => []Tracking
<1>1. Init /\ IInv => Tracking
  BY OpeningTracking
<1>2. IInv /\ IInv' /\ History /\ Solo /\ Tracking /\ [Next]_vars => Tracking'
  BY NextTracking
<1> QED BY <1>1, <1>2, LoopRunIInv, LoopRunHistory, LoopRunSolo, PTL DEF Spec

\* An artifact that an event has bound is missing, and nobody is about to write it.
Doomed(n) ==
  \E k \in 1 .. n :
    /\ log[k].bound
    /\ ~({"object", "record", "bundle"} \X {log[k].iter} \subseteq files)
    /\ \A p \in Procs : op[p].pc \in WritePoints => op[p].event.iter # log[k].iter

\* The files and the log agreed at some moment, or will never again.
Clean ==
  rd.pc # "off" /\ rd.found = {} =>
    /\ rd.pc = "status_state" => seen.agreed \/ Doomed(Len(log)) \/ rd.snap = proj
    /\ rd.pc \in { "replay_log", "replay_terminal", "bound_log" } =>
         seen.agreed \/ Doomed(Len(log))
    /\ rd.pc = "bound_files" => seen.agreed \/ Doomed(rd.snap.count)
    /\ rd.pc = "report" => seen.agreed

\* Who appends, who writes evidence, and who begins to.
LEMMA Appenders ==
  ASSUME OnlyRuns, [Next]_vars
  PROVE  (log' = log /\ proj' = proj) \/ \E p \in Procs : Commit(p)
<1>1. ASSUME NEW p \in Procs, Invoke(p) \/ Work(p) \/ Crash(p), ~Commit(p)
      PROVE  log' = log /\ proj' = proj
  BY <1>1, OnlyCommits
<1>2. ~(RequestApproval \/ Advance)
  BY DEF OnlyRuns, RequestApproval, Advance
<1> QED BY <1>1, <1>2 DEF Next, EditTasks, vars

LEMMA Writers ==
  ASSUME IInv, OnlyRuns, [Next]_vars
  PROVE  /\ \/ files' = files
            \/ \E p \in Procs, kind \in WritePoints :
                 op[p].pc = kind /\ files' = files \cup { << kind, op[p].event.iter >> }
         /\ \A p \in Procs : op'[p].pc \in WritePoints =>
              /\ op'[p].event = op[p].event
              /\ op[p].pc \in WritePoints \/ Commit(p)
<1>1. DOMAIN op = Procs /\ \A p \in Procs : op[p] \in Ops
  BY DEF IInv, OpsInv, OpInv
<1>2. ~(RequestApproval \/ Advance) /\ \A p \in Procs :
        ~(Approve(p) \/ Pause(p) \/ Resume(p) \/ Cancel(p))
  <2>1. \A p, e : /\ ~Prepare(p, "approve", e) /\ ~Prepare(p, "pause", e)
                  /\ ~Prepare(p, "resume", e) /\ ~Prepare(p, "cancel", e)
    BY DEF OnlyRuns, Prepare
  <2>2. ~(RequestApproval \/ Advance)
    BY DEF OnlyRuns, RequestApproval, Advance
  <2> QED BY <2>1, <2>2 DEF Approve, Pause, Resume, Cancel
<1>3. CASE EditTasks \/ UNCHANGED vars
  <2>1. files' = files /\ op' = op
    BY <1>3 DEF EditTasks, vars, disk
  <2> QED BY <2>1
<1>4. ASSUME NEW q \in Procs, NEW n, op' = [ op EXCEPT ![q] = n ],
             n.pc \in WritePoints =>
               n.event = op[q].event /\ (op[q].pc \in WritePoints \/ Commit(q))
      PROVE  \A p \in Procs : op'[p].pc \in WritePoints =>
              /\ op'[p].event = op[p].event
              /\ op[p].pc \in WritePoints \/ Commit(p)
  <2> SUFFICES ASSUME NEW p \in Procs, op'[p].pc \in WritePoints
               PROVE  op'[p].event = op[p].event /\ (op[p].pc \in WritePoints \/ Commit(p))
    OBVIOUS
  <2>1. CASE p = q
    BY <1>1, <1>4, <2>1
  <2>2. CASE p # q
    <3>1. op'[p] = op[p]
      BY <1>1, <1>4, <2>2
    <3> QED BY <3>1
  <2> QED BY <2>1, <2>2
<1>5. ASSUME NEW p \in Procs, WriteEvidence(p)
      PROVE  /\ \E kind \in WritePoints :
                  op[p].pc = kind /\ files' = files \cup { << kind, op[p].event.iter >> }
             /\ \E n : /\ op' = [ op EXCEPT ![p] = n ] /\ n.event = op[p].event
                       /\ op[p].pc \in WritePoints
  <2>1. PICK kind, then : kind \in WritePoints /\ WriteArtifact(p, kind, then)
    BY <1>5 DEF WriteEvidence, WritePoints
  <2>2. PICK n : n = [ op[p] EXCEPT !.pc = then,
                       !.entry = IF then = "mat_read" THEN Entry(op[p].event) ELSE @ ]
    OBVIOUS
  <2>3. op' = [ op EXCEPT ![p] = n ] /\ n.event = op[p].event /\ op[p].pc = kind
    BY <1>1, <2>1, <2>2 DEF WriteArtifact, At, Ops
  <2> QED BY <2>1, <2>3 DEF WriteArtifact
<1>6. ASSUME NEW p \in Procs, Commit(p)
      PROVE  /\ files' = files
             /\ \E n : op' = [ op EXCEPT ![p] = n ] /\ n.event = op[p].event
  <2>1. PICK n : n = [ op[p] EXCEPT !.pc = AfterCommit(op[p]) ]
    OBVIOUS
  <2>2. op' = [ op EXCEPT ![p] = n ] /\ n.event = op[p].event
    BY <1>1, <1>6, <2>1 DEF Commit, Goto, Ops
  <2> QED BY <1>6, <2>2 DEF Commit, disk
<1>7. ASSUME NEW p \in Procs, Invoke(p) \/ Work(p) \/ Crash(p), ~WriteEvidence(p), ~Commit(p)
      PROVE  /\ files' = files
             /\ \E n : op' = [ op EXCEPT ![p] = n ] /\ n.pc \notin WritePoints
  <2>0. op[p] \in Ops /\ Idle.pc = "idle"
    BY <1>1 DEF Idle
  <2>1. Return(p) => \E n : op' = [ op EXCEPT ![p] = n ] /\ n.pc \notin WritePoints
    BY <2>0 DEF Return, WritePoints
  <2>2. ASSUME NEW pc, pc \notin WritePoints, Goto(p, pc)
        PROVE  \E n : op' = [ op EXCEPT ![p] = n ] /\ n.pc \notin WritePoints
    <3>1. PICK n : n = [ op[p] EXCEPT !.pc = pc ]
      OBVIOUS
    <3>2. op' = [ op EXCEPT ![p] = n ] /\ n.pc = pc
      BY <2>0, <2>2, <3>1 DEF Goto, Ops
    <3> QED BY <2>2, <3>2
  <2>3. CASE RunReady(p) \/ RunTerminal(p)
    <3>1. PICK pc \in { "reconcile", "end_check" } : \E v :
            op' = [ op EXCEPT ![p].pc = pc, ![p].cmd = "run", ![p].snap = proj,
                              ![p].verdict = v ]
      <4>1. CASE RunReady(p)
        <5>1. op' = [ op EXCEPT ![p].pc = "reconcile", ![p].cmd = "run", ![p].snap = proj,
                                ![p].verdict = op[p].verdict ]
          BY <1>1, <2>0, <4>1 DEF RunReady, Ops
        <5> QED BY <5>1
      <4>2. CASE RunTerminal(p)
        BY <4>2 DEF RunTerminal
      <4> QED BY <2>3, <4>1, <4>2
    <3>2. PICK v :
            op' = [ op EXCEPT ![p].pc = pc, ![p].cmd = "run", ![p].snap = proj,
                              ![p].verdict = v ]
      BY <3>1
    <3>3. PICK n : n = [ op[p] EXCEPT !.pc = pc, !.cmd = "run", !.snap = proj, !.verdict = v ]
      OBVIOUS
    <3>4. n.pc = pc /\ op' = [ op EXCEPT ![p] = n ]
      BY <2>0, <3>2, <3>3 DEF Ops
    <3> QED BY <2>3, <3>1, <3>4 DEF RunReady, RunTerminal, disk, WritePoints
  <2>4. CASE Conflict(p) \/ GiveUp(p) \/ Crash(p)
    BY <2>1, <2>4 DEF Conflict, GiveUp, Crash, disk
  <2>5. CASE Verify(p) \/ Conclude(p)
    <3>1. PICK e, v : op' = [ op EXCEPT ![p].pc = "commit", ![p].event = e, ![p].verdict = v ]
      <4>1. CASE Verify(p)
        <5>1. PICK e : op' = [ op EXCEPT ![p].pc = "commit", ![p].event = e ]
          BY <4>1 DEF Verify
        <5>2. op' = [ op EXCEPT ![p].pc = "commit", ![p].event = e,
                                ![p].verdict = op[p].verdict ]
          BY <1>1, <2>0, <5>1 DEF Ops
        <5> QED BY <5>2
      <4>2. CASE Conclude(p)
        <5>1. PICK e, v : op' = [ op EXCEPT ![p].pc = "commit", ![p].verdict = v,
                                            ![p].event = e ]
          BY <4>2 DEF Conclude
        <5>2. op' = [ op EXCEPT ![p].pc = "commit", ![p].event = e, ![p].verdict = v ]
          BY <1>1, <2>0, <5>1 DEF Ops
        <5> QED BY <5>2
      <4> QED BY <2>5, <4>1, <4>2
    <3>2. PICK n : n = [ op[p] EXCEPT !.pc = "commit", !.event = e, !.verdict = v ]
      OBVIOUS
    <3>3. n.pc = "commit" /\ op' = [ op EXCEPT ![p] = n ]
      BY <2>0, <3>1, <3>2 DEF Ops
    <3> QED BY <2>5, <3>3 DEF Verify, Conclude, disk, WritePoints
  <2>6. ASSUME NEW current, ReconcileFrom(p, current)
        PROVE  \E n : op' = [ op EXCEPT ![p] = n ] /\ n.pc \notin WritePoints
    <3>1. PICK pc \in { "select", "mat_read" } : \E d, e :
            op' = [ op EXCEPT ![p].pc = pc, ![p].doc = d, ![p].entry = e ]
      <4>1. CASE \E i \in DOMAIN op[p].snap.entries :
                   op' = [ op EXCEPT ![p].pc = "mat_read",
                                     ![p].entry = op[p].snap.entries[i] ]
        <5>1. PICK i : op' = [ op EXCEPT ![p].pc = "mat_read",
                                     ![p].entry = op[p].snap.entries[i] ]
          BY <4>1
        <5>2. op' = [ op EXCEPT ![p].pc = "mat_read", ![p].doc = op[p].doc,
                                ![p].entry = op[p].snap.entries[i] ]
          BY <1>1, <2>0, <5>1 DEF Ops
        <5> QED BY <5>2
      <4> QED BY <2>6, <4>1 DEF ReconcileFrom
    <3>2. PICK d, e : op' = [ op EXCEPT ![p].pc = pc, ![p].doc = d, ![p].entry = e ]
      BY <3>1
    <3>3. PICK n : n = [ op[p] EXCEPT !.pc = pc, !.doc = d, !.entry = e ]
      OBVIOUS
    <3>4. n.pc = pc /\ op' = [ op EXCEPT ![p] = n ]
      BY <2>0, <3>2, <3>3 DEF Ops
    <3> QED BY <3>1, <3>4 DEF WritePoints
  <2>7. CASE Reconcile(p) \/ MaterializeStamp(p)
    BY <2>1, <2>6, <2>7 DEF Reconcile, MaterializeStamp, disk
  <2>8. ASSUME NEW pc, NEW d, pc \notin WritePoints,
               op' = [ op EXCEPT ![p].pc = pc, ![p].doc = d ]
        PROVE  \E n : op' = [ op EXCEPT ![p] = n ] /\ n.pc \notin WritePoints
    <3>1. PICK n : n = [ op[p] EXCEPT !.pc = pc, !.doc = d ]
      OBVIOUS
    <3>2. op' = [ op EXCEPT ![p] = n ] /\ n.pc = pc
      BY <2>0, <2>8, <3>1 DEF Ops
    <3> QED BY <2>8, <3>2
  <2>9. CASE MaterializeRead(p) \/ DocRead(p) \/ EndRead(p) \/ SyncRead(p)
    <3>1. \/ Return(p)
          \/ op' = [ op EXCEPT ![p].pc = "mat_check", ![p].doc = state ]
          \/ op' = [ op EXCEPT ![p].pc = "doc_stamp", ![p].doc = state ]
          \/ op' = [ op EXCEPT ![p].pc = "end_create", ![p].doc = state ]
          \/ op' = [ op EXCEPT ![p].pc = "sync_stamp", ![p].doc = state ]
      BY <2>9 DEF MaterializeRead, DocRead, EndRead, SyncRead
    <3>2. /\ "mat_check" \notin WritePoints /\ "doc_stamp" \notin WritePoints
          /\ "end_create" \notin WritePoints /\ "sync_stamp" \notin WritePoints
      BY DEF WritePoints
    <3>3. \E n : op' = [ op EXCEPT ![p] = n ] /\ n.pc \notin WritePoints
      <4>1. PICK d : d = state
        OBVIOUS
      <4> QED BY <2>1, <2>8, <3>1, <3>2, <4>1
    <3> QED BY <2>9, <3>3 DEF MaterializeRead, DocRead, EndRead, SyncRead, disk
  <2>10. CASE MaterializeCheck(p) \/ MaterializeBlock(p) \/ EndCheck(p) \/ EndCreate(p)
              \/ EndStamp(p) \/ SyncCheck(p)
    BY <2>1, <2>2, <2>10
       DEF MaterializeCheck, MaterializeBlock, EndCheck, EndCreate, EndStamp, SyncCheck, disk,
           WritePoints
  <2>11. CASE SyncStamp(p) \/ DocStamp(p)
    BY <2>1, <2>11 DEF SyncStamp, DocStamp
  <2>12. CASE Reread(p)
    <3>1. ASSUME op' = [ op EXCEPT ![p].pc = "doc_read", ![p].snap = proj ]
          PROVE  \E n : op' = [ op EXCEPT ![p] = n ] /\ n.pc \notin WritePoints
      <4>1. PICK n : n = [ op[p] EXCEPT !.pc = "doc_read", !.snap = proj ]
        OBVIOUS
      <4>2. op' = [ op EXCEPT ![p] = n ] /\ n.pc = "doc_read"
        BY <2>0, <3>1, <4>1 DEF Ops
      <4> QED BY <4>2 DEF WritePoints
    <3> QED BY <2>1, <2>12, <3>1 DEF Reread, disk
  <2> QED BY <1>2, <1>7, <2>3, <2>4, <2>5, <2>7, <2>9, <2>10, <2>11, <2>12 DEF Work, Invoke
<1>8. ASSUME NEW p \in Procs, Invoke(p) \/ Work(p) \/ Crash(p)
      PROVE  /\ \/ files' = files
                \/ \E q \in Procs, kind \in WritePoints :
                     op[q].pc = kind /\ files' = files \cup { << kind, op[q].event.iter >> }
             /\ \A q \in Procs : op'[q].pc \in WritePoints =>
                  /\ op'[q].event = op[q].event
                  /\ op[q].pc \in WritePoints \/ Commit(q)
  BY <1>4, <1>5, <1>6, <1>7, <1>8
<1> QED BY <1>2, <1>3, <1>8 DEF Next

\* Whoever is about to write the artifacts of an event is about to materialize it:
\* a missing artifact with no writer stays missing.
LEMMA DoomedStays ==
  ASSUME IInv, IInv', History, OnlyRuns, Tracking, [Next]_vars,
         NEW n \in Nat, n <= Len(log), Doomed(n)
  PROVE  Doomed(n)'
<1>1. PICK k \in 1 .. n :
        /\ log[k].bound
        /\ ~({"object", "record", "bundle"} \X {log[k].iter} \subseteq files)
        /\ \A p \in Procs : op[p].pc \in WritePoints => op[p].event.iter # log[k].iter
  BY DEF Doomed
<1>2. k \in DOMAIN log /\ log'[k] = log[k]
  <2>1. log \in Seq(Events) /\ k \in 1 .. Len(log)
    BY DEF IInv, LogInv
  <2>2. CASE \E p \in Procs : Commit(p)
    <3>1. PICK p \in Procs : Commit(p)
      BY <2>2
    <3>2. op[p].event \in Events
      BY <3>1, CommitReads
    <3>3. PICK x : log' = Append(log, x)
      BY <3>1 DEF Commit, AppendEvent
    <3> QED BY <2>1, <3>3
  <2>3. CASE log' = log
    BY <2>1, <2>3
  <2> QED BY <2>2, <2>3, Appenders
<1>3. PICK i : i = log[k].iter
  OBVIOUS
<1>4. ~({"object", "record", "bundle"} \X {i} \subseteq files')
  <2>1. PICK f \in {"object", "record", "bundle"} \X {i} : f \notin files
    BY <1>1, <1>3
  <2>2. f[2] = i
    BY <2>1
  <2>3. CASE files' = files
    BY <2>1, <2>3
  <2>4. CASE \E p \in Procs, kind \in WritePoints :
               op[p].pc = kind /\ files' = files \cup { << kind, op[p].event.iter >> }
    <3>1. PICK p \in Procs, kind \in WritePoints :
            op[p].pc = kind /\ files' = files \cup { << kind, op[p].event.iter >> }
      BY <2>4
    <3>2. op[p].event.iter # i
      BY <1>1, <1>3, <3>1
    <3>3. f # << kind, op[p].event.iter >>
      BY <2>2, <3>2
    <3> QED BY <2>1, <3>1, <3>3
  <2> QED BY <2>3, <2>4, Writers
<1>5. ASSUME NEW p \in Procs, op'[p].pc \in WritePoints PROVE op'[p].event.iter # i
  <2>1. op'[p].event = op[p].event /\ (op[p].pc \in WritePoints \/ Commit(p))
    BY <1>5, Writers
  <2>2. CASE op[p].pc \in WritePoints
    BY <1>1, <1>3, <2>1, <2>2
  <2>3. CASE Commit(p)
    <3>1. /\ op[p].snap = proj /\ op[p].event \in Events /\ Follows(proj, op[p].event)
          /\ AppendEvent(op[p].event)
      BY <2>3, CommitReads DEF Commit, History, OpTrace
    <3>2. proj.terminal = NoTerminal
      BY <3>1, AppendKeepsTrace
    <3>3. log[k].iter <= proj.iter
      BY <1>1, <1>2, <3>2 DEF Tracking
    <3>4. op'[p].pc = AfterCommit(op[p])
      <4>1. DOMAIN op = Procs /\ op[p] \in Ops
        BY DEF IInv, OpsInv, OpInv
      <4> QED BY <2>3, <4>1 DEF Commit, Goto, Ops
    <3>5. op[p].event.type = "iteration_appended"
      BY <1>5, <3>4 DEF AfterCommit, WritePoints
    <3>6. op[p].event.iter > proj.iter
      BY <3>1, <3>5 DEF Follows
    <3>7. op[p].event.iter \in Nat /\ proj.iter \in Nat /\ log[k].iter \in Nat
      <4>1. log[k] \in Events /\ proj \in Projections
        BY <1>2 DEF IInv, LogInv
      <4>2. proj.iter \in Nat
        BY <4>1 DEF Projections
      <4> QED BY <3>1, <4>1, <4>2 DEF Events
    <3> QED BY <1>3, <2>1, <3>3, <3>6, <3>7
  <2> QED BY <2>1, <2>2, <2>3
<1> QED BY <1>1, <1>2, <1>3, <1>4, <1>5 DEF Doomed

LEMMA DoomedGrows ==
  ASSUME NEW n \in Nat, NEW m \in Nat, n <= m, Doomed(n)
  PROVE  Doomed(m)
<1>1. 1 .. n \subseteq 1 .. m
  OBVIOUS
<1> QED BY <1>1 DEF Doomed

\* When state.json agrees with the log, only a lost artifact can be wrong.
LEMMA AgreedNow ==
  ASSUME IInv, History, Marking, ProjectionsNeverAhead, Solo, Tracking, StateJsonAgrees
  PROVE  Consistent \/ Doomed(Len(log))
<1>1. TerminalFileAgrees
  <2>1. CASE proj.terminal = NoTerminal
    BY <2>1 DEF History, TerminalFileAgrees, NoTerminal
  <2>2. CASE proj.terminal # NoTerminal
    <3>1. state.terminal # None
      BY <2>2, RecordedResult DEF StateJsonAgrees
    <3> QED BY <3>1 DEF ProjectionsNeverAhead, History, TerminalFileAgrees
  <2> QED BY <2>1, <2>2
<1>2. SUFFICES ASSUME ~BoundEvidencePresent PROVE Doomed(Len(log))
  BY <1>1 DEF Consistent
<1>3. PICK k \in DOMAIN log :
        log[k].bound /\ ~({"object", "record", "bundle"} \X {log[k].iter} \subseteq files)
  BY <1>2 DEF BoundEvidencePresent
<1>4. k \in 1 .. Len(log)
  BY DEF IInv, LogInv
<1>5. ASSUME NEW p \in Procs PROVE op[p].pc \notin WritePoints
  <2> SUFFICES ASSUME op[p].pc \in WritePoints PROVE FALSE
    OBVIOUS
  <2>1. proj.terminal = NoTerminal
    BY DEF Solo, SoloOp, OpenPoints, RunPoints, WritePoints
  <2>2. OpenRun(proj) /\ Shows(state, proj, Len(proj.entries) - 1)
    BY <2>1 DEF Tracking, InStep
  <2>3. /\ Len(proj.entries) \in DOMAIN proj.entries /\ Len(proj.entries) \in Nat
        /\ Len(proj.entries) - 1 \in DOMAIN proj.entries
    BY <2>2, EntriesTyped DEF OpenRun, Shows
  <2>4. proj.entries[Len(proj.entries) - 1].iter < proj.entries[Len(proj.entries)].iter
    BY <2>3 DEF History, Ordered
  <2>5. state.iter = proj.entries[Len(proj.entries) - 1].iter
        /\ proj.iter = proj.entries[Len(proj.entries)].iter /\ state.iter = proj.iter
    BY <2>2 DEF OpenRun, Shows, StateJsonAgrees
  <2>6. proj.iter \in Nat
    BY DEF IInv, LogInv, Projections
  <2> QED BY <2>4, <2>5, <2>6
<1> QED BY <1>3, <1>4, <1>5 DEF Doomed

\* Just before an append the files agree, or never will.
LEMMA AgreedBeforeAppend ==
  ASSUME IInv, IInv', History, Marking, ProjectionsNeverAhead, Solo, Tracking,
         NEW p \in Procs, Commit(p)
  PROVE  Consistent \/ Doomed(Len(log))
<1>1. /\ op[p].snap = proj /\ op[p].event \in Events /\ Follows(proj, op[p].event)
      /\ AppendEvent(op[p].event) /\ op[p].pc = "commit"
  BY CommitReads DEF Commit, History, OpTrace
<1>2. proj.terminal = NoTerminal
  BY <1>1, AppendKeepsTrace
<1>3. OpenRun(proj) /\ Shows(state, proj, Len(proj.entries))
  BY <1>1, <1>2 DEF Tracking, InStep
<1>4. NoTerminal.verdict.result = None
  BY DEF NoTerminal, NoVerdict
<1>5. StateJsonAgrees
  BY <1>2, <1>3, <1>4 DEF OpenRun, Shows, StateJsonAgrees
<1> QED BY <1>5, AgreedNow

LEMMA AgreedStays ==
  ASSUME Watch, rd'.pc # "off", rd.pc # "off", seen.agreed
  PROVE  seen'.agreed
BY DEF Watch

\* A commanded step under a reader.
LEMMA MovesKeepClean ==
  ASSUME IInv, IInv', History, Marking, ProjectionsNeverAhead, Solo, Tracking, OnlyRuns,
         [Next]_vars, ReaderFields, Watched, Clean, Watch,
         rd' = rd \/ rd' = [ rd EXCEPT !.calm = rd.verb # "simulate" ]
  PROVE  Clean'
<1> SUFFICES ASSUME rd'.pc # "off", rd'.found = {} PROVE Clean'
  BY DEF Clean
<1>1. rd'.pc = rd.pc /\ rd'.snap = rd.snap /\ rd'.found = rd.found
  BY DEF ReaderFields
<1>2. seen.agreed => seen'.agreed
  BY <1>1, AgreedStays
<1>3. /\ Len(log) \in Nat /\ Len(log') \in Nat /\ Len(log) <= Len(log')
      /\ Len(log) = proj.count
  <2>1. proj.count <= proj'.count
    BY Underfoot
  <2> QED BY <2>1 DEF IInv, LogInv
<1>4. Doomed(Len(log)) => Doomed(Len(log))'
  <2> SUFFICES ASSUME Doomed(Len(log)) PROVE Doomed(Len(log))'
    OBVIOUS
  <2>1. PICK n : n = Len(log)
    OBVIOUS
  <2>2. Doomed(n)'
    BY <1>3, <2>1, DoomedStays
  <2>3. 1 .. n \subseteq 1 .. Len(log')
    BY <1>3, <2>1
  <2> QED BY <2>2, <2>3 DEF Doomed
<1>5. rd.pc = "status_state" =>
        seen'.agreed \/ Doomed(Len(log))' \/ rd'.snap = proj'
  <2> SUFFICES ASSUME rd.pc = "status_state", rd.snap = proj, proj' # proj
               PROVE  seen'.agreed \/ Doomed(Len(log))'
    BY <1>1, <1>2, <1>4 DEF Clean
  <2>1. PICK p \in Procs : Commit(p)
    BY Appenders
  <2>2. Consistent \/ Doomed(Len(log))
    BY <2>1, AgreedBeforeAppend
  <2> QED BY <1>2, <1>4, <2>2 DEF Watched
<1>6. rd.pc \in { "replay_log", "replay_terminal", "bound_log" } =>
        seen'.agreed \/ Doomed(Len(log))'
  BY <1>1, <1>2, <1>4 DEF Clean
<1>7. rd.pc = "bound_files" => seen'.agreed \/ Doomed(rd.snap.count)'
  <2> SUFFICES ASSUME rd.pc = "bound_files", Doomed(rd.snap.count)
               PROVE  Doomed(rd.snap.count)'
    BY <1>1, <1>2 DEF Clean
  <2>1. PICK n : n = rd.snap.count
    OBVIOUS
  <2>2. n \in Nat /\ n <= Len(log)
    BY <1>3, <2>1 DEF Watched
  <2>3. Doomed(n)'
    BY <2>1, <2>2, DoomedStays
  <2> QED BY <1>1, <2>1, <2>3 DEF Doomed
<1>8. rd.pc = "report" => seen'.agreed
  BY <1>1, <1>2 DEF Clean
<1> QED BY <1>1, <1>5, <1>6, <1>7, <1>8 DEF Clean

\* A reader's step, with the workspace as it was.
LEMMA DoomStands ==
  ASSUME UNCHANGED vars, NEW n, Doomed(n)
  PROVE  Doomed(n)'
BY DEF Doomed, vars

\* The steps of doctor.
LEMMA DoctorKeepsClean ==
  ASSUME IInv, History, Marking, ProjectionsNeverAhead, Solo, Tracking, ReaderFields,
         Watched, Clean, Doctor
  PROVE  Clean'
<1>1. UNCHANGED vars /\ Watch /\ rd.pc # "off"
  BY DEF Doctor, ContractState, ContractTerminal, ContractRecords, ContractBar, ReadLog,
     StatusState, ReplayTerminal, BoundFiles, Reading
<1> SUFFICES ASSUME rd'.pc # "off", rd'.found = {} PROVE Clean'
  BY DEF Clean
<1>2. /\ seen.agreed => seen'.agreed
      /\ Consistent => seen.agreed
      /\ proj.legal /\ Len(log) = proj.count /\ proj' = proj /\ log' = log
  BY <1>1, AgreedStays DEF Watched, IInv, LogInv, vars
<1>3. Doomed(Len(log)) => Doomed(Len(log))'
  <2>1. PICK n : n = Len(log)
    OBVIOUS
  <2> QED BY <1>1, <1>2, <2>1, DoomStands
<1>4. CASE ContractState \/ ContractTerminal \/ ContractRecords \/ ContractBar
  <2>1. rd'.pc \in { "terminal", "records", "bar", "status_log" }
    BY <1>4 DEF ContractState, ContractTerminal, ContractRecords, ContractBar, Found,
       ReaderFields
  <2> QED BY <2>1 DEF Clean
<1>5. ASSUME NEW at, NEW then, ReadLog(at, then)
      PROVE  rd.pc = at /\ rd'.pc = then /\ rd'.snap = proj /\ rd.found = {}
  BY <1>2, <1>5 DEF ReadLog, Reading, ReaderFields
<1>6. CASE ReadLog("status_log", "status_state")
  <2>1. rd'.pc = "status_state" /\ rd'.snap = proj
    BY <1>5, <1>6
  <2> QED BY <1>2, <2>1 DEF Clean
<1>7. CASE ReadLog("replay_log", "replay_terminal")
  <2>1. rd.pc = "replay_log" /\ rd'.pc = "replay_terminal" /\ rd.found = {}
    BY <1>5, <1>7
  <2> QED BY <1>2, <1>3, <2>1 DEF Clean
<1>8. CASE ReadLog("bound_log", "bound_files")
  <2>1. rd.pc = "bound_log" /\ rd'.pc = "bound_files" /\ rd'.snap = proj /\ rd.found = {}
    BY <1>5, <1>8
  <2>2. seen'.agreed \/ Doomed(Len(log))'
    BY <1>2, <1>3, <2>1 DEF Clean
  <2>3. rd'.snap.count = Len(log')
    BY <1>2, <2>1
  <2>4. Doomed(Len(log))' => Doomed(rd.snap.count)'
    BY <2>3 DEF Doomed
  <2> QED BY <2>1, <2>2, <2>4 DEF Clean
<1>9. CASE StatusState
  <2>1. /\ rd.pc = "status_state" /\ rd'.pc = "replay_log" /\ rd.found = {}
        /\ StateDivergence(rd.snap, state) = {}
    BY <1>9 DEF StatusState, Reading, Found, ReaderFields
  <2>2. seen'.agreed \/ Doomed(Len(log))'
    <3>1. CASE rd.snap = proj
      <4>1. \A x : x \notin StateDivergence(proj, state)
        BY <2>1, <3>1
      <4>2. StateJsonAgrees
        BY <4>1, DivergenceFields DEF StateJsonAgrees
      <4>3. Consistent \/ Doomed(Len(log))
        BY <4>2, AgreedNow
      <4> QED BY <1>2, <1>3, <4>3
    <3>2. CASE rd.snap # proj
      BY <1>2, <1>3, <2>1, <3>2 DEF Clean
    <3> QED BY <3>1, <3>2
  <2> QED BY <2>1, <2>2 DEF Clean
<1>10. CASE ReplayTerminal
  <2>1. rd.pc = "replay_terminal" /\ rd'.pc = "bound_log" /\ rd.found = {}
    BY <1>10 DEF ReplayTerminal, Reading, Found, ReaderFields
  <2> QED BY <1>2, <1>3, <2>1 DEF Clean
<1>11. CASE BoundFiles
  <2>1. /\ rd.pc = "bound_files" /\ rd'.pc = "report" /\ rd.found = {}
        /\ MissingBound(rd.snap.count) = {}
    BY <1>11 DEF BoundFiles, Reading, Found, ReaderFields
  <2>2. ~Doomed(rd.snap.count)
    <3> SUFFICES ASSUME Doomed(rd.snap.count) PROVE FALSE
      OBVIOUS
    <3>1. PICK k \in 1 .. rd.snap.count :
            log[k].bound /\ ~({"object", "record", "bundle"} \X {log[k].iter} \subseteq files)
      BY DEF Doomed
    <3>2. PICK f \in {"object", "record", "bundle"} \X {log[k].iter} : f \notin files
      BY <3>1
    <3> DEFINE its == { log[j].iter : j \in { i \in 1 .. rd.snap.count : log[i].bound } }
    <3>3. log[k].iter \in its
      BY <3>1
    <3>4. f \in ({"object", "record", "bundle"} \X its) \ files
      <4> HIDE DEF its
      <4> QED BY <3>2, <3>3
    <3>5. Finding("missing_bound_evidence", f[1], f[2]) \in MissingBound(rd.snap.count)
      BY <3>4, Zenon DEF MissingBound
    <3> QED BY <2>1, <3>5
  <2> QED BY <1>2, <2>1, <2>2 DEF Clean
<1> QED BY <1>4, <1>6, <1>7, <1>8, <1>9, <1>10, <1>11 DEF Doctor

\* The other steps of a reader, which are not on the way to a report.
LEMMA OthersKeepClean ==
  ASSUME ReaderFields,
         StartDoctor \/ CloseReport \/ StartStop \/ StopActive \/ Stop \/ StopFails
           \/ StartSimulate \/ Simulate
  PROVE  Clean'
<1>0. Off.pc = "off"
  BY DEF Off
<1>1. CASE StartDoctor \/ StartStop \/ StartSimulate
  <2>1. rd'.pc \in { "state", "claim_file", "sim_state" }
    BY <1>1 DEF StartDoctor, StartStop, StartSimulate, Off
  <2> QED BY <2>1 DEF Clean
<1>2. CASE CloseReport \/ StopActive \/ StopFails
  <2>1. rd'.pc = "off"
    BY <1>0, <1>2 DEF CloseReport, StopActive, StopFails, StopAllowed
  <2> QED BY <2>1 DEF Clean
<1>3. CASE Stop
  <2>1. rd'.pc \in { "off", "state", "claim_state" }
    <3>1. CASE ClaimFile
      BY <3>1 DEF ClaimFile, Found, ReaderFields
    <3>2. CASE ClaimState
      BY <1>0, <3>2 DEF ClaimState, StopAllowed, Found, ReaderFields
    <3>3. CASE StopDecide
      BY <1>0, <3>3 DEF StopDecide, StopAllowed
    <3> QED BY <1>3, <3>1, <3>2, <3>3 DEF Stop
  <2> QED BY <2>1 DEF Clean
<1>4. CASE Simulate
  <2>1. rd'.pc \in { "off", "sim_terminal", "predict", "sync" }
    <3>1. CASE SimulateState \/ SimulateTerminal
      BY <3>1 DEF SimulateState, SimulateTerminal, Found, ReaderFields
    <3>2. CASE Predict
      BY <3>2 DEF Predict, ReaderFields
    <3>3. CASE PredictSync
      BY <1>0, <3>3 DEF PredictSync
    <3> QED BY <1>4, <3>1, <3>2, <3>3 DEF Simulate
  <2> QED BY <2>1 DEF Clean
<1> QED BY <1>1, <1>2, <1>3, <1>4

LEMMA NextKeepsClean ==
  ASSUME IInv, IInv', History, Marking, ProjectionsNeverAhead, Solo, Tracking, OnlyRuns,
         ReaderFields, Watched, Clean, [ReportsNext]_allVars
  PROVE  Clean'
<1>1. CASE Moves
  <2>1. [Next]_vars
    BY ReadersMoveNothing
  <2>2. Watch /\ (rd' = rd \/ rd' = [ rd EXCEPT !.calm = rd.verb # "simulate" ])
    BY <1>1 DEF Moves
  <2> QED BY <2>1, <2>2, MovesKeepClean
<1>2. CASE UNCHANGED allVars
  <2>1. /\ rd' = rd /\ seen' = seen /\ log' = log /\ proj' = proj /\ files' = files
        /\ op' = op
    BY <1>2 DEF allVars, vars, readers
  <2>2. \A n : Doomed(n)' = Doomed(n)
    BY <2>1 DEF Doomed
  <2> QED BY <2>1, <2>2 DEF Clean, Doomed
<1> QED BY <1>1, <1>2, DoctorKeepsClean, OthersKeepClean DEF ReportsNext

LEMMA ReportsClean ==
  ASSUME Tasks # {}, OneProcess, OnlyRuns PROVE ReportsSpec => []Clean
<1>1. ReportsInit => Clean
  BY OffFields DEF ReportsInit, Clean
<1>2. IInv /\ IInv' /\ History /\ Marking /\ ProjectionsNeverAhead /\ Solo /\ Tracking
        /\ Foretold /\ Watched /\ Clean /\ [ReportsNext]_allVars => Clean'
  BY NextKeepsClean DEF Foretold
<1> QED BY <1>1, <1>2, ReportsIsLoopRun, LoopRunIInv, LoopRunHistory, LoopRunMarking,
       LoopRunNeverAhead, LoopRunSolo, ReportsTracking, ReportsForetold, ReportsWatched, PTL
       DEF ReportsSpec

\* Beside one process whose only command is `loop run`, killed at any step, what
\* doctor finds was so at some moment while it read, and when it finds nothing
\* there was a moment when the files said what the log says.
THEOREM ReportsTruth ==
  ASSUME Tasks # {}, OneProcess, OnlyRuns PROVE ReportsSpec => []ReportsTruthful
<1>1. Watched /\ Clean => ReportsTruthful
  BY DEF Watched, Clean, ReportsTruthful
<1> QED BY <1>1, ReportsWatched, ReportsClean, PTL
=============================================================================
