---------------------------- MODULE LoopRunProofs ---------------------------
(***************************************************************************)
(* The safety of the commands of LoopRun, for any number of processes, any *)
(* TASKS.json with at least one task, logs of any length and any number of *)
(* crashes.                                                                *)
(*                                                                         *)
(* That the log folds is not inductive by itself.  A command checks the    *)
(* projection it read and appends later; what makes the append safe is     *)
(* that a projection read earlier is either still the current one or has   *)
(* a smaller count (Current), that the prepared event is acceptable to the *)
(* projection it was prepared from (Storable), and that the compare-and-   *)
(* swap only succeeds when the counts agree.  IInv adds what Storable      *)
(* needs: dispatches run from execute-task with no terminal, and records   *)
(* on disk carry an iteration id above 0, which separates a record from    *)
(* the RUNLOG citation.                                                    *)
(*                                                                         *)
(* Three more invariants rest on IInv.  History relates the log to the     *)
(* projection it folds to, and a prepared event to the log it was prepared *)
(* from.  Planned adds that passes follow depends_on, while nobody edits   *)
(* TASKS.json.  Backing adds that a verified success has its records on    *)
(* disk.                                                                   *)
(***************************************************************************)
EXTENDS ReducerProofs, LoopRun

\* A projection read from the log before now.
Current(s, pr) ==
  /\ s.legal
  /\ s.count <= pr.count
  /\ s.count = pr.count => s = pr

\* The reducer accepts e next.
Storable(s, e) == ~Refused(s, [ e EXCEPT !.seq = s.count ])

\* Between reading a run to dispatch from and preparing an event.
Dispatching(o) ==
  \/ o.pc \in {"reconcile", "select"}
  \/ /\ o.pc \in {"mat_read", "mat_check", "mat_block", "mat_stamp"}
     /\ o.event.type # "iteration_appended"

OpInv(o, pr) ==
  /\ o \in Ops
  /\ o.pc # "idle" => Current(o.snap, pr)
  /\ Dispatching(o) =>
       o.snap.state = "execute-task" /\ o.snap.terminal = NoTerminal
  /\ o.pc = "commit" => Storable(o.snap, o.event)
  /\ o.event.type = "iteration_appended" => o.event.iter >= 1
  /\ o.pc \in {"object", "record", "bundle"} =>
       o.event.type = "iteration_appended"

DiskTyped ==
  /\ status \in Declarations
  /\ state \in StateDocs
  /\ terminal \in Verdicts
  /\ runlog \in Seq(Nat)
  /\ files \subseteq Artifacts
  /\ \A f \in files : f[2] >= 1
  /\ crashes \in 0 .. MaxCrashes

LogInv ==
  /\ log \in Seq(Events)
  /\ proj \in Projections
  /\ Len(log) = proj.count
  /\ proj.legal
  /\ proj.state # None

OpsInv == op = [ p \in Procs |-> op[p] ] /\ \A p \in Procs : OpInv(op[p], proj)

IInv == DiskTyped /\ LogInv /\ OpsInv

-----------------------------------------------------------------------------
(* The reducer's refusals, for the events the commands prepare.            *)

LEMMA StatesAreNotNone ==
  /\ None \notin AllStates
  /\ TerminalMarker \in AllStates /\ ApprovalWait \in AllStates
  /\ "execute-task" \in AllStates
  /\ \A s \in AllStates : LegalTargets(s) \subseteq AllStates
BY DEF None, AllStates, NonTerminalStates, TerminalMarker, ApprovalWait,
       LegalTargets

\* Any state but the missing one can end.
LEMMA CanEnd ==
  ASSUME NEW s \in AllStates
  PROVE  IsLegalTransition(s, TerminalMarker)
BY DEF IsLegalTransition, LegalTargets, AllStates

\* An accepted event is counted, and a run that has a state keeps one.
LEMMA StoreKeepsRunning ==
  ASSUME NEW p \in Projections, NEW e \in Events,
         p.legal, p.state # None, ~Refused(p, e)
  PROVE  /\ ReduceOne(p, e).legal
         /\ ReduceOne(p, e).state # None
         /\ ReduceOne(p, e).count = p.count + 1
<1> DEFINE q == ReduceOne(p, e)
<1>1. q = [ Apply(p, e) EXCEPT !.count = p.count + 1 ]
  BY DEF ReduceOne
<1>2. q \in Projections
  BY ReduceOneTyped
<1>3. CASE e.type = "contract_opened"
  <2>1. q.state = "intake" /\ q.legal = p.legal /\ q.count = p.count + 1
    BY <1>1, <1>3 DEF Apply, Projections
  <2> QED BY <2>1 DEF None
<1>4. CASE e.type = "iteration_appended"
  BY <1>1, <1>4 DEF Apply, WithIteration, Projections
<1>5. CASE e.type = "terminal_written"
  <2>1. /\ q.state = TerminalMarker /\ q.legal = p.legal
        /\ q.count = p.count + 1
    BY <1>1, <1>5 DEF Apply, WithTerminal, Projections
  <2> QED BY <2>1, StatesAreNotNone
<1>6. CASE e.type = "approval_requested"
  <2>1. q.state = ApprovalWait /\ q.legal = p.legal /\ q.count = p.count + 1
    BY <1>1, <1>6 DEF Apply, WithRequest, Projections
  <2> QED BY <2>1, StatesAreNotNone
<1>7. CASE e.type = "approval_resolved"
  <2>1. /\ q.state = IF e.decision = "approved" THEN e.target ELSE p.state
        /\ q.legal = p.legal /\ q.count = p.count + 1
    BY <1>1, <1>7 DEF Apply, WithResolution, Projections
  <2>2. e.decision = "approved" => e.target \in LegalTargets(ApprovalWait)
    BY <1>7 DEF Refused, ResolutionRefused, ResumeTargets
  <2> QED BY <2>1, <2>2, StatesAreNotNone
<1>8. CASE e.type \in {"receipt_appended", "terminal_superseded",
                       "run_paused", "run_resumed"}
  BY ZenonT(40), <1>1, <1>8 DEF Apply, WithSupersession, Projections
<1> QED
  BY <1>3, <1>4, <1>5, <1>6, <1>7, <1>8 DEF Events, EventTypes

\* An acceptable event appended to the log leaves a log that folds, and
\* every projection read before it is still Current.
LEMMA AppendKeepsLog ==
  ASSUME LogInv, NEW e \in Events, Storable(proj, e), AppendEvent(e)
  PROVE  /\ LogInv'
         /\ \A s \in Projections : Current(s, proj) => Current(s, proj')
<1> DEFINE stored == [ e EXCEPT !.seq = Len(log) ]
<1>1. Len(log) \in Nat /\ proj.count \in Nat
  BY DEF LogInv, Projections
<1>2. stored \in Events
  BY <1>1 DEF Events
<1>3. log' = Append(log, stored) /\ proj' = ReduceOne(proj, stored)
  BY DEF AppendEvent
<1>4. ~Refused(proj, stored)
  BY DEF Storable, LogInv
<1>5. proj' \in Projections
  BY <1>2, <1>3, ReduceOneTyped DEF LogInv
<1>6. proj'.legal /\ proj'.state # None /\ proj'.count = proj.count + 1
  BY <1>2, <1>3, <1>4, StoreKeepsRunning DEF LogInv
<1>7. log' \in Seq(Events) /\ Len(log') = Len(log) + 1
  BY <1>2, <1>3 DEF LogInv
<1>8. LogInv'
  BY <1>5, <1>6, <1>7 DEF LogInv
<1>9. ASSUME NEW s \in Projections, Current(s, proj)
      PROVE  Current(s, proj')
  <2>1. s.count \in Nat
    BY DEF Projections
  <2> QED BY <1>1, <1>6, <1>9, <2>1 DEF Current
<1> QED BY <1>8, <1>9

-----------------------------------------------------------------------------
(* What the commands do to the record of one process.                      *)

LEMMA IdleInv == \A pr \in Projections : OpInv(Idle, pr)
<1>1. NoEventYet \in Events /\ NoEventYet.type = "receipt_appended"
  BY EventTyped DEF NoEventYet, EventTypes
<1>2. NoDoc \in StateDocs
  BY DEF NoDoc, StateDocs
<1>3. Idle \in Ops
  BY <1>1, <1>2, EntryTyped, EmptyProjectionTyped, NoVerdictTyped
     DEF Idle, Ops, ProgramPoints
<1>4. Idle.pc = "idle" /\ Idle.event = NoEventYet
  BY DEF Idle
<1> QED BY <1>1, <1>3, <1>4 DEF OpInv, Dispatching

\* One process moves and the log stays: the others are not disturbed.
LEMMA LocalStep ==
  ASSUME OpsInv, LogInv, NEW p \in Procs, NEW o, OpInv(o, proj),
         op' = [ op EXCEPT ![p] = o ], proj' = proj
  PROVE  OpsInv'
BY DEF OpsInv

LEMMA ReturnStep ==
  ASSUME OpsInv, LogInv, NEW p \in Procs, Return(p), proj' = proj
  PROVE  OpsInv'
BY IdleInv, LocalStep DEF Return, LogInv

\* A process goes on with the run it read and the event it has.
LEMMA MoveInv ==
  ASSUME NEW pr \in Projections, NEW o, OpInv(o, pr), o.pc # "idle",
         NEW n \in Ops, n.snap = o.snap, n.event = o.event,
         n.pc # "commit", Dispatching(n) => Dispatching(o),
         n.pc \in {"object", "record", "bundle"} =>
           o.event.type = "iteration_appended"
  PROVE  OpInv(n, pr)
BY DEF OpInv

LEMMA GotoStep ==
  ASSUME OpsInv, LogInv, NEW p \in Procs, NEW pc \in ProgramPoints,
         ~At(p, "idle"), Goto(p, pc), proj' = proj, pc # "commit",
         Dispatching([ op[p] EXCEPT !.pc = pc ]) => Dispatching(op[p]),
         pc \in {"object", "record", "bundle"} =>
           op[p].event.type = "iteration_appended"
  PROVE  OpsInv'
<1> DEFINE n == [ op[p] EXCEPT !.pc = pc ]
<1>1. OpInv(op[p], proj) /\ op[p] \in Ops /\ proj \in Projections
  BY DEF OpsInv, OpInv, LogInv
<1>2. /\ n \in Ops /\ n.snap = op[p].snap /\ n.event = op[p].event
      /\ n.pc = pc
  BY <1>1 DEF Ops
<1>3. OpInv(n, proj)
  BY <1>1, <1>2, MoveInv DEF At
<1>4. op' = [ op EXCEPT ![p] = n ]
  BY DEF Goto
<1> QED BY <1>3, <1>4, LocalStep

\* Preparing to append an event that the run as read accepts.
LEMMA PrepareStep ==
  ASSUME IInv, NEW p \in Procs, NEW cmd \in AllCommands, NEW e \in Events,
         Prepare(p, cmd, e), Storable(proj, e),
         e.type # "iteration_appended"
  PROVE  IInv'
<1> DEFINE n == [ op[p] EXCEPT !.pc = "commit", !.cmd = cmd, !.snap = proj,
                               !.event = e, !.verdict = e.verdict ]
<1>1. op[p] \in Ops /\ proj \in Projections /\ e.verdict \in Verdicts
  BY DEF IInv, OpsInv, OpInv, LogInv, Events
<1>2. /\ n \in Ops /\ n.pc = "commit" /\ n.snap = proj /\ n.event = e
  BY <1>1 DEF Ops, ProgramPoints
<1>3. Current(proj, proj)
  BY <1>1 DEF IInv, LogInv, Current, Projections
<1>4. OpInv(n, proj)
  BY <1>2, <1>3 DEF OpInv, Dispatching
<1>5. op' = [ op EXCEPT ![p] = n ] /\ proj' = proj
  BY DEF Prepare
<1>6. OpsInv'
  BY <1>4, <1>5, LocalStep DEF IInv
<1> QED BY <1>6 DEF Prepare, IInv, DiskTyped, LogInv, disk

-----------------------------------------------------------------------------
(* One lemma per group of actions.                                         *)

\* The control commands prepare what the run they read accepts.
LEMMA ControlKeepsIInv ==
  ASSUME IInv, NEW p \in Procs,
         Approve(p) \/ Pause(p) \/ Resume(p) \/ Cancel(p)
  PROVE  IInv'
<1>0. /\ proj \in Projections /\ proj.state \in AllStates
      /\ proj.count \in Nat /\ proj.iter \in Nat
      /\ proj.pending \in Nat \cup {NoEvent}
  BY DEF IInv, LogInv, Projections
<1>1. CASE Approve(p)
  <2> DEFINE b == Event("approval_resolved", proj.count)
             e == [ b EXCEPT !.iter = proj.iter, !.cause = proj.pending ]
             Den == [ e EXCEPT !.decision = "denied" ]
             App(t) == [ e EXCEPT !.decision = "approved", !.target = t ]
  <2>1. b \in Events /\ b.type = "approval_resolved"
    BY <1>0, EventTyped DEF EventTypes
  <2>2. e \in Events /\ e.type = "approval_resolved"
        /\ e.cause = proj.pending
    BY <1>0, <2>1 DEF Events
  <2>3. proj.state = ApprovalWait /\ proj.pending # NoEvent
    BY <1>1 DEF Approve
  <2>4. CASE Prepare(p, "approve", Den)
    <3>1. /\ Den \in Events /\ Den.type = "approval_resolved"
          /\ Den.cause = proj.pending /\ Den.decision = "denied"
      BY <2>2 DEF Events
    <3>2. proj.terminal = NoTerminal
      BY <2>4 DEF Prepare
    <3>3. Storable(proj, Den)
      BY <1>0, <2>3, <3>1, <3>2 DEF Storable, Refused, EnvelopeRefused,
         ResolutionRefused, OverlayRefused, Events, IInv, LogInv
    <3> QED BY <2>4, <3>1, <3>3, PrepareStep DEF AllCommands
  <2>5. ASSUME NEW t \in ResumeTargets, Prepare(p, "approve", App(t))
        PROVE  IInv'
    <3>0. t \in AllStates
      BY StatesAreNotNone DEF ResumeTargets
    <3>1. /\ App(t) \in Events /\ App(t).type = "approval_resolved"
          /\ App(t).cause = proj.pending /\ App(t).decision = "approved"
          /\ App(t).target = t
      BY <2>2, <3>0 DEF Events
    <3>2. proj.terminal = NoTerminal
      BY <2>5 DEF Prepare
    <3>3. Storable(proj, App(t))
      BY <1>0, <2>3, <3>1, <3>2 DEF Storable, Refused, EnvelopeRefused,
         ResolutionRefused, OverlayRefused, Events, IInv, LogInv
    <3> QED BY <2>5, <3>1, <3>3, PrepareStep DEF AllCommands
  <2> QED BY <1>1, <2>4, <2>5 DEF Approve
<1>2. CASE Pause(p)
  <2> DEFINE e == [ Event("run_paused", proj.count) EXCEPT
                      !.iter = proj.iter ]
  <2>1. e \in Events /\ e.type = "run_paused"
    BY <1>0, EventTyped DEF EventTypes, Events
  <2>2. Prepare(p, "pause", e) /\ ~proj.paused /\ proj.terminal = NoTerminal
    BY <1>2 DEF Pause, Prepare
  <2>3. Storable(proj, e)
    BY <1>0, <2>1, <2>2 DEF Storable, Refused, EnvelopeRefused,
       OverlayRefused, Events, IInv, LogInv
  <2> QED BY <2>1, <2>2, <2>3, PrepareStep DEF AllCommands
<1>3. CASE Resume(p)
  <2> DEFINE e == [ Event("run_resumed", proj.count) EXCEPT
                      !.iter = proj.iter ]
  <2>1. e \in Events /\ e.type = "run_resumed"
    BY <1>0, EventTyped DEF EventTypes, Events
  <2>2. Prepare(p, "resume", e) /\ proj.paused /\ proj.terminal = NoTerminal
    BY <1>3 DEF Resume, Prepare
  <2>3. Storable(proj, e)
    BY <1>0, <2>1, <2>2 DEF Storable, Refused, EnvelopeRefused,
       OverlayRefused, Events, IInv, LogInv
  <2> QED BY <2>1, <2>2, <2>3, PrepareStep DEF AllCommands
<1>4. CASE Cancel(p)
  <2> DEFINE v == [ NoVerdict EXCEPT !.result = "AbortedByHuman" ]
             e == [ Event("terminal_written", proj.count) EXCEPT
                      !.verdict = v ]
  <2>1. v \in Verdicts /\ v.result = "AbortedByHuman"
    BY DEF NoVerdict, Verdicts, AllRequired, CompletionModes, TerminalStates
  <2>2. Event("terminal_written", proj.count) \in Events
        /\ Event("terminal_written", proj.count).type = "terminal_written"
    BY <1>0, EventTyped DEF EventTypes
  <2>3. e \in Events /\ e.type = "terminal_written" /\ e.verdict = v
    BY <2>1, <2>2 DEF Events
  <2>4. Prepare(p, "cancel", e) /\ proj.terminal = NoTerminal
    BY <1>4 DEF Cancel, Prepare
  <2>5. VerdictAdmissible(v)
    BY <2>1 DEF VerdictAdmissible, TerminalStates
  <2>6. IsLegalTransition(proj.state, TerminalMarker)
    BY <1>0, CanEnd
  <2>7. Storable(proj, e)
    BY <1>0, <2>3, <2>4, <2>5, <2>6 DEF Storable, Refused, EnvelopeRefused,
       TerminalRefused, OverlayRefused, Events, IInv, LogInv
  <2> QED BY <2>3, <2>4, <2>7, PrepareStep DEF AllCommands
<1> QED BY <1>1, <1>2, <1>3, <1>4

\* The orchestrator's appends, and an append by no process in general.
LEMMA OutsideAppendKeepsIInv ==
  ASSUME IInv, NEW e \in Events, Storable(proj, e), AppendEvent(e),
         UNCHANGED << status, disk, op, crashes >>
  PROVE  IInv'
<1>1. LogInv' /\ \A s \in Projections : Current(s, proj) => Current(s, proj')
  BY AppendKeepsLog DEF IInv
<1>2. ASSUME NEW q \in Procs PROVE OpInv(op[q], proj')
  <2>1. OpInv(op[q], proj) /\ op[q].snap \in Projections
    BY DEF IInv, OpsInv, OpInv, Ops
  <2> QED BY <1>1, <2>1 DEF OpInv
<1>3. OpsInv'
  BY <1>2 DEF IInv, OpsInv
<1> QED BY <1>1, <1>3 DEF IInv, DiskTyped, disk

LEMMA OrchestratorKeepsIInv ==
  ASSUME IInv, RequestApproval \/ Advance
  PROVE  IInv'
<1>0. /\ proj \in Projections /\ proj.state \in AllStates
      /\ proj.count \in Nat /\ proj.iter + 1 \in Nat
  BY DEF IInv, LogInv, Projections
<1>1. CASE RequestApproval
  <2> DEFINE e == [ Event("approval_requested", proj.count) EXCEPT
                      !.iter = proj.iter + 1 ]
  <2>1. e \in Events /\ e.type = "approval_requested"
    BY <1>0, EventTyped DEF EventTypes, Events
  <2>2. IsLegalTransition(proj.state, ApprovalWait)
    BY <1>1 DEF RequestApproval, IsLegalTransition
  <2>3. Storable(proj, e)
    BY <1>0, <1>1, <2>1, <2>2 DEF RequestApproval, Storable, Refused,
       EnvelopeRefused, ApprovalRequestRefused, OverlayRefused, Events,
       IInv, LogInv
  <2> QED BY <1>1, <2>1, <2>3, OutsideAppendKeepsIInv DEF RequestApproval
<1>2. CASE Advance
  <2> DEFINE E(t) == [ Event("iteration_appended", proj.count) EXCEPT
               !.iter = proj.iter + 1, !.outcome = "replanned",
               !.target = t ]
  <2>1. PICK t \in LegalTargets(proj.state) \ {TerminalMarker, ApprovalWait} :
          AppendEvent(E(t))
    BY <1>2 DEF Advance
  <2>2. t \in AllStates /\ "replanned" \in Outcomes
    BY <1>0, StatesAreNotNone DEF Outcomes
  <2>3. Event("iteration_appended", proj.count) \in Events
        /\ Event("iteration_appended", proj.count).type = "iteration_appended"
    BY <1>0, EventTyped DEF EventTypes
  <2>4. E(t) \in Events /\ E(t).type = "iteration_appended"
        /\ E(t).target = t
    BY <1>0, <2>2, <2>3 DEF Events
  <2>5. IsLegalTransition(proj.state, t)
    BY <2>1 DEF IsLegalTransition
  <2>6. Storable(proj, E(t))
    BY <1>0, <1>2, <2>2, <2>4, <2>5 DEF Advance, Storable, Refused,
       EnvelopeRefused, IterationRefused, OverlayRefused, Events,
       IInv, LogInv
  <2> QED BY <1>2, <2>1, <2>4, <2>6, OutsideAppendKeepsIInv DEF Advance
<1> QED BY <1>1, <1>2

\* The compare-and-swap: the projection the event was prepared from is the
\* current one, and every other process's is as current as it was.
LEMMA CommitKeepsIInv ==
  ASSUME IInv, NEW p \in Procs, Commit(p)
  PROVE  IInv'
<1> DEFINE o == op[p]
           n == [ o EXCEPT !.pc = AfterCommit(o) ]
<1>1. OpInv(o, proj) /\ o \in Ops /\ o.pc = "commit"
  BY DEF IInv, OpsInv, OpInv, Commit, At
<1>2. Current(o.snap, proj) /\ o.snap = proj
  BY <1>1 DEF OpInv, Current, Commit
<1>3. Storable(proj, o.event) /\ o.event \in Events
  BY <1>1, <1>2 DEF OpInv, Ops
<1>4. AppendEvent(o.event)
  BY DEF Commit
<1>5. LogInv' /\ \A s \in Projections : Current(s, proj) => Current(s, proj')
  BY <1>3, <1>4, AppendKeepsLog DEF IInv
<1>6. AfterCommit(o) \in {"object", "end_check", "end_read", "reread"}
      /\ (AfterCommit(o) = "object" => o.event.type = "iteration_appended")
  BY DEF AfterCommit
<1>7. n \in Ops /\ n.pc = AfterCommit(o) /\ n.snap = o.snap
      /\ n.event = o.event
  BY <1>1, <1>6 DEF Ops, ProgramPoints
<1>8. ~Dispatching(n)
  BY <1>6, <1>7 DEF Dispatching
<1>9. OpInv(n, proj)
  BY <1>1, <1>6, <1>7, <1>8, MoveInv DEF IInv, LogInv
<1>10. ASSUME NEW q \in Procs, NEW r \in Ops, OpInv(r, proj)
       PROVE  OpInv(r, proj')
  BY <1>5, <1>10 DEF OpInv, Ops
<1>11. op' = [ op EXCEPT ![p] = n ]
  BY DEF Commit, Goto
<1>12. ASSUME NEW q \in Procs PROVE OpInv(op'[q], proj')
  <2>1. OpInv(op'[q], proj) /\ op'[q] \in Ops
    BY <1>7, <1>9, <1>11 DEF IInv, OpsInv, OpInv
  <2> QED BY <1>10, <2>1
<1>13. OpsInv'
  BY <1>11, <1>12 DEF IInv, OpsInv
<1> QED BY <1>5, <1>13 DEF IInv, DiskTyped, disk, Commit

\* Ending a command: refused, failed, killed or done.
LEMMA EndingKeepsIInv ==
  ASSUME IInv, NEW p \in Procs, Conflict(p) \/ GiveUp(p) \/ Crash(p)
  PROVE  IInv'
<1>1. OpsInv'
  BY ReturnStep DEF IInv, Conflict, GiveUp, Crash
<1>2. UNCHANGED << status, log, proj, disk >> /\ crashes' \in 0 .. MaxCrashes
  BY LoopRunAssumption
     DEF Conflict, GiveUp, Crash, IInv, DiskTyped
<1> QED BY <1>1, <1>2 DEF IInv, DiskTyped, LogInv, disk

LEMMA RunStartKeepsIInv ==
  ASSUME IInv, NEW p \in Procs, RunReady(p) \/ RunTerminal(p)
  PROVE  IInv'
<1>0. /\ proj \in Projections /\ op[p] \in Ops /\ OpInv(op[p], proj)
      /\ Current(proj, proj)
  BY DEF IInv, LogInv, OpsInv, OpInv, Current, Projections
<1>1. CASE RunReady(p)
  <2> DEFINE n == [ op[p] EXCEPT !.pc = "reconcile", !.cmd = "run",
                                 !.snap = proj ]
  <2>1. n \in Ops /\ n.pc = "reconcile" /\ n.snap = proj
        /\ n.event = op[p].event
    BY <1>0 DEF Ops, ProgramPoints, AllCommands
  <2>2. OpInv(n, proj)
    BY <1>0, <1>1, <2>1 DEF OpInv, RunReady
  <2>3. op' = [ op EXCEPT ![p] = n ] /\ proj' = proj
    BY <1>1 DEF RunReady
  <2>4. OpsInv'
    BY <2>2, <2>3, LocalStep DEF IInv
  <2> QED BY <1>1, <2>4 DEF RunReady, IInv, DiskTyped, LogInv, disk
<1>2. CASE RunTerminal(p)
  <2> DEFINE n == [ op[p] EXCEPT !.pc = "end_check", !.cmd = "run",
                      !.snap = proj, !.verdict = proj.terminal.verdict ]
  <2>0. proj.terminal.verdict \in Verdicts
    BY <1>0 DEF Projections, TerminalRecords
  <2>1. n \in Ops /\ n.pc = "end_check" /\ n.snap = proj
        /\ n.event = op[p].event
    BY <1>0, <2>0 DEF Ops, ProgramPoints, AllCommands
  <2>2. OpInv(n, proj)
    BY <1>0, <2>1 DEF OpInv, Dispatching
  <2>3. op' = [ op EXCEPT ![p] = n ] /\ proj' = proj
    BY <1>2 DEF RunTerminal
  <2>4. OpsInv'
    BY <2>2, <2>3, LocalStep DEF IInv
  <2> QED BY <1>2, <2>4 DEF RunTerminal, IInv, DiskTyped, LogInv, disk
<1> QED BY <1>1, <1>2

\* One turn of the reconciliation loop.
LEMMA ReconcileStep ==
  ASSUME IInv, NEW p \in Procs, NEW current \in Nat, Dispatching(op[p]),
         ReconcileFrom(p, current), proj' = proj
  PROVE  OpsInv'
<1>0. /\ OpInv(op[p], proj) /\ op[p] \in Ops /\ proj \in Projections
      /\ op[p].pc # "idle"
  BY DEF IInv, OpsInv, OpInv, LogInv, Dispatching
<1>1. CASE op' = [ op EXCEPT ![p].pc = "select", ![p].doc = NoDoc,
                             ![p].entry = Entry(NoEventYet) ]
  <2> DEFINE n == [ op[p] EXCEPT !.pc = "select", !.doc = NoDoc,
                                 !.entry = Entry(NoEventYet) ]
  <2>1. NoDoc \in StateDocs /\ Entry(NoEventYet) \in RunlogEntries
    BY EventTyped, EntryTyped DEF NoDoc, StateDocs, NoEventYet, EventTypes
  <2>2. n \in Ops /\ n.pc = "select" /\ n.snap = op[p].snap
        /\ n.event = op[p].event
    BY <1>0, <2>1 DEF Ops, ProgramPoints
  <2>3. OpInv(n, proj)
    BY <1>0, <2>2, MoveInv
  <2> QED BY <1>1, <2>3, LocalStep DEF IInv
<1>2. ASSUME NEW i \in DOMAIN op[p].snap.entries,
             op' = [ op EXCEPT ![p].pc = "mat_read",
                               ![p].entry = op[p].snap.entries[i] ]
      PROVE  OpsInv'
  <2> DEFINE n == [ op[p] EXCEPT !.pc = "mat_read",
                                 !.entry = op[p].snap.entries[i] ]
  <2>0. op[p].snap.entries \in Seq(RunlogEntries)
    BY <1>0 DEF Ops, Projections
  <2>1. op[p].snap.entries[i] \in RunlogEntries
    BY <2>0, <1>2
  <2>2. n \in Ops /\ n.pc = "mat_read" /\ n.snap = op[p].snap
        /\ n.event = op[p].event
    BY <1>0, <2>1 DEF Ops, ProgramPoints
  <2>3. OpInv(n, proj)
    BY <1>0, <2>2, MoveInv
  <2> QED BY <1>2, <2>3, LocalStep DEF IInv
<1> QED BY <1>1, <1>2 DEF ReconcileFrom

LEMMA ReconcileKeepsIInv ==
  ASSUME IInv, NEW p \in Procs, Reconcile(p)
  PROVE  IInv'
<1>1. state.iter \in Nat /\ Dispatching(op[p])
  BY DEF IInv, DiskTyped, StateDocs, Reconcile, At, Dispatching
<1>2. OpsInv'
  BY <1>1, ReconcileStep DEF Reconcile
<1> QED BY <1>2 DEF Reconcile, IInv, DiskTyped, LogInv, disk

\* A dispatch prepares an event that its projection accepts.
LEMMA VerifyKeepsIInv ==
  ASSUME IInv, NEW p \in Procs, Verify(p)
  PROVE  IInv'
<1> DEFINE s == op[p].snap
           E(t, oc) == [ Event("iteration_appended", s.count) EXCEPT
                !.iter = s.iter + 1, !.task = t, !.bound = TRUE,
                !.outcome = oc ]
           n(t, oc) == [ op[p] EXCEPT !.pc = "commit", !.event = E(t, oc) ]
<1>0. /\ OpInv(op[p], proj) /\ op[p] \in Ops /\ proj \in Projections
      /\ op[p].pc = "select" /\ s \in Projections
  BY DEF IInv, OpsInv, OpInv, LogInv, Verify, At, Ops
<1>1. PICK t \in Tasks, oc \in {"task_passed", "task_failed"} :
        op' = [ op EXCEPT ![p].pc = "commit", ![p].event = E(t, oc) ]
  <2>1. PICK t \in Tasks, result \in Results \ {"unlaunchable"} :
          op' = [ op EXCEPT ![p].pc = "commit",
            ![p].event = E(t, IF result = "passed" THEN "task_passed"
                              ELSE "task_failed") ]
    BY DEF Verify
  <2> QED BY <2>1
<1>2. Event("iteration_appended", s.count) \in Events
      /\ Event("iteration_appended", s.count).type = "iteration_appended"
      /\ Event("iteration_appended", s.count).target = None
  BY <1>0, EventTyped DEF EventTypes, Projections, Event
<1>3. s.iter + 1 \in Nat /\ s.iter + 1 >= 1 /\ s.count \in Nat
  <2>1. s.iter \in Nat /\ s.count \in Nat
    BY <1>0 DEF Projections
  <2> QED BY <2>1
<1>4. /\ E(t, oc) \in Events /\ E(t, oc).type = "iteration_appended"
      /\ E(t, oc).target = None /\ E(t, oc).iter = s.iter + 1
  BY <1>2, <1>3 DEF Events, Outcomes
<1>5. s.state = "execute-task" /\ s.terminal = NoTerminal
  BY <1>0 DEF OpInv, Dispatching
<1>6. Storable(s, E(t, oc))
  BY <1>3, <1>4, <1>5 DEF Storable, Refused, EnvelopeRefused,
     IterationRefused, OverlayRefused, Events, None
<1>7. /\ n(t, oc) \in Ops /\ n(t, oc).pc = "commit" /\ n(t, oc).snap = s
      /\ n(t, oc).event = E(t, oc)
  BY <1>0, <1>4 DEF Ops, ProgramPoints
<1>8. OpInv(n(t, oc), proj)
  BY <1>0, <1>3, <1>4, <1>6, <1>7 DEF OpInv, Dispatching
<1>9. op' = [ op EXCEPT ![p] = n(t, oc) ]
  BY <1>1
<1>10. UNCHANGED << status, log, proj, disk, crashes >>
  BY DEF Verify
<1>11. OpsInv'
  <2> HIDE DEF n
  <2> QED BY <1>8, <1>9, <1>10, LocalStep DEF IInv
<1> QED BY <1>10, <1>11 DEF IInv, DiskTyped, LogInv, disk

\* The success a finished run records satisfies the completion gate, because
\* there is a task: with TASKS.json empty nothing would be required or cited.
LEMMA AutoVerdictAdmissible ==
  ASSUME IInv, NEW s \in Projections, Tasks # {}
  PROVE  AutoVerdict(s) \in Verdicts /\ VerdictAdmissible(AutoVerdict(s))
<1> DEFINE cited == UNION { RecordsOf(s, t) : t \in Tasks }
           strict == /\ \A t \in Tasks : RecordsOf(s, t) # {}
                     /\ MeetsStrictBar(cited)
           v == AutoVerdict(s)
<1>1. ASSUME NEW t \in Tasks
      PROVE  RecordsOf(s, t) \subseteq Nat \ {0}
  <2>1. ASSUME NEW i \in DOMAIN s.entries,
               << "record", s.entries[i].iter >> \in files
        PROVE  s.entries[i].iter \in Nat \ {0}
    <3>1. s.entries \in Seq(RunlogEntries)
      BY DEF Projections
    <3>2. s.entries[i] \in RunlogEntries
      BY <3>1
    <3>3. s.entries[i].iter \in Nat
      BY <3>2 DEF RunlogEntries
    <3>4. s.entries[i].iter >= 1
      BY <2>1 DEF IInv, DiskTyped
    <3> QED BY <3>3, <3>4
  <2> QED BY <2>1 DEF RecordsOf
<1>2. cited \subseteq Nat \ {0}
  BY <1>1
<1>3. strict => cited # {}
  OBVIOUS
<1>4. /\ v.result = "Succeeded" /\ v.criteria = "met"
      /\ v.evidence = IF strict THEN cited ELSE {RunlogCitation}
      /\ v.policy = IF strict THEN VerifiedEvidence ELSE AllRequired
      /\ v.falseCompletion = FALSE
  BY DEF AutoVerdict
<1>5. v \in Verdicts
  <2> HIDE DEF cited, strict
  <2>1. v = [ result |-> "Succeeded", criteria |-> "met",
              evidence |-> IF strict THEN cited ELSE {RunlogCitation},
              policy |-> IF strict THEN VerifiedEvidence ELSE AllRequired,
              falseCompletion |-> FALSE ]
    BY DEF AutoVerdict, cited, strict
  <2> QED BY <1>2, <2>1 DEF Verdicts, TerminalStates, CompletionModes,
                            RunlogCitation
<1>6. VerdictAdmissible(v)
  <2> HIDE DEF cited, strict, v
  <2>1. CASE strict
    <3>1. v.evidence = cited /\ v.policy = VerifiedEvidence
      BY <1>4, <2>1
    <3> QED BY <1>2, <1>3, <1>4, <2>1, <3>1 DEF VerdictAdmissible,
          SatisfiesCompletion, CompletionModes, RecordShaped, RunlogCitation,
          TerminalStates
  <2>2. CASE ~strict
    <3>1. v.evidence = {RunlogCitation} /\ v.policy = AllRequired
      BY <1>4, <2>2
    <3> QED BY <1>4, <3>1 DEF VerdictAdmissible, SatisfiesCompletion,
          CompletionModes, TerminalStates, AllRequired, VerifiedEvidence
  <2> QED BY <2>1, <2>2
<1> QED BY <1>5, <1>6

LEMMA ConcludeKeepsIInv ==
  ASSUME IInv, NEW p \in Procs, Conclude(p), Tasks # {}
  PROVE  IInv'
<1> DEFINE s == op[p].snap
           v == AutoVerdict(s)
           e == [ Event("terminal_written", s.count) EXCEPT
                    !.iter = s.iter, !.verdict = v ]
           n == [ op[p] EXCEPT !.pc = "commit", !.verdict = v, !.event = e ]
<1>0. /\ OpInv(op[p], proj) /\ op[p] \in Ops /\ proj \in Projections
      /\ op[p].pc = "select" /\ s \in Projections
  BY DEF IInv, OpsInv, OpInv, LogInv, Conclude, At, Ops
<1>1. v \in Verdicts /\ VerdictAdmissible(v)
  BY <1>0, AutoVerdictAdmissible
<1>2. op' = [ op EXCEPT ![p] = n ]
  BY DEF Conclude
<1> HIDE DEF v
<1>3. s.iter \in Nat /\ s.count \in Nat
  BY <1>0 DEF Projections
<1>4. Event("terminal_written", s.count) \in Events
      /\ Event("terminal_written", s.count).type = "terminal_written"
  BY <1>3, EventTyped DEF EventTypes
<1>5. e \in Events /\ e.type = "terminal_written" /\ e.verdict = v
  BY <1>1, <1>3, <1>4 DEF Events
<1>6. s.state = "execute-task" /\ s.terminal = NoTerminal
  BY <1>0 DEF OpInv, Dispatching
<1>7. IsLegalTransition(s.state, TerminalMarker)
  BY <1>6, CanEnd, StatesAreNotNone
<1>8. Storable(s, e)
  BY <1>1, <1>3, <1>5, <1>6, <1>7 DEF Storable, Refused, EnvelopeRefused,
     TerminalRefused, OverlayRefused, Events, None
<1>9. n \in Ops /\ n.pc = "commit" /\ n.snap = s /\ n.event = e
  BY <1>0, <1>1, <1>5 DEF Ops, ProgramPoints
<1>10. OpInv(n, proj)
  BY <1>0, <1>5, <1>8, <1>9 DEF OpInv, Dispatching
<1>11. UNCHANGED << status, log, proj, disk, crashes >>
  BY DEF Conclude
<1>12. OpsInv'
  <2> HIDE DEF n
  <2> QED BY <1>2, <1>10, <1>11, LocalStep DEF IInv
<1> QED BY <1>11, <1>12 DEF IInv, DiskTyped, LogInv, disk

\* Artifacts are named after the iteration of a dispatch.
LEMMA WriteEvidenceKeepsIInv ==
  ASSUME IInv, NEW p \in Procs, WriteEvidence(p)
  PROVE  IInv'
<1>1. PICK kind \in {"object", "record", "bundle"},
           then \in {"record", "bundle", "mat_read"} :
        WriteArtifact(p, kind, then)
  BY DEF WriteEvidence
<1> DEFINE n == [ op[p] EXCEPT !.pc = then,
      !.entry = IF then = "mat_read" THEN Entry(op[p].event) ELSE @ ]
<1>0. /\ OpInv(op[p], proj) /\ op[p] \in Ops /\ proj \in Projections
      /\ op[p].pc = kind /\ op[p].event \in Events
  BY <1>1 DEF IInv, OpsInv, OpInv, LogInv, WriteArtifact, At, Ops
<1>2. op[p].event.type = "iteration_appended" /\ op[p].event.iter >= 1
      /\ op[p].event.iter \in Nat
  BY <1>0 DEF OpInv, Events
<1>3. n \in Ops /\ n.pc = then /\ n.snap = op[p].snap
      /\ n.event = op[p].event
  <2>1. Entry(op[p].event) \in RunlogEntries
    BY <1>0, EntryTyped
  <2> QED BY <1>0, <2>1 DEF Ops, ProgramPoints
<1>4. OpInv(n, proj)
  BY <1>0, <1>2, <1>3 DEF OpInv, Dispatching
<1>5. op' = [ op EXCEPT ![p] = n ] /\ proj' = proj
  BY <1>1 DEF WriteArtifact
<1>6. OpsInv'
  <2> HIDE DEF n
  <2> QED BY <1>4, <1>5, LocalStep DEF IInv
<1>7. files' = files \cup { << kind, op[p].event.iter >> }
  BY <1>1 DEF WriteArtifact
<1>8. DiskTyped'
  BY <1>1, <1>2, <1>7 DEF WriteArtifact, IInv, DiskTyped, Artifacts
<1> QED BY <1>1, <1>6, <1>8 DEF WriteArtifact, IInv, LogInv

\* emit.append_iteration.
LEMMA MaterializeKeepsIInv ==
  ASSUME IInv, NEW p \in Procs,
         \/ MaterializeRead(p) \/ MaterializeCheck(p)
         \/ MaterializeBlock(p) \/ MaterializeStamp(p)
  PROVE  IInv'
<1>0. /\ OpInv(op[p], proj) /\ op[p] \in Ops /\ proj \in Projections
      /\ state \in StateDocs /\ op[p].entry \in RunlogEntries
      /\ op[p].doc \in StateDocs
  BY DEF IInv, OpsInv, OpInv, LogInv, DiskTyped, Ops
<1>1. CASE MaterializeRead(p)
  <2>1. CASE Return(p)
    <3>1. OpsInv'
      BY <1>1, <2>1, ReturnStep DEF IInv, MaterializeRead
    <3> QED BY <1>1, <3>1 DEF MaterializeRead, IInv, DiskTyped, LogInv, disk
  <2>2. CASE op' = [ op EXCEPT ![p].pc = "mat_check", ![p].doc = state ]
    <3> DEFINE n == [ op[p] EXCEPT !.pc = "mat_check", !.doc = state ]
    <3>1. n \in Ops /\ n.pc = "mat_check" /\ n.snap = op[p].snap
          /\ n.event = op[p].event
      BY <1>0 DEF Ops, ProgramPoints
    <3>2. op[p].pc = "mat_read"
      BY <1>1 DEF MaterializeRead, At
    <3>3. OpInv(n, proj)
      BY <1>0, <3>1, <3>2, MoveInv DEF Dispatching
    <3>4. proj' = proj
      BY <1>1 DEF MaterializeRead
    <3>5. OpsInv'
      BY <2>2, <3>3, <3>4, LocalStep DEF IInv
    <3> QED BY <1>1, <3>5 DEF MaterializeRead, IInv, DiskTyped, LogInv, disk
  <2> QED BY <1>1, <2>1, <2>2 DEF MaterializeRead
<1>2. CASE MaterializeCheck(p)
  <2>1. PICK pc \in {"mat_stamp", "mat_block"} : Goto(p, pc)
    BY <1>2 DEF MaterializeCheck
  <2>2. op[p].pc = "mat_check" /\ proj' = proj
    BY <1>2 DEF MaterializeCheck, At
  <2>3. Dispatching([ op[p] EXCEPT !.pc = pc ]) => Dispatching(op[p])
    BY <1>0, <2>2 DEF Dispatching, Ops
  <2>4. OpsInv'
    BY <2>1, <2>2, <2>3, GotoStep DEF IInv, At, ProgramPoints
  <2> QED BY <1>2, <2>4 DEF MaterializeCheck, IInv, DiskTyped, LogInv, disk
<1>3. CASE MaterializeBlock(p)
  <2>1. op[p].pc = "mat_block" /\ proj' = proj /\ Goto(p, "mat_stamp")
    BY <1>3 DEF MaterializeBlock, At
  <2>2. Dispatching([ op[p] EXCEPT !.pc = "mat_stamp" ]) => Dispatching(op[p])
    BY <1>0, <2>1 DEF Dispatching, Ops
  <2>3. OpsInv'
    BY <2>1, <2>2, GotoStep DEF IInv, At, ProgramPoints
  <2>4. runlog' \in Seq(Nat)
    BY <1>0, <1>3 DEF MaterializeBlock, RunlogEntries, IInv, DiskTyped
  <2> QED BY <1>3, <2>3, <2>4 DEF MaterializeBlock, IInv, DiskTyped, LogInv
<1>4. CASE MaterializeStamp(p)
  <2>1. state' \in StateDocs
    BY ZenonT(40), <1>0, <1>4 DEF MaterializeStamp, StateDocs, RunlogEntries
  <2>2. proj' = proj /\ op[p].pc = "mat_stamp" /\ op[p].entry.iter \in Nat
    BY <1>0, <1>4 DEF MaterializeStamp, At, RunlogEntries
  <2>3. ASSUME Return(p) PROVE OpsInv'
    BY <2>2, <2>3, ReturnStep DEF IInv
  <2>4. ASSUME op[p].event.type # "iteration_appended",
               ReconcileFrom(p, op[p].entry.iter)
        PROVE  OpsInv'
    BY <2>2, <2>4, ReconcileStep DEF Dispatching
  <2>5. OpsInv'
    BY <1>4, <2>3, <2>4 DEF MaterializeStamp
  <2> QED BY <1>4, <2>1, <2>5 DEF MaterializeStamp, IInv, DiskTyped, LogInv
<1> QED BY <1>1, <1>2, <1>3, <1>4

\* A step to a point past every append, with a new state.json at hand.
LEMMA TailStep ==
  ASSUME OpsInv, LogInv, NEW p \in Procs, ~At(p, "idle"), proj' = proj,
         NEW pc \in ProgramPoints \ {"commit", "object", "record", "bundle",
            "reconcile", "select", "mat_read", "mat_check", "mat_block",
            "mat_stamp"},
         NEW d \in StateDocs,
         \/ Goto(p, pc)
         \/ op' = [ op EXCEPT ![p].pc = pc, ![p].doc = d ]
  PROVE  OpsInv'
<1>0. OpInv(op[p], proj) /\ op[p] \in Ops /\ proj \in Projections
  BY DEF OpsInv, OpInv, LogInv
<1>1. CASE Goto(p, pc)
  <2>1. ~Dispatching([ op[p] EXCEPT !.pc = pc ])
    BY <1>0 DEF Dispatching, Ops
  <2> QED BY <1>1, <2>1, GotoStep
<1>2. CASE op' = [ op EXCEPT ![p].pc = pc, ![p].doc = d ]
  <2> DEFINE n == [ op[p] EXCEPT !.pc = pc, !.doc = d ]
  <2>1. n \in Ops /\ n.pc = pc /\ n.snap = op[p].snap
        /\ n.event = op[p].event
    BY <1>0 DEF Ops
  <2>2. OpInv(n, proj)
    BY <1>0, <2>1, MoveInv DEF Dispatching, At
  <2> QED BY ZenonT(40), <1>2, <2>2, LocalStep
<1> QED BY <1>1, <1>2

\* Publishing a terminal: terminal_state.json, then the stamp on state.json.
LEMMA PublishKeepsIInv ==
  ASSUME IInv, NEW p \in Procs,
         \/ EndCheck(p) \/ EndRead(p) \/ EndCreate(p) \/ EndStamp(p)
         \/ SyncCheck(p) \/ SyncRead(p) \/ SyncStamp(p)
  PROVE  IInv'
<1>0. /\ OpsInv /\ LogInv /\ DiskTyped
      /\ op[p] \in Ops /\ state \in StateDocs /\ op[p].doc \in StateDocs
      /\ op[p].verdict \in Verdicts /\ terminal \in Verdicts
  BY DEF IInv, OpsInv, OpInv, DiskTyped, Ops
<1>1. ~At(p, "idle") /\ proj' = proj /\ log' = log
  BY DEF EndCheck, EndRead, EndCreate, EndStamp, SyncCheck, SyncRead,
         SyncStamp, At
<1>2. OpsInv'
  <2>1. ASSUME Return(p) PROVE OpsInv'
    BY <1>0, <1>1, <2>1, ReturnStep
  <2>2. ASSUME NEW pc \in {"end_read", "end_stamp", "sync_check",
                           "sync_read"},
               Goto(p, pc)
        PROVE  OpsInv'
    BY <1>0, <1>1, <2>2, TailStep DEF ProgramPoints
  <2>3. ASSUME NEW pc \in {"end_create", "sync_stamp"},
               op' = [ op EXCEPT ![p].pc = pc, ![p].doc = state ]
        PROVE  OpsInv'
    BY <1>0, <1>1, <2>3, TailStep DEF ProgramPoints
  <2>4. CASE EndCheck(p)
    BY <2>1, <2>2, <2>4 DEF EndCheck
  <2>5. CASE EndRead(p)
    BY <2>1, <2>3, <2>5 DEF EndRead
  <2>6. CASE EndCreate(p)
    BY <2>1, <2>2, <2>6 DEF EndCreate
  <2>7. CASE EndStamp(p)
    BY <2>1, <2>2, <2>7 DEF EndStamp
  <2>8. CASE SyncCheck(p)
    BY <2>1, <2>2, <2>8 DEF SyncCheck
  <2>9. CASE SyncRead(p)
    BY <2>1, <2>3, <2>9 DEF SyncRead
  <2>10. CASE SyncStamp(p)
    BY <2>1, <2>10 DEF SyncStamp
  <2> QED BY <2>4, <2>5, <2>6, <2>7, <2>8, <2>9, <2>10
<1>3. DiskTyped'
  <2>1. /\ op[p].verdict.result \in TerminalStates \cup {None}
        /\ terminal.result \in TerminalStates \cup {None}
    BY <1>0 DEF Verdicts
  <2>2. state' \in StateDocs
    <3>1. ASSUME NEW r \in TerminalStates \cup {None}
          PROVE  [ op[p].doc EXCEPT !.state = TerminalMarker,
                                    !.terminal = r ] \in StateDocs
      BY <1>0, StatesAreNotNone DEF StateDocs
    <3> QED BY <1>0, <2>1, <3>1 DEF EndCheck, EndRead, EndCreate, EndStamp,
              SyncCheck, SyncRead, SyncStamp, disk
  <2>3. terminal' \in Verdicts
    BY <1>0 DEF EndCheck, EndRead, EndCreate, EndStamp, SyncCheck, SyncRead,
              SyncStamp, disk
  <2> QED BY <1>0, <2>2, <2>3 DEF DiskTyped, EndCheck, EndRead, EndCreate,
            EndStamp, SyncCheck, SyncRead, SyncStamp, disk
<1>4. LogInv'
  BY <1>0, <1>1 DEF LogInv
<1> QED BY <1>2, <1>3, <1>4 DEF IInv

\* The state.json a control command leaves.
LEMMA SyncProjectionKeepsIInv ==
  ASSUME IInv, NEW p \in Procs, Reread(p) \/ DocRead(p) \/ DocStamp(p)
  PROVE  IInv'
<1>0. /\ OpsInv /\ LogInv /\ DiskTyped /\ OpInv(op[p], proj)
      /\ op[p] \in Ops /\ state \in StateDocs /\ op[p].doc \in StateDocs
      /\ op[p].snap \in Projections /\ proj \in Projections
  BY DEF IInv, OpsInv, OpInv, LogInv, DiskTyped, Ops
<1>1. CASE Reread(p)
  <2> DEFINE n == [ op[p] EXCEPT !.pc = "doc_read", !.snap = proj ]
  <2>1. ASSUME Return(p) PROVE OpsInv'
    BY <1>0, <1>1, <2>1, ReturnStep DEF Reread
  <2>2. ASSUME op' = [ op EXCEPT ![p].pc = "doc_read", ![p].snap = proj ]
        PROVE  OpsInv'
    <3>1. n \in Ops /\ n.pc = "doc_read" /\ n.snap = proj
          /\ n.event = op[p].event
      BY <1>0 DEF Ops, ProgramPoints
    <3>2. Current(proj, proj)
      BY <1>0 DEF LogInv, Current, Projections
    <3>3. OpInv(n, proj)
      BY <1>0, <3>1, <3>2 DEF OpInv, Dispatching
    <3> QED BY <1>0, <1>1, <2>2, <3>3, LocalStep DEF Reread
  <2>3. OpsInv'
    BY <1>1, <2>1, <2>2 DEF Reread
  <2> QED BY <1>0, <1>1, <2>3 DEF Reread, IInv, DiskTyped, LogInv, disk
<1>2. CASE DocRead(p)
  <2>1. OpsInv'
    BY <1>0, <1>2, TailStep DEF DocRead, At, ProgramPoints
  <2> QED BY <1>0, <1>2, <2>1 DEF DocRead, IInv, DiskTyped, LogInv, disk
<1>3. CASE DocStamp(p)
  <2>1. OpsInv'
    BY <1>0, <1>3, ReturnStep DEF DocStamp
  <2>2. state' \in StateDocs
    BY <1>0, <1>3 DEF DocStamp, StateDocs, Projections
  <2> QED BY <1>0, <1>3, <2>1, <2>2 DEF DocStamp, IInv, DiskTyped, LogInv
<1> QED BY <1>1, <1>2, <1>3

LEMMA EditKeepsIInv ==
  ASSUME IInv, EditTasks
  PROVE  IInv'
BY DEF EditTasks, IInv, DiskTyped, LogInv, OpsInv, disk

LEMMA StutterKeepsIInv ==
  ASSUME IInv, UNCHANGED vars
  PROVE  IInv'
BY DEF vars, IInv, DiskTyped, LogInv, OpsInv

-----------------------------------------------------------------------------
(* The theorems.                                                           *)

LEMMA OpeningKeepsIInv ==
  ASSUME Init
  PROVE  IInv
<1>1. OpeningLog \in Seq(Events) /\ Len(OpeningLog) = 5
  <2> DEFINE it == [ n \in 1 .. 4 |->
               [ Event("iteration_appended", n) EXCEPT
                 !.iter = n, !.outcome = "replanned",
                 !.target = OpeningStates[n] ] ]
  <2>1. ASSUME NEW n \in 1 .. 4 PROVE it[n] \in Events
    <3> DEFINE b == Event("iteration_appended", n)
               o == OpeningStates[n]
    <3>1. b \in Events /\ n \in Nat
      BY <2>1, EventTyped DEF EventTypes
    <3>2. o \in AllStates
      BY <2>1 DEF OpeningStates, AllStates, NonTerminalStates
    <3>3. it[n] = [ b EXCEPT !.iter = n, !.outcome = "replanned",
                             !.target = o ]
      BY <2>1
    <3> HIDE DEF b, o, it
    <3> QED BY <3>1, <3>2, <3>3 DEF Events, Outcomes
  <2>2. it \in Seq(Events) /\ Len(it) = 4
    <3> HIDE DEF it
    <3>1. DOMAIN it = 1 .. 4
      BY DEF it
    <3>2. it = [ n \in 1 .. 4 |-> it[n] ]
      BY DEF it
    <3> QED BY <2>1, <3>1, <3>2
  <2> DEFINE x == Event("contract_opened", 0)
  <2>3. x \in Events
    BY EventTyped DEF EventTypes
  <2> HIDE DEF it, x
  <2>4. \A e \in Events : \A s \in Seq(Events) :
          << e >> \o s \in Seq(Events) /\ Len(<< e >> \o s) = 1 + Len(s)
    OBVIOUS
  <2>5. << x >> \o it \in Seq(Events) /\ Len(<< x >> \o it) = 1 + Len(it)
    BY <2>2, <2>3, <2>4, Zenon
  <2>6. OpeningLog = << x >> \o it
    BY DEF OpeningLog, it, x
  <2>7. Len(OpeningLog) = 5
    BY <2>2, <2>5, <2>6
  <2> QED BY <2>5, <2>6, <2>7
<1>2. /\ OpeningProjection \in Projections
      /\ OpeningProjection.count = 5
      /\ OpeningProjection.legal
      /\ OpeningProjection.state = "execute-task"
  <2> DEFINE en == [ n \in 1 .. 4 |->
        [ seq |-> n, iter |-> n, task |-> None, outcome |-> "replanned",
          state |-> OpeningStates[n] ] ]
  <2>1. ASSUME NEW n \in 1 .. 4 PROVE en[n] \in RunlogEntries
    <3>1. OpeningStates[n] \in AllStates
      BY DEF OpeningStates, AllStates, NonTerminalStates
    <3> QED BY <3>1 DEF RunlogEntries, Outcomes
  <2>2. en \in Seq(RunlogEntries)
    <3> HIDE DEF en
    <3>1. en = [ n \in 1 .. 4 |-> en[n] ]
      BY DEF en
    <3> QED BY <2>1, <3>1
  <2> HIDE DEF en
  <2>3. OpeningProjection = [ EmptyProjection EXCEPT
          !.state = "execute-task", !.iter = 4, !.count = 5, !.entries = en ]
    BY DEF OpeningProjection, en
  <2>4. EmptyProjection \in Projections /\ EmptyProjection.legal
    BY EmptyProjectionTyped DEF EmptyProjection
  <2> QED BY <2>2, <2>3, <2>4, StatesAreNotNone DEF Projections
<1>3. LogInv
  BY <1>1, <1>2 DEF Init, LogInv, None
<1>4. OpsInv
  BY <1>2, IdleInv DEF Init, OpsInv
<1>5. [ NoDoc EXCEPT !.state = "execute-task", !.iter = 4 ] \in StateDocs
  BY StatesAreNotNone DEF NoDoc, StateDocs
<1>6. DiskTyped
  BY <1>5, NoVerdictTyped, LoopRunAssumption DEF Init, DiskTyped, Artifacts
<1> QED BY <1>3, <1>4, <1>6 DEF IInv

LEMMA NextKeepsIInv ==
  ASSUME Tasks # {}, IInv, [Next]_vars
  PROVE  IInv'
<1>1. ASSUME NEW p \in Procs, Work(p) PROVE IInv'
  BY <1>1, CommitKeepsIInv, EndingKeepsIInv, ReconcileKeepsIInv,
     VerifyKeepsIInv, ConcludeKeepsIInv, WriteEvidenceKeepsIInv,
     MaterializeKeepsIInv, PublishKeepsIInv, SyncProjectionKeepsIInv
     DEF Work
<1>2. ASSUME NEW p \in Procs, Invoke(p) PROVE IInv'
  BY <1>2, RunStartKeepsIInv, ControlKeepsIInv DEF Invoke
<1>3. ASSUME NEW p \in Procs, Crash(p) PROVE IInv'
  BY <1>3, EndingKeepsIInv
<1> QED BY <1>1, <1>2, <1>3, OrchestratorKeepsIInv, EditKeepsIInv,
           StutterKeepsIInv DEF Next

\* The inductive invariant holds in every reachable state, with any number of
\* processes, tasks, appends and crashes.
THEOREM LoopRunIInv == ASSUME Tasks # {} PROVE Spec => []IInv
<1>1. Init => IInv
  BY OpeningKeepsIInv
<1>2. IInv /\ [Next]_vars => IInv'
  BY NextKeepsIInv
<1> QED BY <1>1, <1>2, PTL DEF Spec

\* The variables have their types.
THEOREM LoopRunTypeOK == ASSUME Tasks # {} PROVE Spec => []TypeOK
<1>1. IInv => TypeOK
  BY DEF IInv, DiskTyped, LogInv, OpsInv, OpInv, TypeOK
<1> QED BY <1>1, LoopRunIInv, PTL

\* With a task declared, no interleaving of commands and no crash leaves a
\* stream the reducer refuses.
THEOREM LoopRunReplayable ==
  ASSUME Tasks # {} PROVE Spec => []LogStaysReplayable
<1>1. IInv => LogStaysReplayable
  BY DEF IInv, LogInv, LogStaysReplayable
<1> QED BY <1>1, LoopRunIInv, PTL

-----------------------------------------------------------------------------
(* The history a run leaves.  Follows is what a command knows, when it      *)
(* prepares an event, about the log it read; the compare-and-swap makes it   *)
(* true of the log it appends to.                                            *)

PassedAt(s, i) == s.entries[i].outcome = "task_passed"

Follows(s, e) ==
  /\ e.type \notin {"contract_opened", "terminal_superseded"}
  /\ e.type \notin {"terminal_written", "receipt_appended"} => e.iter >= s.iter
  /\ e.type = "iteration_appended" =>
       /\ e.iter > s.iter
       /\ e.outcome = "task_passed" =>
            \A i \in DOMAIN s.entries : PassedAt(s, i) => s.entries[i].task # e.task

Ordered(s) ==
  /\ \A i \in DOMAIN s.entries : s.entries[i].iter <= s.iter
  /\ \A i, j \in DOMAIN s.entries : i < j => s.entries[i].iter < s.entries[j].iter
  /\ \A i, j \in DOMAIN s.entries :
       PassedAt(s, i) /\ PassedAt(s, j) /\ s.entries[i].task = s.entries[j].task => i = j

\* Publishing an end that the log has.
EndPoints == {"end_check", "end_read", "end_create"}

\* Selecting, and materializing a dispatch: only `loop run` does.
RunPoints ==
  { "reconcile", "select", "object", "record", "bundle", "mat_read", "mat_check",
    "mat_block", "mat_stamp" }

OpTrace(o, pr) ==
  /\ o.pc \in RunPoints => o.cmd = "run"
  /\ o.pc = "commit" =>
       /\ Follows(o.snap, o.event)
       /\ o.event.type = "terminal_written" => o.verdict = o.event.verdict
       /\ o.cmd = "cancel" => o.event.type = "terminal_written"
  /\ o.pc \in EndPoints =>
       pr.terminal # NoTerminal /\ o.verdict = pr.terminal.verdict

History ==
  /\ Ordered(proj)
  /\ terminal # NoVerdict =>
       proj.terminal # NoTerminal /\ terminal = proj.terminal.verdict
  /\ \A p \in Procs : OpTrace(op[p], proj)

\* What a prepared event presumes of the run and of TASKS.json.
PlanOf(s, e) ==
  /\ e.type \in {"iteration_appended", "approval_requested"} => e.iter = s.iter + 1
  /\ e.type \in {"approval_resolved", "run_paused", "run_resumed"} => e.iter = s.iter
  /\ e.type = "iteration_appended" /\ e.task = None => e.outcome # "task_passed"
  /\ e.type = "iteration_appended" /\ e.task # None =>
       /\ s.state = "execute-task" /\ e.target = None
       /\ e.task \in Tasks \ DoneTasks(s)
       /\ DependsOn[e.task] \subseteq DoneTasks(s)
  /\ e.type = "terminal_written" /\ e.verdict.result = "Succeeded" =>
       s.state = "execute-task" /\ AllDone(s)

OpPlan(o) == o.pc = "commit" => PlanOf(o.snap, o.event)

Planned ==
  /\ DependenciesRespected
  /\ SuccessCoversTasks
  /\ \A p \in Procs : OpPlan(op[p])

\* What an accepted event of a command makes of the projection.
LEMMA ReduceOneFields ==
  ASSUME NEW s \in Projections, NEW e \in Events, s.legal, ~Refused(s, e),
         e.type \notin {"contract_opened", "terminal_superseded"}
  PROVE  LET q == ReduceOne(s, e) IN
         /\ s.terminal = NoTerminal
         /\ q.iter = IF e.type \in {"receipt_appended", "terminal_written"}
                     THEN s.iter ELSE e.iter
         /\ q.entries = IF e.type = "iteration_appended"
                        THEN Append(s.entries, Entry(e)) ELSE s.entries
         /\ q.terminal = IF e.type = "terminal_written"
                         THEN [ verdict |-> e.verdict, seq |-> e.seq ]
                         ELSE s.terminal
<1> DEFINE q == ReduceOne(s, e)
<1>1. q = [ Apply(s, e) EXCEPT !.count = s.count + 1 ]
  BY DEF ReduceOne
<1>2. s.terminal = NoTerminal
  BY DEF Refused, EnvelopeRefused
<1>3. CASE e.type = "iteration_appended"
  BY <1>1, <1>2, <1>3 DEF Apply, WithIteration, Projections
<1>4. CASE e.type = "terminal_written"
  BY <1>1, <1>2, <1>4 DEF Apply, WithTerminal, Projections
<1>5. CASE e.type = "approval_requested"
  BY <1>1, <1>2, <1>5 DEF Apply, WithRequest, Projections
<1>6. CASE e.type = "approval_resolved"
  BY <1>1, <1>2, <1>6 DEF Apply, WithResolution, Projections
<1>7. CASE e.type \in {"receipt_appended", "run_paused", "run_resumed"}
  BY <1>1, <1>2, <1>7 DEF Apply, Projections
<1> QED BY <1>3, <1>4, <1>5, <1>6, <1>7 DEF Events, EventTypes

LEMMA OrderedStep ==
  ASSUME NEW s \in Projections, NEW e \in Events, s.legal, ~Refused(s, e),
         Follows(s, e), Ordered(s)
  PROVE  Ordered(ReduceOne(s, e))
<1>0. PICK q : q = ReduceOne(s, e)
  OBVIOUS
<1>1. e.type \notin {"contract_opened", "terminal_superseded"}
  BY DEF Follows
<1>2. /\ q.iter = IF e.type \in {"receipt_appended", "terminal_written"}
                  THEN s.iter ELSE e.iter
      /\ q.entries = IF e.type = "iteration_appended"
                     THEN Append(s.entries, Entry(e)) ELSE s.entries
  BY <1>0, <1>1, ReduceOneFields
<1>3. /\ s.iter \in Nat /\ e.iter \in Nat
      /\ s.entries \in Seq(RunlogEntries)
      /\ \A i \in DOMAIN s.entries : s.entries[i].iter \in Nat
  <2>1. s.iter \in Nat /\ e.iter \in Nat /\ s.entries \in Seq(RunlogEntries)
    BY DEF Projections, Events
  <2>2. \A i \in DOMAIN s.entries : s.entries[i] \in RunlogEntries
    BY <2>1
  <2> QED BY <2>1, <2>2 DEF RunlogEntries
<1>4. CASE e.type # "iteration_appended"
  <2>1. q.entries = s.entries /\ q.iter >= s.iter /\ q.iter \in Nat
    BY <1>2, <1>3, <1>4 DEF Follows
  <2> QED BY <1>0, <1>3, <2>1 DEF Ordered, PassedAt
<1>5. CASE e.type = "iteration_appended"
  <2> DEFINE n == Len(s.entries)
  <2>1. /\ e.iter > s.iter
        /\ e.outcome = "task_passed" =>
             \A i \in DOMAIN s.entries : PassedAt(s, i) => s.entries[i].task # e.task
    BY <1>5 DEF Follows
  <2>2. q.entries = Append(s.entries, Entry(e)) /\ q.iter = e.iter
    BY <1>2, <1>5
  <2>3. /\ DOMAIN s.entries = 1 .. n /\ n \in Nat
        /\ DOMAIN q.entries = 1 .. n + 1
        /\ \A i \in 1 .. n : q.entries[i] = s.entries[i]
        /\ q.entries[n + 1] = Entry(e)
    BY <1>3, <2>2
  <2>4. /\ Entry(e).iter = e.iter /\ Entry(e).task = e.task
        /\ Entry(e).outcome = e.outcome
    BY DEF Entry
  <2> HIDE DEF n
  <2>5. \A i \in 1 .. n + 1 : i \in 1 .. n \/ i = n + 1
    BY <2>3
  <2>6. \A i \in DOMAIN q.entries : q.entries[i].iter <= q.iter
    BY <1>3, <2>1, <2>2, <2>3, <2>4, <2>5 DEF Ordered
  <2>7. \A i, j \in DOMAIN q.entries : i < j => q.entries[i].iter < q.entries[j].iter
    <3> SUFFICES ASSUME NEW i \in 1 .. n + 1, NEW j \in 1 .. n + 1, i < j
                 PROVE  q.entries[i].iter < q.entries[j].iter
      BY <2>3
    <3>1. i \in 1 .. n
      BY <2>3
    <3>2. CASE j \in 1 .. n
      BY <2>3, <3>1, <3>2 DEF Ordered
    <3>3. CASE j = n + 1
      <4>1. s.entries[i].iter <= s.iter /\ s.entries[i].iter \in Nat
        BY <1>3, <2>3, <3>1 DEF Ordered
      <4> QED BY <1>3, <2>1, <2>3, <2>4, <3>1, <3>3, <4>1
    <3> QED BY <2>5, <3>2, <3>3
  <2>8. ASSUME NEW i \in 1 .. n + 1, NEW j \in 1 .. n + 1,
               PassedAt(q, i), PassedAt(q, j), q.entries[i].task = q.entries[j].task
        PROVE  i = j
    <3>1. CASE i \in 1 .. n /\ j \in 1 .. n
      BY <2>3, <2>8, <3>1 DEF Ordered, PassedAt
    <3>2. CASE i \in 1 .. n /\ j = n + 1
      BY <2>1, <2>3, <2>4, <2>8, <3>2 DEF PassedAt
    <3>3. CASE j \in 1 .. n /\ i = n + 1
      BY <2>1, <2>3, <2>4, <2>8, <3>3 DEF PassedAt
    <3> QED BY <2>5, <3>1, <3>2, <3>3
  <2> QED BY <1>0, <2>3, <2>6, <2>7, <2>8 DEF Ordered
<1> QED BY <1>4, <1>5

-----------------------------------------------------------------------------
(* The steps of the history.                                                *)

\* A process moves without preparing an event or reaching a publication.
LEMMA ShiftKeepsHistory ==
  ASSUME IInv, History, NEW p \in Procs, NEW n, op' = [ op EXCEPT ![p] = n ],
         UNCHANGED << proj, terminal >>, n.pc # "commit",
         n.pc \in RunPoints =>
           n.cmd = "run" \/ (op[p].pc \in RunPoints /\ n.cmd = op[p].cmd),
         n.pc \in EndPoints => op[p].pc \in EndPoints /\ n.verdict = op[p].verdict
  PROVE  History'
<1>1. \A q \in Procs : OpTrace(op'[q], proj)
  <2>1. DOMAIN op = Procs
    BY DEF IInv, OpsInv
  <2> QED BY <2>1 DEF History, OpTrace
<1> QED BY <1>1 DEF History

LEMMA ReturnKeepsHistory ==
  ASSUME IInv, History, NEW p \in Procs, Return(p), UNCHANGED << proj, terminal >>
  PROVE  History'
<1>1. Idle.pc = "idle"
  BY DEF Idle
<1> QED BY <1>1, ShiftKeepsHistory DEF Return, EndPoints, RunPoints

LEMMA GotoKeepsHistory ==
  ASSUME IInv, History, NEW p \in Procs, NEW pc, Goto(p, pc),
         UNCHANGED << proj, terminal >>, pc # "commit",
         pc \in RunPoints => op[p].pc \in RunPoints,
         pc \in EndPoints => op[p].pc \in EndPoints
  PROVE  History'
<1> DEFINE n == [ op[p] EXCEPT !.pc = pc ]
<1>1. op[p] \in Ops
  BY DEF IInv, OpsInv, OpInv
<1>2. n.pc = pc /\ n.verdict = op[p].verdict /\ n.cmd = op[p].cmd
  BY <1>1 DEF Ops
<1>3. op' = [ op EXCEPT ![p] = n ]
  BY DEF Goto
<1> HIDE DEF n
<1> QED BY <1>2, <1>3, ShiftKeepsHistory

\* An append by whoever: the log had not ended.
LEMMA AppendKeepsTrace ==
  ASSUME IInv, IInv', History, NEW e \in Events, Follows(proj, e), AppendEvent(e)
  PROVE  /\ Ordered(proj')
         /\ proj.terminal = NoTerminal
         /\ proj'.entries = IF e.type = "iteration_appended"
              THEN Append(proj.entries, Entry([ e EXCEPT !.seq = Len(log) ]))
              ELSE proj.entries
         /\ proj'.terminal = IF e.type = "terminal_written"
              THEN [ verdict |-> e.verdict, seq |-> Len(log) ] ELSE proj.terminal
<1> DEFINE x == [ e EXCEPT !.seq = Len(log) ]
<1>1. Len(log) \in Nat /\ proj \in Projections /\ proj.legal
  BY DEF IInv, LogInv
<1>2. /\ x \in Events /\ x.type = e.type /\ x.iter = e.iter /\ x.task = e.task
      /\ x.outcome = e.outcome /\ x.verdict = e.verdict /\ x.seq = Len(log)
  BY <1>1 DEF Events
<1>3. proj' = ReduceOne(proj, x) /\ proj'.legal
  BY DEF AppendEvent, IInv, LogInv
<1> HIDE DEF x
<1>4. ~Refused(proj, x)
  BY <1>3 DEF ReduceOne, Illegal, EmptyProjection
<1>5. Follows(proj, x)
  BY <1>2 DEF Follows
<1>6. x.type \notin {"contract_opened", "terminal_superseded"}
  BY <1>5 DEF Follows
<1>7. Ordered(proj')
  BY <1>1, <1>2, <1>3, <1>4, <1>5, OrderedStep DEF History
<1>8. /\ proj.terminal = NoTerminal
      /\ proj'.entries = IF e.type = "iteration_appended"
           THEN Append(proj.entries, Entry(x)) ELSE proj.entries
      /\ proj'.terminal = IF e.type = "terminal_written"
           THEN [ verdict |-> e.verdict, seq |-> Len(log) ] ELSE proj.terminal
  BY <1>1, <1>2, <1>3, <1>4, <1>6, ReduceOneFields
<1> QED BY <1>7, <1>8 DEF x

\* The event was prepared from the projection it is appended to.
LEMMA CommitReads ==
  ASSUME IInv, NEW p \in Procs, Commit(p)
  PROVE  op[p].pc = "commit" /\ op[p].snap = proj /\ op[p].event \in Events
BY DEF IInv, OpsInv, OpInv, Current, Commit, At, Ops

LEMMA CommitKeepsHistory ==
  ASSUME IInv, IInv', History, NEW p \in Procs, Commit(p)
  PROVE  History'
<1> DEFINE o == op[p]  e == o.event  n == [ o EXCEPT !.pc = AfterCommit(o) ]
<1>1. o.pc = "commit" /\ o.snap = proj /\ e \in Events
  BY CommitReads
<1>2. /\ Follows(proj, e)
      /\ e.type = "terminal_written" => o.verdict = e.verdict
      /\ o.cmd = "cancel" => e.type = "terminal_written"
  BY <1>1 DEF History, OpTrace
<1>3. AppendEvent(e) /\ op' = [ op EXCEPT ![p] = n ] /\ terminal' = terminal
  BY DEF Commit, Goto, disk
<1>4. /\ Ordered(proj') /\ proj.terminal = NoTerminal
      /\ e.type = "terminal_written" =>
           proj'.terminal = [ verdict |-> e.verdict, seq |-> Len(log) ]
  BY <1>1, <1>2, <1>3, AppendKeepsTrace
<1>5. terminal' = NoVerdict
  BY <1>3, <1>4 DEF History
<1>6. n.pc = AfterCommit(o) /\ n.verdict = o.verdict /\ n.cmd = o.cmd
  BY DEF IInv, OpsInv, OpInv, Ops
<1>7. OpTrace(n, proj')
  <2>1. /\ AfterCommit(o) # "commit"
        /\ AfterCommit(o) \in RunPoints => o.cmd = "run"
    BY DEF AfterCommit, RunPoints
  <2>2. CASE n.pc \notin EndPoints
    BY <1>6, <2>1, <2>2 DEF OpTrace
  <2>3. CASE n.pc \in EndPoints
    <3>1. e.type = "terminal_written"
      BY <1>2, <1>6, <2>3 DEF AfterCommit, EndPoints
    <3>2. Len(log) # NoEvent
      BY DEF IInv, LogInv, NoEvent
    <3>3. proj'.terminal # NoTerminal /\ proj'.terminal.verdict = o.verdict
      BY <1>2, <1>4, <3>1, <3>2 DEF NoTerminal
    <3> QED BY <1>6, <2>1, <3>3 DEF OpTrace
  <2> QED BY <2>2, <2>3
<1>8. ASSUME NEW q \in Procs, q # p PROVE OpTrace(op[q], proj')
  BY <1>4 DEF History, OpTrace
<1>9. \A q \in Procs : OpTrace(op'[q], proj')
  <2>1. DOMAIN op = Procs
    BY DEF IInv, OpsInv
  <2> HIDE DEF n
  <2> QED BY <1>3, <1>7, <1>8, <2>1
<1> QED BY <1>4, <1>5, <1>9 DEF History

LEMMA OrchestratorKeepsHistory ==
  ASSUME IInv, IInv', History, RequestApproval \/ Advance
  PROVE  History'
<1>0. /\ proj.count \in Nat /\ proj.iter \in Nat /\ proj.iter + 1 > proj.iter
      /\ AllStates \subseteq AllStates \cup {None}
  BY DEF IInv, LogInv, Projections
<1>1. ASSUME NEW e \in Events, Follows(proj, e), AppendEvent(e),
             e.type # "terminal_written", UNCHANGED << terminal, op >>
      PROVE  History'
  <2>1. Ordered(proj') /\ proj'.terminal = proj.terminal
    BY <1>1, AppendKeepsTrace
  <2> QED BY <1>1, <2>1 DEF History, OpTrace
<1>2. CASE RequestApproval
  <2> DEFINE b == Event("approval_requested", proj.count)
             e == [ b EXCEPT !.iter = proj.iter + 1 ]
  <2>1. b \in Events /\ b.type = "approval_requested"
    BY <1>0, EventTyped DEF EventTypes
  <2>2. e \in Events /\ e.type = "approval_requested" /\ e.iter = proj.iter + 1
    BY <1>0, <2>1 DEF Events
  <2>3. AppendEvent(e) /\ UNCHANGED << terminal, op >>
    BY <1>2 DEF RequestApproval, disk
  <2> HIDE DEF e
  <2>4. Follows(proj, e)
    BY <1>0, <2>2 DEF Follows
  <2> QED BY <1>1, <2>2, <2>3, <2>4
<1>3. CASE Advance
  <2> DEFINE b == Event("iteration_appended", proj.count)
             E(t) == [ b EXCEPT !.iter = proj.iter + 1, !.outcome = "replanned",
                                !.target = t ]
  <2>1. b \in Events /\ b.type = "iteration_appended"
    BY <1>0, EventTyped DEF EventTypes
  <2>2. PICK t \in LegalTargets(proj.state) : AppendEvent(E(t))
    BY <1>3 DEF Advance
  <2>c. "replanned" \in Outcomes /\ proj.iter + 1 \in Nat
    BY <1>0 DEF Outcomes
  <2> HIDE DEF b
  <2>3. t \in AllStates
    BY StatesAreNotNone DEF IInv, LogInv, Projections, LegalTargets
  <2>4. /\ E(t) \in Events /\ E(t).type = "iteration_appended"
        /\ E(t).iter = proj.iter + 1 /\ E(t).outcome = "replanned"
    BY <2>1, <2>3, <2>c DEF Events
  <2>5. UNCHANGED << terminal, op >>
    BY <1>3 DEF Advance, disk
  <2> HIDE DEF E
  <2>6. Follows(proj, E(t))
    BY <1>0, <2>4 DEF Follows
  <2> QED BY <1>1, <2>2, <2>4, <2>5, <2>6
<1> QED BY <1>2, <1>3

\* A process prepares an event that goes on from what it read.
LEMMA PrepareKeepsHistory ==
  ASSUME IInv, History, NEW p \in Procs, NEW n, op' = [ op EXCEPT ![p] = n ],
         UNCHANGED << proj, terminal >>, n.pc = "commit",
         Follows(n.snap, n.event),
         n.event.type = "terminal_written" => n.verdict = n.event.verdict,
         n.cmd = "cancel" => n.event.type = "terminal_written"
  PROVE  History'
<1>1. OpTrace(n, proj)
  BY DEF OpTrace, EndPoints, RunPoints
<1>2. \A q \in Procs : OpTrace(op'[q], proj)
  <2>1. DOMAIN op = Procs
    BY DEF IInv, OpsInv
  <2> QED BY <1>1, <2>1 DEF History
<1> QED BY <1>2 DEF History

LEMMA ControlKeepsHistory ==
  ASSUME IInv, History, NEW p \in Procs,
         Approve(p) \/ Pause(p) \/ Resume(p) \/ Cancel(p)
  PROVE  History'
<1>0. proj \in Projections /\ proj.count \in Nat /\ proj.iter \in Nat /\ op[p] \in Ops
  BY DEF IInv, LogInv, Projections, OpsInv, OpInv
<1>1. ASSUME NEW cmd, NEW e, Prepare(p, cmd, e), Follows(proj, e),
             cmd = "cancel" => e.type = "terminal_written"
      PROVE  History'
  <2> DEFINE n == [ op[p] EXCEPT !.pc = "commit", !.cmd = cmd, !.snap = proj,
                                 !.event = e, !.verdict = e.verdict ]
  <2>1. /\ n.pc = "commit" /\ n.cmd = cmd /\ n.snap = proj /\ n.event = e
        /\ n.verdict = e.verdict
    BY <1>0 DEF Ops
  <2>2. op' = [ op EXCEPT ![p] = n ] /\ UNCHANGED << proj, terminal >>
    BY <1>1 DEF Prepare, disk
  <2> HIDE DEF n
  <2> QED BY <1>1, <2>1, <2>2, PrepareKeepsHistory
<1>2. CASE Approve(p)
  <2> DEFINE e == [ Event("approval_resolved", proj.count) EXCEPT
                      !.iter = proj.iter, !.cause = proj.pending ]
             Den == [ e EXCEPT !.decision = "denied" ]
             App(t) == [ e EXCEPT !.decision = "approved", !.target = t ]
  <2>1. Den.type = "approval_resolved" /\ Den.iter = proj.iter
    BY DEF Event
  <2>2. \A t : App(t).type = "approval_resolved" /\ App(t).iter = proj.iter
    BY DEF Event
  <2>3. Prepare(p, "approve", Den) \/ \E t \in ResumeTargets : Prepare(p, "approve", App(t))
    BY <1>2 DEF Approve
  <2> HIDE DEF Den, App
  <2>4. Follows(proj, Den) /\ \A t : Follows(proj, App(t))
    BY <1>0, <2>1, <2>2 DEF Follows
  <2> QED BY <1>1, <2>3, <2>4
<1>3. CASE Pause(p)
  <2> DEFINE e == [ Event("run_paused", proj.count) EXCEPT !.iter = proj.iter ]
  <2>1. e.type = "run_paused" /\ e.iter = proj.iter
    BY DEF Event
  <2>2. Prepare(p, "pause", e)
    BY <1>3 DEF Pause
  <2> HIDE DEF e
  <2> QED BY <1>0, <1>1, <2>1, <2>2 DEF Follows
<1>4. CASE Resume(p)
  <2> DEFINE e == [ Event("run_resumed", proj.count) EXCEPT !.iter = proj.iter ]
  <2>1. e.type = "run_resumed" /\ e.iter = proj.iter
    BY DEF Event
  <2>2. Prepare(p, "resume", e)
    BY <1>4 DEF Resume
  <2> HIDE DEF e
  <2> QED BY <1>0, <1>1, <2>1, <2>2 DEF Follows
<1>5. CASE Cancel(p)
  <2> DEFINE e == [ Event("terminal_written", proj.count) EXCEPT
                      !.verdict = [ NoVerdict EXCEPT !.result = "AbortedByHuman" ] ]
  <2>1. e.type = "terminal_written"
    BY DEF Event
  <2>2. Prepare(p, "cancel", e)
    BY <1>5 DEF Cancel
  <2> HIDE DEF e
  <2> QED BY <1>1, <2>1, <2>2 DEF Follows
<1> QED BY <1>2, <1>3, <1>4, <1>5

\* A task that the run read does not show as passed is dispatched under the
\* next iteration id.
LEMMA VerifyKeepsHistory ==
  ASSUME IInv, History, NEW p \in Procs, Verify(p)
  PROVE  History'
<1> DEFINE s == op[p].snap
           E(t, oc) == [ Event("iteration_appended", s.count) EXCEPT
                !.iter = s.iter + 1, !.task = t, !.bound = TRUE, !.outcome = oc ]
           n(t, oc) == [ op[p] EXCEPT !.pc = "commit", !.event = E(t, oc) ]
<1>1. op[p] \in Ops /\ s \in Projections /\ s.iter \in Nat
  BY DEF IInv, OpsInv, OpInv, Ops, Projections
<1>2. PICK t \in Tasks, result \in Results \ {"unlaunchable"} :
        /\ IsNextTask(s, t)
        /\ op' = [ op EXCEPT ![p].pc = "commit",
             ![p].event = E(t, IF result = "passed" THEN "task_passed" ELSE "task_failed") ]
  BY DEF Verify
<1> DEFINE oc == IF result = "passed" THEN "task_passed" ELSE "task_failed"
<1>3. op' = [ op EXCEPT ![p] = n(t, oc) ] /\ UNCHANGED << proj, terminal >>
  BY ZenonT(40), <1>2 DEF Verify, disk
<1>4. /\ E(t, oc).type = "iteration_appended" /\ E(t, oc).iter = s.iter + 1
      /\ E(t, oc).task = t
  BY DEF Event
<1>5. t \notin PassedIn(s) /\ t # None
  BY <1>2, LoopRunAssumption DEF IsNextTask, Selectable, DoneTasks
<1>6. \A i \in DOMAIN s.entries : PassedAt(s, i) => s.entries[i].task # t
  BY <1>5 DEF PassedIn, PassedAt
<1>7. Follows(s, E(t, oc))
  <2> HIDE DEF E, oc
  <2> QED BY <1>1, <1>4, <1>6 DEF Follows
<1>8. /\ n(t, oc).pc = "commit" /\ n(t, oc).snap = s /\ n(t, oc).event = E(t, oc)
      /\ n(t, oc).cmd = op[p].cmd
  BY <1>1 DEF Ops
<1>9. op[p].cmd = "run"
  BY DEF Verify, At, History, OpTrace, RunPoints
<1> HIDE DEF n, E, oc
<1> QED BY <1>3, <1>4, <1>7, <1>8, <1>9, PrepareKeepsHistory

LEMMA ConcludeKeepsHistory ==
  ASSUME IInv, History, NEW p \in Procs, Conclude(p)
  PROVE  History'
<1> DEFINE s == op[p].snap
           v == AutoVerdict(s)
           e == [ Event("terminal_written", s.count) EXCEPT !.iter = s.iter, !.verdict = v ]
           n == [ op[p] EXCEPT !.pc = "commit", !.verdict = v, !.event = e ]
<1>1. op[p] \in Ops
  BY DEF IInv, OpsInv, OpInv
<1>2. op' = [ op EXCEPT ![p] = n ] /\ UNCHANGED << proj, terminal >>
  BY DEF Conclude, disk
<1>3. e.type = "terminal_written" /\ e.verdict = v
  BY DEF Event
<1>4. n.pc = "commit" /\ n.event = e /\ n.verdict = v
  BY <1>1 DEF Ops
<1> HIDE DEF n, e, v
<1>5. Follows(n.snap, n.event)
  BY <1>3, <1>4 DEF Follows
<1> QED BY <1>2, <1>3, <1>4, <1>5, PrepareKeepsHistory

LEMMA RunStartKeepsHistory ==
  ASSUME IInv, History, NEW p \in Procs, RunReady(p) \/ RunTerminal(p)
  PROVE  History'
<1>1. op[p] \in Ops /\ DOMAIN op = Procs
  BY DEF IInv, OpsInv, OpInv
<1>2. CASE RunReady(p)
  <2> DEFINE n == [ op[p] EXCEPT !.pc = "reconcile", !.cmd = "run", !.snap = proj ]
  <2>1. n.pc = "reconcile" /\ n.cmd = "run"
    BY <1>1 DEF Ops
  <2>2. op' = [ op EXCEPT ![p] = n ] /\ UNCHANGED << proj, terminal >>
    BY <1>2 DEF RunReady, disk
  <2> HIDE DEF n
  <2> QED BY <2>1, <2>2, ShiftKeepsHistory DEF EndPoints
<1>3. CASE RunTerminal(p)
  <2> DEFINE n == [ op[p] EXCEPT !.pc = "end_check", !.cmd = "run",
                      !.snap = proj, !.verdict = proj.terminal.verdict ]
  <2>1. n.pc = "end_check" /\ n.verdict = proj.terminal.verdict
    BY <1>1 DEF Ops
  <2>2. /\ op' = [ op EXCEPT ![p] = n ] /\ UNCHANGED << proj, terminal >>
        /\ proj.terminal # NoTerminal
    BY <1>3 DEF RunTerminal, disk
  <2> HIDE DEF n
  <2>3. OpTrace(n, proj)
    BY <2>1, <2>2 DEF OpTrace, RunPoints
  <2> QED BY <1>1, <2>2, <2>3 DEF History
<1> QED BY <1>2, <1>3

\* On to the next entry that is due, or to the selection.
LEMMA ReconcileFromKeepsHistory ==
  ASSUME IInv, History, NEW p \in Procs, NEW current, op[p].pc \in RunPoints,
         ReconcileFrom(p, current), UNCHANGED << proj, terminal >>
  PROVE  History'
<1>1. op[p] \in Ops
  BY DEF IInv, OpsInv, OpInv
<1>2. CASE op' = [ op EXCEPT ![p].pc = "select", ![p].doc = NoDoc,
                             ![p].entry = Entry(NoEventYet) ]
  <2> DEFINE n == [ op[p] EXCEPT !.pc = "select", !.doc = NoDoc,
                                 !.entry = Entry(NoEventYet) ]
  <2>1. n.pc = "select" /\ n.cmd = op[p].cmd
    BY <1>1 DEF Ops
  <2>2. op' = [ op EXCEPT ![p] = n ]
    BY <1>2
  <2> HIDE DEF n
  <2> QED BY <2>1, <2>2, ShiftKeepsHistory DEF EndPoints
<1>3. ASSUME NEW i, op' = [ op EXCEPT ![p].pc = "mat_read",
                                      ![p].entry = op[p].snap.entries[i] ]
      PROVE  History'
  <2> DEFINE n == [ op[p] EXCEPT !.pc = "mat_read", !.entry = op[p].snap.entries[i] ]
  <2>1. n.pc = "mat_read" /\ n.cmd = op[p].cmd
    BY <1>1 DEF Ops
  <2>2. op' = [ op EXCEPT ![p] = n ]
    BY <1>3
  <2> HIDE DEF n
  <2> QED BY <2>1, <2>2, ShiftKeepsHistory DEF EndPoints
<1> QED BY <1>2, <1>3 DEF ReconcileFrom

LEMMA WriteEvidenceKeepsHistory ==
  ASSUME IInv, History, NEW p \in Procs, WriteEvidence(p)
  PROVE  History'
<1>1. op[p] \in Ops
  BY DEF IInv, OpsInv, OpInv
<1>2. ASSUME NEW kind \in {"object", "record", "bundle"},
             NEW then \in {"record", "bundle", "mat_read"}, WriteArtifact(p, kind, then)
      PROVE  History'
  <2> DEFINE n == [ op[p] EXCEPT !.pc = then,
                      !.entry = IF then = "mat_read" THEN Entry(op[p].event) ELSE @ ]
  <2>1. n.pc = then /\ n.cmd = op[p].cmd
    BY <1>1 DEF Ops
  <2>2. op' = [ op EXCEPT ![p] = n ] /\ UNCHANGED << proj, terminal >>
    BY <1>2 DEF WriteArtifact
  <2>3. op[p].pc \in RunPoints
    BY <1>2 DEF WriteArtifact, At, RunPoints
  <2> HIDE DEF n
  <2> QED BY <2>1, <2>2, <2>3, ShiftKeepsHistory DEF EndPoints
<1> QED BY <1>2 DEF WriteEvidence

\* A process reads state.json and goes on with it.
LEMMA DocKeepsHistory ==
  ASSUME IInv, History, NEW p \in Procs, NEW pc, NEW doc,
         op' = [ op EXCEPT ![p].pc = pc, ![p].doc = doc ],
         UNCHANGED << proj, terminal >>, pc # "commit",
         pc \in RunPoints => op[p].pc \in RunPoints,
         pc \in EndPoints => op[p].pc \in EndPoints
  PROVE  History'
<1> DEFINE n == [ op[p] EXCEPT !.pc = pc, !.doc = doc ]
<1>1. op[p] \in Ops
  BY DEF IInv, OpsInv, OpInv
<1>2. n.pc = pc /\ n.cmd = op[p].cmd /\ n.verdict = op[p].verdict
  BY <1>1 DEF Ops
<1>3. op' = [ op EXCEPT ![p] = n ]
  OBVIOUS
<1> HIDE DEF n
<1> QED BY <1>2, <1>3, ShiftKeepsHistory

LEMMA MaterializeKeepsHistory ==
  ASSUME IInv, History, NEW p \in Procs,
         \/ Reconcile(p) \/ MaterializeRead(p) \/ MaterializeCheck(p)
         \/ MaterializeBlock(p) \/ MaterializeStamp(p)
  PROVE  History'
<1>0. /\ {"reconcile", "mat_read", "mat_check", "mat_block", "mat_stamp"} \subseteq RunPoints
      /\ {"mat_check", "mat_block", "mat_stamp", "commit"} \cap EndPoints = {}
  BY DEF RunPoints, EndPoints
<1>1. CASE Reconcile(p)
  BY <1>0, <1>1, ReconcileFromKeepsHistory DEF Reconcile, At, disk
<1>2. CASE MaterializeRead(p)
  <2>1. op[p].pc = "mat_read" /\ UNCHANGED << proj, terminal >>
    BY <1>2 DEF MaterializeRead, At, disk
  <2>2. Return(p) \/ op' = [ op EXCEPT ![p].pc = "mat_check", ![p].doc = state ]
    BY <1>2 DEF MaterializeRead
  <2> QED BY <1>0, <2>1, <2>2, ReturnKeepsHistory, DocKeepsHistory
<1>3. CASE MaterializeCheck(p)
  BY <1>0, <1>3, GotoKeepsHistory DEF MaterializeCheck, At, disk
<1>4. CASE MaterializeBlock(p)
  BY <1>0, <1>4, GotoKeepsHistory DEF MaterializeBlock, At
<1>5. CASE MaterializeStamp(p)
  <2>1. op[p].pc \in RunPoints /\ UNCHANGED << proj, terminal >>
    BY <1>0, <1>5 DEF MaterializeStamp, At
  <2>2. Return(p) \/ ReconcileFrom(p, op[p].entry.iter)
    BY <1>5 DEF MaterializeStamp
  <2> QED BY <2>1, <2>2, ReturnKeepsHistory, ReconcileFromKeepsHistory
<1> QED BY <1>1, <1>2, <1>3, <1>4, <1>5

\* The file that is created holds the verdict of the end the process saw.
LEMMA CreateKeepsHistory ==
  ASSUME IInv, History, NEW p \in Procs, EndCreate(p)
  PROVE  History'
<1>1. CASE terminal # NoVerdict
  BY <1>1, ReturnKeepsHistory DEF EndCreate
<1>2. CASE terminal = NoVerdict
  <2>1. /\ terminal' = op[p].verdict /\ Goto(p, "end_stamp") /\ proj' = proj
        /\ op[p].pc = "end_create"
    BY <1>2 DEF EndCreate, At
  <2>2. proj.terminal # NoTerminal /\ op[p].verdict = proj.terminal.verdict
    BY <2>1 DEF History, OpTrace, EndPoints
  <2> DEFINE n == [ op[p] EXCEPT !.pc = "end_stamp" ]
  <2>3. n.pc = "end_stamp"
    BY DEF IInv, OpsInv, OpInv, Ops
  <2>4. op' = [ op EXCEPT ![p] = n ] /\ DOMAIN op = Procs
    BY <2>1 DEF Goto, IInv, OpsInv
  <2> HIDE DEF n
  <2>5. \A q \in Procs : OpTrace(op'[q], proj)
    BY <2>3, <2>4 DEF History, OpTrace, RunPoints, EndPoints
  <2> QED BY <2>1, <2>2, <2>5 DEF History
<1> QED BY <1>1, <1>2

LEMMA PublishKeepsHistory ==
  ASSUME IInv, History, NEW p \in Procs,
         \/ EndCheck(p) \/ EndRead(p) \/ EndStamp(p)
         \/ SyncCheck(p) \/ SyncRead(p) \/ SyncStamp(p)
  PROVE  History'
<1>0. /\ {"end_check", "end_read", "end_create"} \subseteq EndPoints
      /\ {"sync_check", "sync_read", "sync_stamp"} \cap EndPoints = {}
      /\ {"end_read", "end_create", "sync_check", "sync_read", "sync_stamp"}
           \cap RunPoints = {}
  BY DEF RunPoints, EndPoints
<1>1. CASE EndCheck(p)
  <2>1. op[p].pc = "end_check" /\ UNCHANGED << proj, terminal >>
    BY <1>1 DEF EndCheck, At, disk
  <2>2. Return(p) \/ Goto(p, "end_read") \/ Goto(p, "sync_check")
    BY <1>1 DEF EndCheck
  <2> QED BY <1>0, <2>1, <2>2, ReturnKeepsHistory, GotoKeepsHistory
<1>2. CASE EndRead(p)
  <2>1. op[p].pc = "end_read" /\ UNCHANGED << proj, terminal >>
    BY <1>2 DEF EndRead, At, disk
  <2>2. Return(p) \/ op' = [ op EXCEPT ![p].pc = "end_create", ![p].doc = state ]
    BY <1>2 DEF EndRead
  <2> QED BY <1>0, <2>1, <2>2, ReturnKeepsHistory, DocKeepsHistory
<1>3. CASE EndStamp(p)
  BY <1>0, <1>3, ReturnKeepsHistory, GotoKeepsHistory DEF EndStamp
<1>4. CASE SyncCheck(p)
  BY <1>0, <1>4, ReturnKeepsHistory, GotoKeepsHistory DEF SyncCheck, disk
<1>5. CASE SyncRead(p)
  <2>1. UNCHANGED << proj, terminal >>
    BY <1>5 DEF SyncRead, disk
  <2>2. Return(p) \/ op' = [ op EXCEPT ![p].pc = "sync_stamp", ![p].doc = state ]
    BY <1>5 DEF SyncRead
  <2> QED BY <1>0, <2>1, <2>2, ReturnKeepsHistory, DocKeepsHistory
<1>6. CASE SyncStamp(p)
  BY <1>6, ReturnKeepsHistory DEF SyncStamp
<1> QED BY <1>1, <1>2, <1>3, <1>4, <1>5, <1>6

LEMMA SyncProjectionKeepsHistory ==
  ASSUME IInv, History, NEW p \in Procs, Reread(p) \/ DocRead(p) \/ DocStamp(p)
  PROVE  History'
<1>0. {"doc_read", "doc_stamp"} \cap (EndPoints \cup RunPoints) = {}
  BY DEF RunPoints, EndPoints
<1>1. CASE Reread(p)
  <2> DEFINE n == [ op[p] EXCEPT !.pc = "doc_read", !.snap = proj ]
  <2>1. n.pc = "doc_read"
    BY DEF IInv, OpsInv, OpInv, Ops
  <2>2. UNCHANGED << proj, terminal >> /\ (Return(p) \/ op' = [ op EXCEPT ![p] = n ])
    BY <1>1 DEF Reread, disk
  <2> HIDE DEF n
  <2> QED BY <1>0, <2>1, <2>2, ReturnKeepsHistory, ShiftKeepsHistory
<1>2. CASE DocRead(p)
  BY <1>0, <1>2, DocKeepsHistory DEF DocRead, disk
<1>3. CASE DocStamp(p)
  BY <1>3, ReturnKeepsHistory DEF DocStamp
<1> QED BY <1>1, <1>2, <1>3

LEMMA OpeningKeepsHistory ==
  ASSUME Init
  PROVE  History
<1> DEFINE en == proj.entries
<1>1. /\ DOMAIN en = 1 .. 4 /\ proj.iter = 4
      /\ \A i \in 1 .. 4 : en[i].iter = i /\ en[i].outcome = "replanned"
  BY DEF Init, OpeningProjection, EmptyProjection
<1>2. Ordered(proj)
  BY <1>1 DEF Ordered, PassedAt
<1>3. \A p \in Procs : op[p].pc = "idle"
  BY DEF Init, Idle
<1>4. terminal = NoVerdict
  BY DEF Init
<1> QED BY <1>2, <1>3, <1>4 DEF History, OpTrace, EndPoints, RunPoints

LEMMA NextKeepsHistory ==
  ASSUME IInv, IInv', History, [Next]_vars
  PROVE  History'
<1>1. ASSUME NEW p \in Procs, Conflict(p) \/ GiveUp(p) \/ Crash(p) PROVE History'
  BY <1>1, ReturnKeepsHistory DEF Conflict, GiveUp, Crash, disk
<1>2. ASSUME NEW p \in Procs, Work(p) PROVE History'
  BY <1>1, <1>2, CommitKeepsHistory, VerifyKeepsHistory, ConcludeKeepsHistory,
     WriteEvidenceKeepsHistory, MaterializeKeepsHistory, CreateKeepsHistory,
     PublishKeepsHistory, SyncProjectionKeepsHistory
     DEF Work
<1>3. ASSUME NEW p \in Procs, Invoke(p) PROVE History'
  BY <1>3, RunStartKeepsHistory, ControlKeepsHistory DEF Invoke
<1>4. CASE EditTasks
  BY <1>4 DEF EditTasks, History, disk
<1>5. CASE UNCHANGED vars
  BY <1>5 DEF vars, History
<1> QED BY <1>1, <1>2, <1>3, <1>4, <1>5, OrchestratorKeepsHistory DEF Next

\* The history is in order and the terminal file follows it, in every reachable
\* state.
THEOREM LoopRunHistory == ASSUME Tasks # {} PROVE Spec => []History
<1>1. Init => History
  BY OpeningKeepsHistory
<1>2. IInv /\ IInv' /\ History /\ [Next]_vars => History'
  BY NextKeepsHistory
<1> QED BY <1>1, <1>2, LoopRunIInv, PTL DEF Spec

\* Two dispatches never share an iteration id, and ids grow along the log,
\* whatever the commands that race.
THEOREM LoopRunIterationIds ==
  ASSUME Tasks # {} PROVE Spec => []IterationIdsIncrease
<1>1. History => IterationIdsIncrease
  BY DEF History, Ordered, IterationIdsIncrease
<1> QED BY <1>1, LoopRunHistory, PTL

\* A task that passed never passes again: not for another process that had
\* selected it, and not after a crash.
THEOREM LoopRunNoTaskPassedTwice ==
  ASSUME Tasks # {} PROVE Spec => []NoTaskPassedTwice
<1>1. History => NoTaskPassedTwice
  BY DEF History, Ordered, PassedAt, NoTaskPassedTwice
<1> QED BY <1>1, LoopRunHistory, PTL

\* terminal_state.json holds the decision of the log, whichever of the racing
\* processes writes it.
THEOREM LoopRunTerminalFile ==
  ASSUME Tasks # {} PROVE Spec => []TerminalFileFollowsEvent
<1>1. History => TerminalFileFollowsEvent
  BY DEF History, TerminalFileFollowsEvent
<1> QED BY <1>1, LoopRunHistory, PTL

-----------------------------------------------------------------------------
(* While TASKS.json stands.                                                 *)

\* Every step of a process but preparing and appending an event and writing
\* evidence.
LEMMA QuietSteps ==
  ASSUME IInv, NEW p \in Procs,
         \/ Conflict(p) \/ GiveUp(p) \/ Crash(p) \/ RunReady(p) \/ RunTerminal(p)
         \/ Reconcile(p)
         \/ MaterializeRead(p) \/ MaterializeCheck(p)
         \/ MaterializeBlock(p) \/ MaterializeStamp(p)
         \/ EndCheck(p) \/ EndRead(p) \/ EndCreate(p) \/ EndStamp(p)
         \/ SyncCheck(p) \/ SyncRead(p) \/ SyncStamp(p)
         \/ Reread(p) \/ DocRead(p) \/ DocStamp(p)
  PROVE  /\ UNCHANGED << status, log, proj, files >>
         /\ \A q \in Procs :
              op'[q] = op[q] \/ op'[q].pc \notin {"commit", "record"}
<1> DEFINE Quiet == \A q \in Procs :
                     op'[q] = op[q] \/ op'[q].pc \notin {"commit", "record"}
<1>1. op[p] \in Ops /\ DOMAIN op = Procs /\ Idle.pc = "idle"
  BY DEF IInv, OpsInv, OpInv, Idle
<1>2. Return(p) => Quiet
  BY <1>1 DEF Return
<1>3. \A pc : pc \notin {"commit", "record"} /\ Goto(p, pc) => Quiet
  BY <1>1 DEF Goto, Ops
<1>4. \A pc, doc :
        (pc \notin {"commit", "record"} /\ op' = [ op EXCEPT ![p].pc = pc, ![p].doc = doc ])
          => Quiet
  BY <1>1 DEF Ops
<1>5. \A current : ReconcileFrom(p, current) => Quiet
  <2>1. op' = [ op EXCEPT ![p].pc = "select", ![p].doc = NoDoc,
                          ![p].entry = Entry(NoEventYet) ] => Quiet
    BY <1>1 DEF Ops
  <2>2. \A i : op' = [ op EXCEPT ![p].pc = "mat_read",
                                 ![p].entry = op[p].snap.entries[i] ] => Quiet
    BY <1>1 DEF Ops
  <2> HIDE DEF Quiet
  <2> QED BY <2>1, <2>2 DEF ReconcileFrom
<1>6. RunReady(p) => Quiet
  BY <1>1 DEF RunReady, Ops
<1>7. RunTerminal(p) => Quiet
  BY <1>1 DEF RunTerminal, Ops
<1>8. Reread(p) => Quiet
  BY <1>1, <1>2 DEF Reread, Ops
<1> HIDE DEF Quiet
<1>9. Conflict(p) \/ GiveUp(p) \/ Crash(p) \/ SyncStamp(p) \/ DocStamp(p) => Quiet
  BY <1>2 DEF Conflict, GiveUp, Crash, SyncStamp, DocStamp
<1>10. Reconcile(p) \/ MaterializeStamp(p) => Quiet
  BY <1>2, <1>5 DEF Reconcile, MaterializeStamp
<1>11. MaterializeCheck(p) \/ MaterializeBlock(p) \/ EndCheck(p) \/ EndCreate(p) => Quiet
  BY <1>2, <1>3 DEF MaterializeCheck, MaterializeBlock, EndCheck, EndCreate
<1>12. EndStamp(p) \/ SyncCheck(p) => Quiet
  BY <1>2, <1>3 DEF EndStamp, SyncCheck
<1>13. MaterializeRead(p) \/ EndRead(p) \/ SyncRead(p) \/ DocRead(p) => Quiet
  BY <1>2, <1>4 DEF MaterializeRead, EndRead, SyncRead, DocRead
<1>14. Quiet
  BY <1>6, <1>7, <1>8, <1>9, <1>10, <1>11, <1>12, <1>13
<1>15. UNCHANGED << status, log, proj, files >>
  BY DEF Conflict, GiveUp, Crash, RunReady, RunTerminal, Reconcile,
     MaterializeRead, MaterializeCheck, MaterializeBlock, MaterializeStamp,
     EndCheck, EndRead, EndCreate, EndStamp, SyncCheck, SyncRead, SyncStamp,
     Reread, DocRead, DocStamp, disk
<1> QED BY <1>14, <1>15 DEF Quiet

LEMMA EvidenceSteps ==
  ASSUME IInv, NEW p \in Procs, NEW kind \in {"object", "record", "bundle"}, NEW then,
         WriteArtifact(p, kind, then), then # "commit"
  PROVE  /\ UNCHANGED << status, log, proj >>
         /\ files' = files \cup { << kind, op[p].event.iter >> }
         /\ op'[p].pc = then /\ op'[p].event = op[p].event
         /\ \A q \in Procs \ {p} : op'[q] = op[q]
<1>1. op[p] \in Ops /\ DOMAIN op = Procs
  BY DEF IInv, OpsInv, OpInv
<1> QED BY <1>1 DEF WriteArtifact, Ops

LEMMA WriteEvidenceQuiet ==
  ASSUME IInv, NEW p \in Procs, WriteEvidence(p)
  PROVE  /\ UNCHANGED << status, proj >>
         /\ \A q \in Procs : op'[q] = op[q] \/ op'[q].pc # "commit"
BY EvidenceSteps DEF WriteEvidence

LEMMA QuietKeepsPlan ==
  ASSUME Planned, UNCHANGED << status, proj >>,
         \A q \in Procs : op'[q] = op[q] \/ op'[q].pc # "commit"
  PROVE  Planned'
<1>1. \A q \in Procs : OpPlan(op[q])' 
  BY DEF Planned, OpPlan, PlanOf, DoneTasks, AllDone
<1> QED BY <1>1 DEF Planned, DependenciesRespected, SuccessCoversTasks

\* An event that keeps to the plan of the run it is appended to.
LEMMA AppendKeepsPlan ==
  ASSUME IInv, IInv', History, Planned, NEW e \in Events, Follows(proj, e),
         PlanOf(proj, e), AppendEvent(e), status' = status
  PROVE  DependenciesRespected' /\ SuccessCoversTasks'
<1> DEFINE x == [ e EXCEPT !.seq = Len(log) ]
           n == Len(proj.entries)
<1>1. proj.entries \in Seq(RunlogEntries) /\ proj'.entries \in Seq(RunlogEntries)
  BY DEF IInv, LogInv, Projections
<1>2. /\ proj'.entries = IF e.type = "iteration_appended"
                         THEN Append(proj.entries, Entry(x)) ELSE proj.entries
      /\ proj.terminal = NoTerminal
      /\ proj'.terminal = IF e.type = "terminal_written"
           THEN [ verdict |-> e.verdict, seq |-> Len(log) ] ELSE proj.terminal
  BY AppendKeepsTrace
<1>3. Entry(x).task = e.task /\ Entry(x).outcome = e.outcome
  BY DEF Entry, Events
<1>4. \A t \in Tasks : t \in DoneTasks(proj) =>
        \/ status[t] = "done"
        \/ \E j \in DOMAIN proj.entries :
             proj.entries[j].task = t /\ proj.entries[j].outcome = "task_passed"
  BY DEF DoneTasks, PassedIn
<1>5. /\ DOMAIN proj.entries = 1 .. n /\ n \in Nat
      /\ \A i \in 1 .. n : i \in DOMAIN proj'.entries /\ proj'.entries[i] = proj.entries[i]
  <2>1. CASE e.type = "iteration_appended"
    BY <1>1, <1>2, <2>1
  <2>2. CASE e.type # "iteration_appended"
    BY <1>1, <1>2, <2>2
  <2> QED BY <2>1, <2>2
<1>6. \A i \in DOMAIN proj'.entries : i \in 1 .. n \/
        (i = n + 1 /\ e.type = "iteration_appended" /\ proj'.entries[i] = Entry(x))
  <2>1. CASE e.type = "iteration_appended"
    BY <1>1, <1>2, <2>1
  <2>2. CASE e.type # "iteration_appended"
    BY <1>1, <1>2, <2>2
  <2> QED BY <2>1, <2>2
<1> HIDE DEF x, n
<1>7. DependenciesRespected'
  <2> SUFFICES ASSUME NEW i \in DOMAIN proj'.entries, proj'.entries[i].task # None,
                      NEW d \in DependsOn[proj'.entries[i].task]
               PROVE  \/ status[d] = "done"
                      \/ \E j \in 1 .. i - 1 :
                           /\ proj'.entries[j].task = d
                           /\ proj'.entries[j].outcome = "task_passed"
    BY DEF DependenciesRespected
  <2>1. CASE i \in 1 .. n
    <3>1. \/ status[d] = "done"
          \/ \E j \in 1 .. i - 1 :
               /\ proj.entries[j].task = d
               /\ proj.entries[j].outcome = "task_passed"
      BY <1>5, <2>1 DEF Planned, DependenciesRespected
    <3>2. \A j \in 1 .. i - 1 : j \in 1 .. n
      BY <1>5, <2>1
    <3> QED BY <1>5, <3>1, <3>2
  <2>2. CASE /\ i = n + 1 /\ e.type = "iteration_appended"
             /\ proj'.entries[i] = Entry(x)
    <3>1. e.task # None /\ d \in DependsOn[e.task]
      BY <1>3, <2>2
    <3>2. d \in Tasks /\ d \in DoneTasks(proj)
      <4>1. e.task \in Tasks
        BY <3>1 DEF Events
      <4> QED BY <2>2, <3>1, <4>1, LoopRunAssumption DEF PlanOf
    <3>3. 1 .. i - 1 = 1 .. n
      BY <1>5, <2>2
    <3>4. CASE status[d] = "done"
      BY <3>4
    <3>5. ASSUME NEW j \in DOMAIN proj.entries, proj.entries[j].task = d,
                 proj.entries[j].outcome = "task_passed"
          PROVE  \E k \in 1 .. i - 1 :
                   /\ proj'.entries[k].task = d
                   /\ proj'.entries[k].outcome = "task_passed"
      BY <1>5, <3>3, <3>5
    <3> QED BY <1>4, <3>2, <3>4, <3>5
  <2> QED BY <1>6, <2>1, <2>2
<1>8. SuccessCoversTasks'
  <2> SUFFICES ASSUME proj'.terminal.verdict.result = "Succeeded", NEW t \in Tasks
               PROVE  \/ status[t] = "done"
                      \/ \E k \in DOMAIN proj'.entries :
                           /\ proj'.entries[k].task = t
                           /\ proj'.entries[k].outcome = "task_passed"
    BY DEF SuccessCoversTasks
  <2>1. NoTerminal.verdict.result # "Succeeded"
    BY DEF NoTerminal, NoVerdict, None
  <2>2. e.type = "terminal_written" /\ e.verdict.result = "Succeeded"
    BY <1>2, <2>1
  <2>3. t \in DoneTasks(proj)
    BY <2>2 DEF PlanOf, AllDone
  <2> QED BY <1>4, <1>5, <2>3
<1> QED BY <1>7, <1>8

LEMMA CommitKeepsPlan ==
  ASSUME IInv, IInv', History, Planned, NEW p \in Procs, Commit(p)
  PROVE  Planned'
<1> DEFINE o == op[p]  n == [ o EXCEPT !.pc = AfterCommit(o) ]
<1>1. o.pc = "commit" /\ o.snap = proj /\ o.event \in Events
  BY CommitReads
<1>2. Follows(proj, o.event) /\ PlanOf(proj, o.event)
  BY <1>1 DEF History, OpTrace, Planned, OpPlan
<1>3. AppendEvent(o.event) /\ status' = status /\ op' = [ op EXCEPT ![p] = n ]
  BY DEF Commit, Goto
<1>4. DependenciesRespected' /\ SuccessCoversTasks'
  BY <1>1, <1>2, <1>3, AppendKeepsPlan
<1>5. n.pc # "commit" /\ DOMAIN op = Procs
  BY DEF IInv, OpsInv, OpInv, Ops, AfterCommit
<1> HIDE DEF n
<1>6. \A q \in Procs : OpPlan(op[q])'
  BY <1>3, <1>5 DEF Planned, OpPlan, PlanOf, DoneTasks, AllDone
<1> QED BY <1>4, <1>6 DEF Planned

\* The orchestrator's events keep to the plan: they are about no task.
LEMMA OrchestratorAppends ==
  ASSUME IInv, RequestApproval \/ Advance
  PROVE  \E e \in Events : Follows(proj, e) /\ PlanOf(proj, e) /\ AppendEvent(e)
<1>0. proj.count \in Nat /\ proj.iter \in Nat /\ proj.iter + 1 \in Nat
  BY DEF IInv, LogInv, Projections
<1>1. CASE RequestApproval
  <2> DEFINE b == Event("approval_requested", proj.count)
             e == [ b EXCEPT !.iter = proj.iter + 1 ]
  <2>1. b \in Events /\ b.type = "approval_requested"
    BY <1>0, EventTyped DEF EventTypes
  <2>2. e \in Events /\ e.type = "approval_requested" /\ e.iter = proj.iter + 1
    BY <1>0, <2>1 DEF Events
  <2>3. AppendEvent(e)
    BY <1>1 DEF RequestApproval
  <2> HIDE DEF e
  <2>4. Follows(proj, e) /\ PlanOf(proj, e)
    BY <1>0, <2>2 DEF Follows, PlanOf
  <2> QED BY <2>2, <2>3, <2>4
<1>2. CASE Advance
  <2> DEFINE b == Event("iteration_appended", proj.count)
             E(t) == [ b EXCEPT !.iter = proj.iter + 1, !.outcome = "replanned",
                                !.target = t ]
  <2>1. b \in Events /\ b.type = "iteration_appended"
    BY <1>0, EventTyped DEF EventTypes
  <2>2. b.task = None
    BY DEF Event
  <2>3. PICK t \in LegalTargets(proj.state) : AppendEvent(E(t))
    BY <1>2 DEF Advance
  <2>4. t \in AllStates /\ "replanned" \in Outcomes
    BY StatesAreNotNone DEF IInv, LogInv, Projections, LegalTargets, Outcomes
  <2> HIDE DEF b
  <2>5. /\ E(t) \in Events /\ E(t).type = "iteration_appended"
        /\ E(t).iter = proj.iter + 1 /\ E(t).outcome = "replanned"
        /\ E(t).task = None
    BY <1>0, <2>1, <2>2, <2>4 DEF Events
  <2> HIDE DEF E
  <2>6. Follows(proj, E(t)) /\ PlanOf(proj, E(t))
    BY <1>0, <2>5 DEF Follows, PlanOf
  <2> QED BY <2>3, <2>5, <2>6
<1> QED BY <1>1, <1>2

LEMMA OrchestratorKeepsPlan ==
  ASSUME IInv, IInv', History, Planned, RequestApproval \/ Advance
  PROVE  Planned'
<1>1. PICK e \in Events : Follows(proj, e) /\ PlanOf(proj, e) /\ AppendEvent(e)
  BY OrchestratorAppends
<1>2. UNCHANGED << status, op >>
  BY DEF RequestApproval, Advance
<1>3. DependenciesRespected' /\ SuccessCoversTasks'
  BY <1>1, <1>2, AppendKeepsPlan
<1>4. \A q \in Procs : OpPlan(op[q])'
  BY <1>2 DEF Planned, OpPlan, PlanOf, DoneTasks, AllDone
<1> QED BY <1>3, <1>4 DEF Planned

LEMMA PrepareKeepsPlan ==
  ASSUME IInv, Planned, NEW p \in Procs, NEW n, op' = [ op EXCEPT ![p] = n ],
         UNCHANGED << status, proj >>, PlanOf(n.snap, n.event)
  PROVE  Planned'
<1>1. DOMAIN op = Procs
  BY DEF IInv, OpsInv
<1>2. \A q \in Procs : OpPlan(op[q])'
  BY <1>1 DEF Planned, OpPlan, PlanOf, DoneTasks, AllDone
<1> QED BY <1>2 DEF Planned, DependenciesRespected, SuccessCoversTasks

LEMMA ControlKeepsPlan ==
  ASSUME IInv, Planned, NEW p \in Procs,
         Approve(p) \/ Pause(p) \/ Resume(p) \/ Cancel(p)
  PROVE  Planned'
<1>1. ASSUME NEW cmd, NEW e, Prepare(p, cmd, e), PlanOf(proj, e)
      PROVE  Planned'
  <2> DEFINE n == [ op[p] EXCEPT !.pc = "commit", !.cmd = cmd, !.snap = proj,
                                 !.event = e, !.verdict = e.verdict ]
  <2>1. n.snap = proj /\ n.event = e
    BY DEF IInv, OpsInv, OpInv, Ops
  <2>2. op' = [ op EXCEPT ![p] = n ] /\ UNCHANGED << status, proj >>
    BY <1>1 DEF Prepare
  <2> HIDE DEF n
  <2> QED BY <1>1, <2>1, <2>2, PrepareKeepsPlan
<1>2. CASE Approve(p)
  <2> DEFINE e == [ Event("approval_resolved", proj.count) EXCEPT
                      !.iter = proj.iter, !.cause = proj.pending ]
             Den == [ e EXCEPT !.decision = "denied" ]
             App(t) == [ e EXCEPT !.decision = "approved", !.target = t ]
  <2>1. /\ Den.type = "approval_resolved" /\ Den.iter = proj.iter
        /\ \A t : App(t).type = "approval_resolved" /\ App(t).iter = proj.iter
    BY DEF Event
  <2>2. Prepare(p, "approve", Den) \/ \E t \in ResumeTargets : Prepare(p, "approve", App(t))
    BY <1>2 DEF Approve
  <2> HIDE DEF Den, App
  <2>3. PlanOf(proj, Den) /\ \A t : PlanOf(proj, App(t))
    BY <2>1 DEF PlanOf
  <2> QED BY <1>1, <2>2, <2>3
<1>3. CASE Pause(p)
  <2> DEFINE e == [ Event("run_paused", proj.count) EXCEPT !.iter = proj.iter ]
  <2>1. e.type = "run_paused" /\ e.iter = proj.iter /\ Prepare(p, "pause", e)
    BY <1>3 DEF Pause, Event
  <2> HIDE DEF e
  <2> QED BY <1>1, <2>1 DEF PlanOf
<1>4. CASE Resume(p)
  <2> DEFINE e == [ Event("run_resumed", proj.count) EXCEPT !.iter = proj.iter ]
  <2>1. e.type = "run_resumed" /\ e.iter = proj.iter /\ Prepare(p, "resume", e)
    BY <1>4 DEF Resume, Event
  <2> HIDE DEF e
  <2> QED BY <1>1, <2>1 DEF PlanOf
<1>5. CASE Cancel(p)
  <2> DEFINE e == [ Event("terminal_written", proj.count) EXCEPT
                      !.verdict = [ NoVerdict EXCEPT !.result = "AbortedByHuman" ] ]
  <2>1. e.type = "terminal_written" /\ e.verdict.result = "AbortedByHuman"
    BY DEF Event, NoVerdict
  <2>2. Prepare(p, "cancel", e)
    BY <1>5 DEF Cancel
  <2> HIDE DEF e
  <2> QED BY <1>1, <2>1, <2>2 DEF PlanOf
<1> QED BY <1>2, <1>3, <1>4, <1>5

LEMMA VerifyKeepsPlan ==
  ASSUME IInv, Planned, NEW p \in Procs, Verify(p)
  PROVE  Planned'
<1> DEFINE s == op[p].snap
           E(t, oc) == [ Event("iteration_appended", s.count) EXCEPT
                !.iter = s.iter + 1, !.task = t, !.bound = TRUE, !.outcome = oc ]
           n(t, oc) == [ op[p] EXCEPT !.pc = "commit", !.event = E(t, oc) ]
<1>1. PICK t \in Tasks, oc \in {"task_passed", "task_failed"} :
        IsNextTask(s, t) /\ op' = [ op EXCEPT ![p].pc = "commit", ![p].event = E(t, oc) ]
  <2>1. PICK t \in Tasks, result \in Results \ {"unlaunchable"} :
          /\ IsNextTask(s, t)
          /\ op' = [ op EXCEPT ![p].pc = "commit",
               ![p].event = E(t, IF result = "passed" THEN "task_passed" ELSE "task_failed") ]
    BY DEF Verify
  <2> QED BY <2>1
<1>2. op' = [ op EXCEPT ![p] = n(t, oc) ] /\ UNCHANGED << status, proj >>
  BY <1>1 DEF Verify
<1>3. /\ E(t, oc).type = "iteration_appended" /\ E(t, oc).task = t
      /\ E(t, oc).iter = s.iter + 1 /\ E(t, oc).target = None
  BY DEF Event
<1>4. t \notin DoneTasks(s) /\ DependsOn[t] \subseteq DoneTasks(s) /\ t # None
  BY <1>1, LoopRunAssumption DEF IsNextTask, Selectable
<1>7. s.state = "execute-task"
  BY DEF Verify, At, IInv, OpsInv, OpInv, Dispatching
<1>5. n(t, oc).snap = s /\ n(t, oc).event = E(t, oc)
  BY DEF IInv, OpsInv, OpInv, Ops
<1> HIDE DEF n, E
<1>6. PlanOf(s, E(t, oc))
  BY <1>3, <1>4, <1>7 DEF PlanOf
<1> QED BY <1>2, <1>5, <1>6, PrepareKeepsPlan

LEMMA ConcludeKeepsPlan ==
  ASSUME IInv, Planned, NEW p \in Procs, Conclude(p)
  PROVE  Planned'
<1> DEFINE s == op[p].snap
           v == AutoVerdict(s)
           e == [ Event("terminal_written", s.count) EXCEPT !.iter = s.iter, !.verdict = v ]
           n == [ op[p] EXCEPT !.pc = "commit", !.verdict = v, !.event = e ]
<1>1. op' = [ op EXCEPT ![p] = n ] /\ UNCHANGED << status, proj >> /\ AllDone(s)
  BY DEF Conclude
<1>5. s.state = "execute-task"
  BY DEF Conclude, At, IInv, OpsInv, OpInv, Dispatching
<1>2. e.type = "terminal_written"
  BY DEF Event
<1>3. n.snap = s /\ n.event = e
  BY DEF IInv, OpsInv, OpInv, Ops
<1> HIDE DEF n, e
<1>4. PlanOf(s, e)
  BY <1>1, <1>2, <1>5 DEF PlanOf
<1> QED BY <1>1, <1>3, <1>4, PrepareKeepsPlan

LEMMA OpeningKeepsPlan ==
  ASSUME Init
  PROVE  Planned
<1>1. /\ \A i \in DOMAIN proj.entries : proj.entries[i].task = None
      /\ proj.terminal.verdict.result = None
  BY DEF Init, OpeningProjection, EmptyProjection, NoTerminal, NoVerdict
<1>2. \A p \in Procs : op[p].pc = "idle"
  BY DEF Init, Idle
<1> QED BY <1>1, <1>2 DEF Planned, DependenciesRespected, SuccessCoversTasks, OpPlan, None

LEMMA NextKeepsPlan ==
  ASSUME "edit" \notin Commands, IInv, IInv', History, Planned, [Next]_vars
  PROVE  Planned'
<1>1. ASSUME NEW p \in Procs, Work(p) \/ Crash(p) PROVE Planned'
  BY <1>1, QuietSteps, WriteEvidenceQuiet, QuietKeepsPlan, CommitKeepsPlan,
     VerifyKeepsPlan, ConcludeKeepsPlan DEF Work
<1>2. ASSUME NEW p \in Procs, Invoke(p) PROVE Planned'
  BY <1>2, QuietSteps, QuietKeepsPlan, ControlKeepsPlan DEF Invoke
<1>3. CASE UNCHANGED vars
  BY <1>3, QuietKeepsPlan DEF vars
<1>4. ~EditTasks
  BY DEF EditTasks
<1> QED BY <1>1, <1>2, <1>3, <1>4, OrchestratorKeepsPlan DEF Next

\* While nobody edits TASKS.json, the log keeps to its plan.
THEOREM LoopRunPlanned ==
  ASSUME Tasks # {}, "edit" \notin Commands PROVE Spec => []Planned
<1>1. Init => Planned
  BY OpeningKeepsPlan
<1>2. IInv /\ IInv' /\ History /\ Planned /\ [Next]_vars => Planned'
  BY NextKeepsPlan
<1> QED BY <1>1, <1>2, LoopRunIInv, LoopRunHistory, PTL DEF Spec

\* A dispatch is recorded only after every task it depends on passed or was
\* declared done, for any dependency graph, cyclic ones included.
THEOREM LoopRunDependencies ==
  ASSUME Tasks # {}, "edit" \notin Commands PROVE Spec => []DependenciesRespected
<1>1. Planned => DependenciesRespected
  BY DEF Planned
<1> QED BY <1>1, LoopRunPlanned, PTL

\* A recorded success covers every task of the plan.
THEOREM LoopRunSuccessCovers ==
  ASSUME Tasks # {}, "edit" \notin Commands PROVE Spec => []SuccessCoversTasks
<1>1. Planned => SuccessCoversTasks
  BY DEF Planned
<1> QED BY <1>1, LoopRunPlanned, PTL

-----------------------------------------------------------------------------
(* The contract.                                                            *)

LEMMA ReduceOneState ==
  ASSUME NEW s \in Projections, NEW e \in Events, s.legal, ~Refused(s, e),
         e.type \notin {"contract_opened", "terminal_superseded"}
  PROVE  LET q == ReduceOne(s, e) IN
         /\ e.type = "iteration_appended" =>
              q.state = IF e.target = None THEN s.state ELSE e.target
         /\ e.type = "terminal_written" => q.state = TerminalMarker
         /\ e.type = "approval_requested" => q.state = ApprovalWait
         /\ e.type = "approval_resolved" =>
              q.state = IF e.decision = "approved" THEN e.target ELSE s.state
         /\ e.type \in {"receipt_appended", "run_paused", "run_resumed"} =>
              q.state = s.state
<1>1. ReduceOne(s, e) = [ Apply(s, e) EXCEPT !.count = s.count + 1 ]
  BY DEF ReduceOne
<1>2. CASE e.type = "iteration_appended"
  BY <1>1, <1>2 DEF Apply, WithIteration, Projections
<1>3. CASE e.type = "terminal_written"
  BY <1>1, <1>3 DEF Apply, WithTerminal, Projections
<1>4. CASE e.type = "approval_requested"
  BY <1>1, <1>4 DEF Apply, WithRequest, Projections
<1>5. CASE e.type = "approval_resolved"
  BY <1>1, <1>5 DEF Apply, WithResolution, Projections
<1>6. CASE e.type \in {"receipt_appended", "run_paused", "run_resumed"}
  BY <1>1, <1>6 DEF Apply, Projections
<1> QED BY <1>2, <1>3, <1>4, <1>5, <1>6 DEF Events, EventTypes

\* An entry more in the log is a line more in the ledger.
LEMMA LedgerGrows ==
  ASSUME proj.entries \in Seq(RunlogEntries), NEW x \in RunlogEntries,
         proj'.entries = Append(proj.entries, x)
  PROVE  LedgerOf(proj)' =
           Append(LedgerOf(proj),
                  [ iter |-> x.iter, task |-> x.task, passed |-> x.outcome = "task_passed" ])
<1> DEFINE Line(y) == [ iter |-> y.iter, task |-> y.task, passed |-> y.outcome = "task_passed" ]
           n == Len(proj.entries)
           led == LedgerOf(proj)
           new == Append(led, Line(x))
<1>1. n \in Nat /\ DOMAIN proj.entries = 1 .. n
  OBVIOUS
<1>2. /\ led = [ i \in 1 .. n |-> Line(proj.entries[i]) ]
      /\ led \in Seq({ Line(y) : y \in RunlogEntries })
      /\ Len(led) = n
  <2>1. led = [ i \in 1 .. n |-> Line(proj.entries[i]) ]
    BY <1>1 DEF LedgerOf
  <2> HIDE DEF led, Line
  <2> QED BY <1>1, <2>1
<1>3. DOMAIN proj'.entries = 1 .. n + 1
  BY <1>1
<1>4. \A i \in 1 .. n + 1 :
        proj'.entries[i] = IF i = n + 1 THEN x ELSE proj.entries[i]
  BY <1>1
<1>5. LedgerOf(proj)' = [ i \in 1 .. n + 1 |-> Line(proj'.entries[i]) ]
  BY <1>3 DEF LedgerOf
<1> HIDE DEF Line
<1>6. \A i \in 1 .. n + 1 :
        Line(proj'.entries[i]) = IF i = n + 1 THEN Line(x) ELSE led[i]
  BY <1>1, <1>2, <1>4
<1>7. new = [ i \in 1 .. n + 1 |-> IF i = n + 1 THEN Line(x) ELSE led[i] ]
  <2> HIDE DEF led
  <2>1. DOMAIN new = 1 .. n + 1
    BY <1>1, <1>2
  <2>2. \A i \in 1 .. n + 1 : new[i] = IF i = n + 1 THEN Line(x) ELSE led[i]
    BY <1>1, <1>2
  <2>3. new \in Seq({ Line(y) : y \in RunlogEntries })
    BY <1>2
  <2> HIDE DEF new
  <2> QED BY <2>1, <2>2, <2>3
<1>8. [ i \in 1 .. n + 1 |-> Line(proj'.entries[i]) ]
        = [ i \in 1 .. n + 1 |-> IF i = n + 1 THEN Line(x) ELSE led[i] ]
  <2> HIDE DEF led, n
  <2> QED BY <1>6
<1> HIDE DEF led, n
<1>9. LedgerOf(proj)' = new
  BY <1>5, <1>7, <1>8
<1> QED BY <1>9 DEF Line, led

\* The contract and the commands agree on what is done.
LEMMA ContractDone ==
  ASSUME proj.entries \in Seq(RunlogEntries), NEW t \in Tasks
  PROVE  t \in Contract!Done <=> t \in DoneTasks(proj)
<1>1. DOMAIN LedgerOf(proj) = DOMAIN proj.entries
  BY DEF LedgerOf
<1>2. \A i \in DOMAIN proj.entries :
        /\ LedgerOf(proj)[i].task = proj.entries[i].task
        /\ LedgerOf(proj)[i].passed = (proj.entries[i].outcome = "task_passed")
  BY DEF LedgerOf
<1>3. t # None
  BY LoopRunAssumption
<1>4. t \in Contract!Passed <=>
        \E i \in DOMAIN proj.entries :
          proj.entries[i].outcome = "task_passed" /\ proj.entries[i].task = t
  <2> DEFINE led == LedgerOf(proj)
  <2>1. t \in Contract!Passed <=>
          \E i \in DOMAIN led : led[i].passed /\ led[i].task = t
    BY DEF Contract!Passed
  <2> HIDE DEF led
  <2>2. /\ DOMAIN led = DOMAIN proj.entries
        /\ \A i \in DOMAIN proj.entries :
             /\ led[i].task = proj.entries[i].task
             /\ led[i].passed = (proj.entries[i].outcome = "task_passed")
    BY <1>1, <1>2 DEF led
  <2> QED BY <2>1, <2>2
<1>5. t \in PassedIn(proj) <=>
        \E i \in DOMAIN proj.entries :
          proj.entries[i].outcome = "task_passed" /\ proj.entries[i].task = t
  BY <1>3 DEF PassedIn
<1> QED BY <1>4, <1>5 DEF Contract!Done, DoneTasks

\* An append that keeps to the plan is a step of the contract.
LEMMA AppendIsContractStep ==
  ASSUME IInv, IInv', History, NEW e \in Events, Follows(proj, e), PlanOf(proj, e),
         AppendEvent(e), status' = status, terminal' = terminal
  PROVE  Contract!Next \/ UNCHANGED Contract!vars
<1> DEFINE x == [ e EXCEPT !.seq = Len(log) ]
<1>1. /\ proj \in Projections /\ proj.legal /\ proj'.legal /\ Len(log) \in Nat
      /\ proj.entries \in Seq(RunlogEntries) /\ proj.iter \in Nat
  BY DEF IInv, LogInv, Projections
<1>2. /\ x \in Events /\ x.type = e.type /\ x.iter = e.iter /\ x.task = e.task
      /\ x.outcome = e.outcome /\ x.target = e.target /\ x.decision = e.decision
      /\ x.verdict = e.verdict
  BY <1>1 DEF Events
<1>3. proj' = ReduceOne(proj, x)
  BY DEF AppendEvent
<1> HIDE DEF x
<1>4. ~Refused(proj, x) /\ x.type \notin {"contract_opened", "terminal_superseded"}
  BY <1>1, <1>2, <1>3 DEF ReduceOne, Illegal, EmptyProjection, Follows
<1>5. /\ proj.terminal = NoTerminal
      /\ proj'.iter = IF x.type \in {"receipt_appended", "terminal_written"}
                      THEN proj.iter ELSE x.iter
      /\ proj'.entries = IF x.type = "iteration_appended"
                         THEN Append(proj.entries, Entry(x)) ELSE proj.entries
      /\ proj'.terminal = IF x.type = "terminal_written"
                          THEN [ verdict |-> x.verdict, seq |-> x.seq ]
                          ELSE proj.terminal
  BY <1>1, <1>2, <1>3, <1>4, ReduceOneFields
<1>6. proj.terminal.verdict = NoVerdict
  BY <1>5 DEF NoTerminal
<1>7. x.type # "iteration_appended" => LedgerOf(proj)' = LedgerOf(proj)
  BY <1>5 DEF LedgerOf
<1>8. { t \in Tasks : status[t] = "done" }' = { t \in Tasks : status[t] = "done" }
  OBVIOUS
<1>9. CASE x.type = "iteration_appended"
  <2>1. Entry(x) \in RunlogEntries
    BY <1>2 DEF Events, Entry, RunlogEntries
  <2>2. LedgerOf(proj)' = Append(LedgerOf(proj),
          [ iter |-> proj.iter + 1, task |-> x.task, passed |-> x.outcome = "task_passed" ])
    <3>1. proj'.entries = Append(proj.entries, Entry(x))
      BY <1>5, <1>9
    <3>2. /\ Entry(x).iter = proj.iter + 1 /\ Entry(x).task = x.task
          /\ Entry(x).outcome = x.outcome
      BY <1>2, <1>9 DEF Entry, PlanOf
    <3> QED BY <1>1, <2>1, <3>1, <3>2, LedgerGrows
  <2>3. proj'.iter = proj.iter + 1
    BY <1>2, <1>5, <1>9 DEF PlanOf
  <2>4. proj'.terminal.verdict = proj.terminal.verdict
    BY <1>5, <1>9
  <2>5. CASE x.task = None
    <3>1. (x.outcome = "task_passed") = FALSE
      BY <1>2, <1>9, <2>5 DEF PlanOf
    <3>2. (proj'.state = "execute-task") \in BOOLEAN
      OBVIOUS
    <3>3. Contract!Record(None, FALSE)
      BY <2>2, <2>3, <2>5, <3>1 DEF Contract!Record
    <3>4. Contract!Steer
      BY <1>6, <1>8, <2>4, <3>2, <3>3 DEF Contract!Steer
    <3> QED BY <3>4 DEF Contract!Next
  <2>6. CASE x.task # None
    <3>1. /\ proj.state = "execute-task" /\ x.target = None
          /\ x.task \in Tasks \ DoneTasks(proj)
          /\ DependsOn[x.task] \subseteq DoneTasks(proj)
      BY <1>2, <1>9, <2>6 DEF PlanOf
    <3>2. proj'.state = "execute-task"
      BY <1>1, <1>2, <1>3, <1>4, <1>9, <3>1, ReduceOneState
    <3>3. Contract!Record(x.task, x.outcome = "task_passed")
      BY <2>2, <2>3 DEF Contract!Record
    <3>4. x.task \notin Contract!Done /\ DependsOn[x.task] \subseteq Contract!Done
      BY <1>1, <3>1, ContractDone, LoopRunAssumption
    <3>5. \E b \in BOOLEAN : Contract!Record(x.task, b)
      BY <3>3
    <3>6. Contract!Dispatch(x.task)
      BY <1>6, <1>8, <2>4, <3>1, <3>2, <3>4, <3>5 DEF Contract!Dispatch
    <3> QED BY <3>1, <3>6 DEF Contract!Next
  <2> QED BY <2>5, <2>6
<1>10. CASE x.type = "terminal_written"
  <2>1. proj'.terminal.verdict = x.verdict
    BY <1>5, <1>10
  <2>2. x.verdict \in Verdicts /\ VerdictAdmissible(x.verdict)
    BY <1>2, <1>4, <1>10 DEF Events, Refused, TerminalRefused
  <2>3. x.verdict.result = "Succeeded" =>
          proj.state = "execute-task" /\ Tasks \subseteq Contract!Done
    BY <1>1, <1>2, <1>10, ContractDone DEF PlanOf, AllDone
  <2>4. proj'.state # "execute-task"
    BY <1>1, <1>2, <1>3, <1>4, <1>10, ReduceOneState DEF TerminalMarker
  <2>5. (proj'.state = "execute-task") = FALSE
    BY <2>4
  <2>6. proj'.iter = proj.iter
    BY <1>5, <1>10
  <2>7. Contract!End
    BY <1>6, <1>7, <1>8, <1>10, <2>1, <2>2, <2>3, <2>5, <2>6 DEF Contract!End
  <2> QED BY <2>7 DEF Contract!Next
<1>11. CASE x.type = "approval_requested"
  <2>1. proj'.state # "execute-task"
    BY <1>1, <1>2, <1>3, <1>4, <1>11, ReduceOneState DEF ApprovalWait
  <2>2. (proj'.state = "execute-task") = FALSE
    BY <2>1
  <2>3. proj'.iter = proj.iter + 1 /\ proj'.terminal.verdict = proj.terminal.verdict
    BY <1>2, <1>5, <1>11 DEF PlanOf
  <2>4. Contract!Ask
    BY <1>6, <1>7, <1>8, <1>11, <2>2, <2>3 DEF Contract!Ask
  <2> QED BY <2>4 DEF Contract!Next
<1>12. CASE x.type = "approval_resolved"
  <2>1. proj.state = ApprovalWait
    BY <1>4, <1>12 DEF Refused, ResolutionRefused
  <2>2. (proj.state = "execute-task") = FALSE
    BY <2>1 DEF ApprovalWait
  <2>3. proj'.iter = proj.iter /\ proj'.terminal.verdict = proj.terminal.verdict
    BY <1>2, <1>5, <1>12 DEF PlanOf
  <2>4. CASE proj'.state = "execute-task"
    <3>1. Contract!Approve
      BY <1>6, <1>7, <1>8, <1>12, <2>2, <2>3, <2>4 DEF Contract!Approve
    <3> QED BY <3>1 DEF Contract!Next
  <2>5. CASE proj'.state # "execute-task"
    <3>1. (proj'.state = "execute-task") = (proj.state = "execute-task")
      BY <2>2, <2>5
    <3> QED BY <1>7, <1>8, <1>12, <2>3, <3>1 DEF Contract!vars
  <2> QED BY <2>4, <2>5
<1>13. CASE x.type \in {"receipt_appended", "run_paused", "run_resumed"}
  <2>1. proj'.state = proj.state
    BY <1>1, <1>2, <1>3, <1>4, <1>13, ReduceOneState
  <2>2. (proj'.state = "execute-task") = (proj.state = "execute-task")
    BY <2>1
  <2>3. proj'.iter = proj.iter /\ proj'.terminal.verdict = proj.terminal.verdict
    BY <1>2, <1>5, <1>13 DEF PlanOf
  <2> QED BY <1>7, <1>8, <1>13, <2>2, <2>3 DEF Contract!vars
<1> QED BY <1>2, <1>4, <1>9, <1>10, <1>11, <1>12, <1>13 DEF Events, EventTypes

\* A step that leaves the log alone publishes the end or is no step of the
\* contract.
LEMMA QuietIsContractStep ==
  ASSUME History, History', UNCHANGED << status, proj >>,
         terminal = NoVerdict \/ terminal' = terminal
  PROVE  Contract!Next \/ UNCHANGED Contract!vars
<1>1. /\ LedgerOf(proj)' = LedgerOf(proj) /\ proj.iter' = proj.iter
      /\ { t \in Tasks : status[t] = "done" }' = { t \in Tasks : status[t] = "done" }
      /\ (proj'.state = "execute-task") = (proj.state = "execute-task")
      /\ proj'.terminal.verdict = proj.terminal.verdict
  BY DEF LedgerOf
<1>2. CASE terminal' = terminal
  BY <1>1, <1>2 DEF Contract!vars
<1>3. CASE terminal' # terminal
  <2>1. terminal = NoVerdict /\ terminal' = proj.terminal.verdict
    BY <1>1, <1>3 DEF History
  <2>2. Contract!Publish
    BY <1>1, <1>3, <2>1 DEF Contract!Publish
  <2> QED BY <2>2 DEF Contract!Next
<1> QED BY <1>2, <1>3

\* The steps of a process but the append, for what the contract sees.
LEMMA StepsOffTheLog ==
  ASSUME NEW p \in Procs, Invoke(p) \/ Work(p) \/ Crash(p), ~Commit(p)
  PROVE  /\ UNCHANGED << status, proj >>
         /\ terminal = NoVerdict \/ terminal' = terminal
<1>1. CASE Crash(p)
  BY <1>1 DEF Crash, disk
<1>2. CASE Invoke(p)
  BY <1>2 DEF Invoke, RunReady, RunTerminal, Approve, Pause, Resume, Cancel, Prepare, disk
<1>3. CASE EndCreate(p)
  BY <1>3 DEF EndCreate
<1>4. CASE Work(p) /\ ~EndCreate(p)
  BY <1>4 DEF Work, Conflict, Reconcile, Verify, Conclude, GiveUp, WriteEvidence,
       WriteArtifact, MaterializeRead, MaterializeCheck, MaterializeBlock,
       MaterializeStamp, EndCheck, EndRead, EndStamp, SyncCheck, SyncRead, SyncStamp,
       Reread, DocRead, DocStamp, disk
<1> QED BY <1>1, <1>2, <1>3, <1>4

LEMMA OpeningIsContractInit ==
  ASSUME Init
  PROVE  Contract!Init
<1>1. /\ proj.iter = 4 /\ proj.state = "execute-task"
      /\ proj.terminal.verdict = NoVerdict /\ terminal = NoVerdict
  BY DEF Init, OpeningProjection, EmptyProjection, NoTerminal
<1>2. /\ Len(proj.entries) = 4 /\ proj.entries \in Seq(RunlogEntries)
      /\ \A i \in 1 .. 4 : /\ proj.entries[i].iter = i /\ proj.entries[i].task = None
                           /\ proj.entries[i].outcome = "replanned"
  <2> DEFINE x(n) == [ seq |-> n, iter |-> n, task |-> None, outcome |-> "replanned",
                       state |-> OpeningStates[n] ]
  <2>1. proj.entries = [ n \in 1 .. 4 |-> x(n) ]
    BY DEF Init, OpeningProjection, EmptyProjection
  <2>2. \A n \in 1 .. 4 : x(n) \in RunlogEntries
    BY DEF OpeningStates, RunlogEntries, AllStates, NonTerminalStates, Outcomes
  <2>3. \A n \in 1 .. 4 : x(n).iter = n /\ x(n).task = None /\ x(n).outcome = "replanned"
    OBVIOUS
  <2> HIDE DEF x
  <2> QED BY <2>1, <2>2, <2>3
<1>3. LedgerOf(proj) = [ i \in 1 .. 4 |-> [ iter |-> i, task |-> None, passed |-> FALSE ] ]
  <2>1. DOMAIN proj.entries = 1 .. 4
    BY <1>2
  <2> QED BY <1>2, <2>1 DEF LedgerOf
<1>4. LedgerOf(proj) \in Seq([ iter : 0 .. proj.iter, task : {None}, passed : {FALSE} ])
  BY <1>1, <1>3
<1>5. { t \in Tasks : status[t] = "done" } \in SUBSET Tasks
  OBVIOUS
<1>6. (proj.state = "execute-task") = TRUE
  BY <1>1
<1> QED BY <1>1, <1>4, <1>5, <1>6 DEF Contract!Init

\* The commands implement the contract: whatever any number of processes do to
\* the log and to terminal_state.json, racing, conflicting and killed, is one
\* step of RunContract or none, while nobody edits TASKS.json.
THEOREM LoopRunImplementsRunContract ==
  ASSUME Tasks # {}, "edit" \notin Commands PROVE Spec => ImplementsRunContract
<1>1. Init => Contract!Init
  BY OpeningIsContractInit
<1>2. ASSUME IInv, IInv', History, History', Planned, [Next]_vars
      PROVE  Contract!Next \/ UNCHANGED Contract!vars
  <2>1. ASSUME NEW p \in Procs, Commit(p)
        PROVE  Contract!Next \/ UNCHANGED Contract!vars
    <3>1. /\ op[p].event \in Events /\ Follows(proj, op[p].event)
          /\ PlanOf(proj, op[p].event)
      BY <1>2, <2>1, CommitReads DEF History, OpTrace, Planned, OpPlan
    <3>2. AppendEvent(op[p].event) /\ UNCHANGED << status, terminal >>
      BY <2>1 DEF Commit, disk
    <3> QED BY <1>2, <3>1, <3>2, AppendIsContractStep
  <2>2. ASSUME NEW p \in Procs, Invoke(p) \/ Work(p) \/ Crash(p)
        PROVE  Contract!Next \/ UNCHANGED Contract!vars
    BY <1>2, <2>1, <2>2, StepsOffTheLog, QuietIsContractStep
  <2>3. CASE RequestApproval \/ Advance
    <3>1. UNCHANGED << status, terminal >>
      BY <2>3 DEF RequestApproval, Advance, disk
    <3> QED BY <1>2, <2>3, <3>1, OrchestratorAppends, AppendIsContractStep
  <2>4. CASE UNCHANGED vars
    BY <1>2, <2>4, QuietIsContractStep DEF vars
  <2>5. ~EditTasks
    BY DEF EditTasks
  <2> QED BY <1>2, <2>2, <2>3, <2>4, <2>5 DEF Next
<1>3. IInv /\ IInv' /\ History /\ History' /\ Planned /\ [Next]_vars
        => [Contract!Next]_(Contract!vars)
  BY <1>2
<1> QED BY <1>1, <1>3, LoopRunIInv, LoopRunHistory, LoopRunPlanned, PTL
        DEF Spec, ImplementsRunContract, Contract!Spec

-----------------------------------------------------------------------------
(* What a verified success rests on.  The strict bar is judged before the    *)
(* append; what it saw holds of the log that is appended to, if it is the     *)
(* one that was read.                                                        *)

Backed(v) ==
  v.result = "Succeeded" /\ v.policy = VerifiedEvidence =>
    /\ \A i \in v.evidence :
         /\ BoundOnce(i)
         /\ {"object", "record", "bundle"} \X {i} \subseteq files
    /\ \A t \in Tasks : \E k \in DOMAIN proj.entries :
         /\ proj.entries[k].task = t
         /\ proj.entries[k].outcome = "task_passed"
         /\ proj.entries[k].iter \in v.evidence

\* An event that ends the run, prepared from the log that is still the last.
OpBacked(o) ==
  /\ o.pc = "record" => << "object", o.event.iter >> \in files
  /\ o.pc = "commit" /\ o.event.type = "terminal_written" =>
       /\ ~o.event.bound
       /\ o.snap = proj => Backed(o.event.verdict)

Backing ==
  /\ \A f \in files : f[1] = "record" => << "object", f[2] >> \in files
  /\ VerifiedSuccessBacked
  /\ \A p \in Procs : OpBacked(op[p])

LEMMA BoundOnceStays ==
  ASSUME log \in Seq(Events), NEW x, log' = Append(log, x), ~x.bound,
         NEW i, BoundOnce(i)
  PROVE  BoundOnce(i)'
<1>1. PICK k \in DOMAIN log :
        /\ log[k].bound /\ log[k].iter = i
        /\ \A m \in DOMAIN log : log[m].bound /\ log[m].iter = i => m = k
  BY DEF BoundOnce
<1>2. /\ DOMAIN log' = 1 .. Len(log) + 1 /\ DOMAIN log = 1 .. Len(log)
      /\ Len(log) \in Nat
      /\ \A m \in DOMAIN log : log'[m] = log[m]
      /\ log'[Len(log) + 1] = x
  OBVIOUS
<1>3. k \in DOMAIN log' /\ log'[k].bound /\ log'[k].iter = i
  BY <1>1, <1>2
<1>4. \A m \in DOMAIN log' : log'[m].bound /\ log'[m].iter = i => m = k
  BY <1>1, <1>2
<1> QED BY <1>3, <1>4 DEF BoundOnce

\* Evidence files are only added.
LEMMA BackedStays ==
  ASSUME NEW v, Backed(v), UNCHANGED << log, proj >>, files \subseteq files'
  PROVE  Backed(v)'
BY DEF Backed, BoundOnce

LEMMA QuietKeepsBacking ==
  ASSUME Backing, UNCHANGED << log, proj, files >>,
         \A q \in Procs : op'[q] = op[q] \/ op'[q].pc \notin {"commit", "record"}
  PROVE  Backing'
<1>1. \A v : Backed(v) => Backed(v)'
  BY BackedStays
<1>2. \A q \in Procs : OpBacked(op[q])'
  BY <1>1 DEF Backing, OpBacked
<1>3. VerifiedSuccessBacked'
  BY DEF Backing, VerifiedSuccessBacked, BoundOnce
<1> QED BY <1>2, <1>3 DEF Backing

LEMMA WriteEvidenceKeepsBacking ==
  ASSUME IInv, Backing, NEW p \in Procs, WriteEvidence(p)
  PROVE  Backing'
<1>1. ASSUME NEW kind \in {"object", "record", "bundle"},
             NEW then \in {"record", "bundle", "mat_read"}, WriteArtifact(p, kind, then),
             then = "record" => kind = "object"
      PROVE  Backing'
  <2> DEFINE i == op[p].event.iter
  <2>1. /\ UNCHANGED << log, proj >>
        /\ files' = files \cup { << kind, i >> }
        /\ op'[p].pc = then /\ op'[p].event = op[p].event
        /\ \A q \in Procs \ {p} : op'[q] = op[q]
    BY <1>1, EvidenceSteps
  <2>2. \A v : Backed(v) => Backed(v)'
    BY <2>1, BackedStays
  <2>3. op[p].pc = kind
    BY <1>1 DEF WriteArtifact, At
  <2>4. kind = "record" => << "object", i >> \in files
    BY <2>3 DEF Backing, OpBacked
  <2>5. \A f \in files' : f[1] = "record" => << "object", f[2] >> \in files'
    BY <2>1, <2>4 DEF Backing
  <2>6. OpBacked(op[p])'
    BY <1>1, <2>1 DEF OpBacked
  <2>7. \A q \in Procs \ {p} : OpBacked(op[q])'
    BY <2>1, <2>2 DEF Backing, OpBacked
  <2>8. VerifiedSuccessBacked'
    BY <2>1 DEF Backing, VerifiedSuccessBacked, BoundOnce
  <2> QED BY <2>5, <2>6, <2>7, <2>8 DEF Backing
<1> QED BY <1>1 DEF WriteEvidence

LEMMA PrepareKeepsBacking ==
  ASSUME IInv, Backing, NEW p \in Procs, NEW n, op' = [ op EXCEPT ![p] = n ],
         UNCHANGED << log, proj, files >>, n.pc = "commit",
         n.event.type = "terminal_written" =>
           /\ ~n.event.bound
           /\ n.snap = proj => Backed(n.event.verdict)
  PROVE  Backing'
<1>1. \A v : Backed(v) => Backed(v)'
  BY BackedStays
<1>2. DOMAIN op = Procs
  BY DEF IInv, OpsInv
<1>3. \A q \in Procs : OpBacked(op[q])'
  BY <1>1, <1>2 DEF Backing, OpBacked
<1>4. VerifiedSuccessBacked'
  BY DEF Backing, VerifiedSuccessBacked, BoundOnce
<1> QED BY <1>3, <1>4 DEF Backing

LEMMA ControlKeepsBacking ==
  ASSUME IInv, Backing, NEW p \in Procs,
         Approve(p) \/ Pause(p) \/ Resume(p) \/ Cancel(p)
  PROVE  Backing'
<1>1. ASSUME NEW cmd, NEW e, Prepare(p, cmd, e),
             e.type = "terminal_written" =>
               ~e.bound /\ e.verdict.result # "Succeeded"
      PROVE  Backing'
  <2> DEFINE n == [ op[p] EXCEPT !.pc = "commit", !.cmd = cmd, !.snap = proj,
                                 !.event = e, !.verdict = e.verdict ]
  <2>1. n.pc = "commit" /\ n.event = e
    BY DEF IInv, OpsInv, OpInv, Ops
  <2>2. op' = [ op EXCEPT ![p] = n ] /\ UNCHANGED << log, proj, files >>
    BY <1>1 DEF Prepare, disk
  <2> HIDE DEF n
  <2>3. e.type = "terminal_written" => Backed(e.verdict)
    BY <1>1 DEF Backed
  <2> QED BY <1>1, <2>1, <2>2, <2>3, PrepareKeepsBacking
<1>2. CASE Approve(p)
  <2> DEFINE e == [ Event("approval_resolved", proj.count) EXCEPT
                      !.iter = proj.iter, !.cause = proj.pending ]
             Den == [ e EXCEPT !.decision = "denied" ]
             App(t) == [ e EXCEPT !.decision = "approved", !.target = t ]
  <2>1. Den.type = "approval_resolved" /\ \A t : App(t).type = "approval_resolved"
    BY DEF Event
  <2>2. Prepare(p, "approve", Den) \/ \E t \in ResumeTargets : Prepare(p, "approve", App(t))
    BY <1>2 DEF Approve
  <2> HIDE DEF Den, App
  <2> QED BY <1>1, <2>1, <2>2
<1>3. CASE Pause(p)
  <2> DEFINE e == [ Event("run_paused", proj.count) EXCEPT !.iter = proj.iter ]
  <2>1. e.type = "run_paused" /\ Prepare(p, "pause", e)
    BY <1>3 DEF Pause, Event
  <2> HIDE DEF e
  <2> QED BY <1>1, <2>1
<1>4. CASE Resume(p)
  <2> DEFINE e == [ Event("run_resumed", proj.count) EXCEPT !.iter = proj.iter ]
  <2>1. e.type = "run_resumed" /\ Prepare(p, "resume", e)
    BY <1>4 DEF Resume, Event
  <2> HIDE DEF e
  <2> QED BY <1>1, <2>1
<1>5. CASE Cancel(p)
  <2> DEFINE e == [ Event("terminal_written", proj.count) EXCEPT
                      !.verdict = [ NoVerdict EXCEPT !.result = "AbortedByHuman" ] ]
  <2>1. ~e.bound /\ e.verdict.result = "AbortedByHuman"
    BY DEF Event, NoVerdict
  <2>2. Prepare(p, "cancel", e)
    BY <1>5 DEF Cancel
  <2> HIDE DEF e
  <2> QED BY <1>1, <2>1, <2>2
<1> QED BY <1>2, <1>3, <1>4, <1>5

LEMMA VerifyKeepsBacking ==
  ASSUME IInv, Backing, NEW p \in Procs, Verify(p)
  PROVE  Backing'
<1> DEFINE s == op[p].snap
           E(t, oc) == [ Event("iteration_appended", s.count) EXCEPT
                !.iter = s.iter + 1, !.task = t, !.bound = TRUE, !.outcome = oc ]
           n(t, oc) == [ op[p] EXCEPT !.pc = "commit", !.event = E(t, oc) ]
<1>1. PICK t \in Tasks, oc \in {"task_passed", "task_failed"} :
        op' = [ op EXCEPT ![p].pc = "commit", ![p].event = E(t, oc) ]
  <2>1. PICK t \in Tasks, result \in Results \ {"unlaunchable"} :
          op' = [ op EXCEPT ![p].pc = "commit",
            ![p].event = E(t, IF result = "passed" THEN "task_passed" ELSE "task_failed") ]
    BY DEF Verify
  <2> QED BY <2>1
<1>2. op' = [ op EXCEPT ![p] = n(t, oc) ] /\ UNCHANGED << log, proj, files >>
  BY <1>1 DEF Verify, disk
<1>3. E(t, oc).type = "iteration_appended"
  BY DEF Event
<1>4. n(t, oc).pc = "commit" /\ n(t, oc).event = E(t, oc)
  BY DEF IInv, OpsInv, OpInv, Ops
<1> HIDE DEF n, E
<1> QED BY <1>2, <1>3, <1>4, PrepareKeepsBacking

\* The strict bar, if it is met by the log that is still the last one.
LEMMA ConcludeKeepsBacking ==
  ASSUME IInv, Backing, NEW p \in Procs, Conclude(p)
  PROVE  Backing'
<1> DEFINE s == op[p].snap
           v == AutoVerdict(s)
           e == [ Event("terminal_written", s.count) EXCEPT !.iter = s.iter, !.verdict = v ]
           n == [ op[p] EXCEPT !.pc = "commit", !.verdict = v, !.event = e ]
<1>1. op' = [ op EXCEPT ![p] = n ] /\ UNCHANGED << log, proj, files >>
  BY DEF Conclude, disk
<1>2. e.type = "terminal_written" /\ ~e.bound /\ e.verdict = v
  BY DEF Event
<1>3. n.pc = "commit" /\ n.event = e /\ n.snap = s
  BY DEF IInv, OpsInv, OpInv, Ops
<1>4. ASSUME s = proj PROVE Backed(v)
  <2> DEFINE cited == UNION { RecordsOf(s, t) : t \in Tasks }
  <2> SUFFICES ASSUME v.policy = VerifiedEvidence
               PROVE  /\ \A i \in v.evidence :
                           /\ BoundOnce(i)
                           /\ {"object", "record", "bundle"} \X {i} \subseteq files
                      /\ \A t \in Tasks : \E k \in DOMAIN proj.entries :
                           /\ proj.entries[k].task = t
                           /\ proj.entries[k].outcome = "task_passed"
                           /\ proj.entries[k].iter \in v.evidence
    BY DEF Backed
  <2>1. /\ \A t \in Tasks : RecordsOf(s, t) # {}
        /\ MeetsStrictBar(cited)
        /\ v.evidence = cited
    BY DEF AutoVerdict, AllRequired, VerifiedEvidence
  <2> HIDE DEF v
  <2>2. ASSUME NEW i \in cited
        PROVE  BoundOnce(i) /\ {"object", "record", "bundle"} \X {i} \subseteq files
    <3>1. BoundOnce(i) /\ << "record", i >> \in files /\ << "bundle", i >> \in files
      BY <2>1 DEF MeetsStrictBar
    <3>2. << "object", i >> \in files
      BY <3>1 DEF Backing
    <3> QED BY <3>1, <3>2
  <2>3. ASSUME NEW t \in Tasks
        PROVE  \E k \in DOMAIN proj.entries :
                 /\ proj.entries[k].task = t
                 /\ proj.entries[k].outcome = "task_passed"
                 /\ proj.entries[k].iter \in cited
    <3>1. PICK i \in RecordsOf(s, t) : TRUE
      BY <2>1
    <3>2. i \in cited
      OBVIOUS
    <3> HIDE DEF cited
    <3> QED BY <1>4, <3>1, <3>2 DEF RecordsOf
  <2> HIDE DEF cited
  <2> QED BY <2>1, <2>2, <2>3
<1> HIDE DEF n, e, v
<1> QED BY <1>1, <1>2, <1>3, <1>4, PrepareKeepsBacking

\* After an append no projection that was read before is the last one.
LEMMA AppendKeepsOpBacked ==
  ASSUME IInv, IInv', Backing, NEW x, log' = Append(log, x), files' = files,
         NEW q \in Procs, op'[q] = op[q]
  PROVE  OpBacked(op[q])'
<1>1. CASE op[q].pc = "commit"
  <2>1. /\ op[q].snap.count <= proj.count /\ op[q].snap.count \in Nat
        /\ proj.count \in Nat /\ proj'.count = proj.count + 1
    BY <1>1 DEF IInv, LogInv, OpsInv, OpInv, Current, Ops, Projections
  <2>2. op[q].snap # proj'
    BY <2>1
  <2> QED BY <1>1, <2>2 DEF Backing, OpBacked
<1>2. CASE op[q].pc # "commit"
  BY <1>2 DEF Backing, OpBacked
<1> QED BY <1>1, <1>2

LEMMA CommitKeepsBacking ==
  ASSUME IInv, IInv', History, Backing, NEW p \in Procs, Commit(p)
  PROVE  Backing'
<1> DEFINE o == op[p]  e == o.event  x == [ e EXCEPT !.seq = Len(log) ]
           n == [ o EXCEPT !.pc = AfterCommit(o) ]
<1>1. o.pc = "commit" /\ o.snap = proj /\ e \in Events
  BY CommitReads
<1>2. Follows(proj, e) /\ AppendEvent(e)
  BY <1>1 DEF History, OpTrace, Commit
<1>3. /\ log' = Append(log, x) /\ files' = files /\ op' = [ op EXCEPT ![p] = n ]
  BY DEF Commit, AppendEvent, Goto, disk
<1>4. x.bound = e.bound
  BY <1>1 DEF Events
<1>5. /\ proj.terminal = NoTerminal
      /\ proj'.terminal = IF e.type = "terminal_written"
           THEN [ verdict |-> e.verdict, seq |-> Len(log) ] ELSE proj.terminal
      /\ e.type = "terminal_written" => proj'.entries = proj.entries
  BY <1>1, <1>2, AppendKeepsTrace
<1>6. n.pc \notin {"commit", "record"} /\ DOMAIN op = Procs
  BY DEF IInv, OpsInv, OpInv, Ops, AfterCommit
<1> HIDE DEF n, x
<1>7. OpBacked(op[p])'
  BY <1>3, <1>6 DEF OpBacked
<1>8. \A q \in Procs \ {p} : OpBacked(op[q])'
  BY <1>3, <1>6, AppendKeepsOpBacked
<1>9. VerifiedSuccessBacked'
  <2>1. CASE e.type = "terminal_written"
    <3>1. ~e.bound /\ Backed(e.verdict)
      BY <1>1, <2>1 DEF Backing, OpBacked
    <3>2. \A i : BoundOnce(i) => BoundOnce(i)'
      BY <1>3, <1>4, <3>1, BoundOnceStays DEF IInv, LogInv
    <3> QED BY <1>3, <1>5, <2>1, <3>1, <3>2 DEF Backed, VerifiedSuccessBacked
  <2>2. CASE e.type # "terminal_written"
    BY <1>5, <2>2 DEF VerifiedSuccessBacked, NoTerminal, NoVerdict, None
  <2> QED BY <2>1, <2>2
<1> QED BY <1>3, <1>7, <1>8, <1>9 DEF Backing

LEMMA OrchestratorLeavesRunOpen ==
  ASSUME IInv, IInv', RequestApproval \/ Advance
  PROVE  proj'.terminal = NoTerminal
<1> DEFINE Asks(x) == /\ proj' = ReduceOne(proj, x)
                       /\ x.type \in {"approval_requested", "iteration_appended"}
<1>1. PICK x : Asks(x)
  <2>1. CASE RequestApproval
    <3> DEFINE x == [ [ Event("approval_requested", proj.count) EXCEPT
                          !.iter = proj.iter + 1 ] EXCEPT !.seq = Len(log) ]
    <3>1. proj' = ReduceOne(proj, x)
      BY <2>1 DEF RequestApproval, AppendEvent
    <3>2. x.type = "approval_requested"
      BY DEF Event
    <3> HIDE DEF x
    <3> QED BY <3>1, <3>2
  <2>2. CASE Advance
    <3>1. PICK t : AppendEvent([ Event("iteration_appended", proj.count) EXCEPT
                       !.iter = proj.iter + 1, !.outcome = "replanned",
                       !.target = t ])
      BY <2>2 DEF Advance
    <3> DEFINE x == [ [ Event("iteration_appended", proj.count) EXCEPT
                          !.iter = proj.iter + 1, !.outcome = "replanned",
                          !.target = t ] EXCEPT !.seq = Len(log) ]
    <3>2. proj' = ReduceOne(proj, x)
      BY <3>1 DEF AppendEvent
    <3>3. x.type = "iteration_appended"
      BY DEF Event
    <3> HIDE DEF x
    <3> QED BY <3>2, <3>3
  <2> QED BY <2>1, <2>2
<1>2. proj \in Projections /\ proj'.legal /\ proj.terminal = NoTerminal
  BY DEF IInv, LogInv, RequestApproval, Advance
<1>3. proj' = [ Apply(proj, x) EXCEPT !.count = proj.count + 1 ]
  BY <1>1, <1>2 DEF ReduceOne, Illegal, EmptyProjection
<1>4. CASE x.type = "approval_requested"
  BY <1>2, <1>3, <1>4 DEF Apply, WithRequest, Projections
<1>5. CASE x.type = "iteration_appended"
  BY <1>2, <1>3, <1>5 DEF Apply, WithIteration, Projections
<1> QED BY <1>1, <1>4, <1>5

LEMMA OrchestratorKeepsBacking ==
  ASSUME IInv, IInv', History, History', Backing, RequestApproval \/ Advance
  PROVE  Backing'
<1>1. PICK x : log' = Append(log, x)
  BY DEF RequestApproval, Advance, AppendEvent
<1>2. UNCHANGED << files, op >>
  BY DEF RequestApproval, Advance, disk
<1>3. \A q \in Procs : OpBacked(op[q])'
  BY <1>1, <1>2, AppendKeepsOpBacked
<1>4. proj'.terminal = NoTerminal
  BY OrchestratorLeavesRunOpen
<1>5. VerifiedSuccessBacked'
  BY <1>4 DEF VerifiedSuccessBacked, NoTerminal, NoVerdict, None
<1> QED BY <1>2, <1>3, <1>5 DEF Backing

LEMMA NextKeepsBacking ==
  ASSUME IInv, IInv', History, History', Backing, [Next]_vars
  PROVE  Backing'
<1>1. ASSUME NEW p \in Procs, Work(p) \/ Crash(p) PROVE Backing'
  BY <1>1, QuietSteps, QuietKeepsBacking, WriteEvidenceKeepsBacking,
     CommitKeepsBacking, VerifyKeepsBacking, ConcludeKeepsBacking DEF Work
<1>2. ASSUME NEW p \in Procs, Invoke(p) PROVE Backing'
  BY <1>2, QuietSteps, QuietKeepsBacking, ControlKeepsBacking DEF Invoke
<1>3. CASE UNCHANGED vars \/ EditTasks
  BY <1>3, QuietKeepsBacking DEF vars, EditTasks, disk
<1> QED BY <1>1, <1>2, <1>3, OrchestratorKeepsBacking DEF Next

\* A success under the verified-evidence policy is true of the disk and of the
\* log: each record it cites was bound once and is there with its bundle and
\* its object, and every task has one.
THEOREM LoopRunVerifiedSuccess ==
  ASSUME Tasks # {} PROVE Spec => []VerifiedSuccessBacked
<1>1. Init => Backing
  <2> SUFFICES ASSUME Init PROVE Backing
    OBVIOUS
  <2>1. files = {} /\ proj.terminal = NoTerminal /\ \A p \in Procs : op[p].pc = "idle"
    BY DEF Init, Idle, OpeningProjection, EmptyProjection
  <2> QED BY <2>1 DEF Backing, OpBacked, VerifiedSuccessBacked, NoTerminal, NoVerdict, None
<1>2. IInv /\ IInv' /\ History /\ History' /\ Backing /\ [Next]_vars => Backing'
  BY NextKeepsBacking
<1>3. Backing => VerifiedSuccessBacked
  BY DEF Backing
<1> QED BY <1>1, <1>2, <1>3, LoopRunIInv, LoopRunHistory, PTL DEF Spec
=============================================================================
