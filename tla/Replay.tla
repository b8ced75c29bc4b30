------------------------------- MODULE Replay -------------------------------
(***************************************************************************)
(* Streams an event store may hold, and their replay.  SQLiteEventStore    *)
(* checks the shape of an event and nothing else, so any well-formed event *)
(* can follow any other; the domain rules are enforced when the stream is  *)
(* folded (repo-os-contract section 16, "two-layer enforcement").  Here an *)
(* arbitrary writer appends, and proj is the fold of log after every       *)
(* append: reduce_events resumed from its previous snapshot.               *)
(***************************************************************************)
EXTENDS Reducer, FiniteSets

CONSTANTS
  Iterations,      \* iteration ids writers use
  Targets,         \* FSM states writers name
  VerdictSet,      \* verdicts writers record
  MaxEvents        \* bound: longest stream

ASSUME ReplayAssumption ==
  /\ Iterations \subseteq Nat
  /\ Targets \subseteq AllStates
  /\ VerdictSet \subseteq Verdicts
  /\ MaxEvents \in Nat
  /\ None \notin Tasks

VARIABLES log, proj

vars == << log, proj >>

NextSequence == Len(log)

Store(e) ==
  /\ Len(log) < MaxEvents
  /\ log' = Append(log, e)
  /\ proj' = ReduceOne(proj, e)

Init ==
  /\ log = << >>
  /\ proj = EmptyProjection

OpenContract == Store(Event("contract_opened", NextSequence))

AppendIteration ==
  \E i \in Iterations, t \in Tasks \cup {None}, s \in Targets \cup {None},
     o \in {"task_passed", "replanned"} :
    Store([ Event("iteration_appended", NextSequence) EXCEPT
              !.iter = i, !.task = t, !.target = s, !.outcome = o ])

AppendReceipt ==
  \E i \in Iterations :
    Store([ Event("receipt_appended", NextSequence) EXCEPT !.iter = i ])

WriteTerminal ==
  \E v \in VerdictSet :
    Store([ Event("terminal_written", NextSequence) EXCEPT !.verdict = v ])

SupersedeTerminal ==
  \E v \in VerdictSet, c \in {NoEvent} \cup 0 .. Len(log) - 1 :
    Store([ Event("terminal_superseded", NextSequence) EXCEPT
              !.verdict = v, !.cause = c ])

RequestApproval ==
  \E i \in Iterations :
    Store([ Event("approval_requested", NextSequence) EXCEPT !.iter = i ])

ResolveApproval ==
  \E i \in Iterations, c \in {NoEvent} \cup 0 .. Len(log) - 1 :
    \/ \E s \in Targets :
         Store([ Event("approval_resolved", NextSequence) EXCEPT
                   !.iter = i, !.cause = c, !.decision = "approved",
                   !.target = s ])
    \/ Store([ Event("approval_resolved", NextSequence) EXCEPT
                 !.iter = i, !.cause = c, !.decision = "denied" ])

PauseRun ==
  \E i \in Iterations :
    Store([ Event("run_paused", NextSequence) EXCEPT !.iter = i ])

ResumeRun ==
  \E i \in Iterations :
    Store([ Event("run_resumed", NextSequence) EXCEPT !.iter = i ])

Next ==
  \/ OpenContract \/ AppendIteration \/ AppendReceipt
  \/ WriteTerminal \/ SupersedeTerminal
  \/ RequestApproval \/ ResolveApproval
  \/ PauseRun \/ ResumeRun

Spec == Init /\ [][Next]_vars

-----------------------------------------------------------------------------
(* Views of the stream that the properties relate the projection to.       *)

TerminalTypes == {"terminal_written", "terminal_superseded"}

DecisionOf(e) == [ verdict |-> e.verdict, seq |-> e.seq ]

\* The decisions the projection knows of, oldest first.
RecordedDecisions ==
  IF proj.terminal = NoTerminal THEN << >>
  ELSE Append(proj.history, proj.terminal)

-----------------------------------------------------------------------------
(* Properties.                                                             *)

\* The variables have their types: events are well-formed and a projection
\* of the reducer's shape comes out of every fold.
TypeOK ==
  /\ log \in Seq(Events)
  /\ proj \in Projections

\* No replay ever yields, as the effective decision or in the superseded
\* history, a verdict outside the seven terminal states or a Succeeded that
\* misses the completion gate (G1): corrections pass the same gate as the
\* record they correct.
EveryDecisionPassesGate ==
  /\ proj.terminal # NoTerminal => VerdictAdmissible(proj.terminal.verdict)
  /\ \A i \in DOMAIN proj.history :
       VerdictAdmissible(proj.history[i].verdict)

\* The audit trail is complete: in a legal stream the superseded history
\* followed by the effective terminal is exactly the terminal events of the
\* stream, oldest first, and each correction cites the one before it.
AuditTrailComplete ==
  proj.legal =>
    LET told == RecordedDecisions IN
      /\ \A k \in DOMAIN log :
           log[k].type \in TerminalTypes =>
             \E i \in DOMAIN told : told[i] = DecisionOf(log[k])
      /\ \A i \in DOMAIN told :
           \E k \in DOMAIN log :
             /\ log[k].type \in TerminalTypes
             /\ told[i] = DecisionOf(log[k])
             /\ i > 1 => /\ told[i - 1].seq < told[i].seq
                         /\ log[k].cause = told[i - 1].seq

\* In a legal stream every resolution answers the latest request made before
\* it, and no request is answered twice, whatever iterations, pauses and
\* denied decisions come in between.
ResolutionsAnswerRequests ==
  proj.legal =>
    \A i \in DOMAIN log :
      log[i].type = "approval_resolved" =>
        \E r \in 1 .. i - 1 :
          /\ log[r].type = "approval_requested"
          /\ log[r].seq = log[i].cause
          /\ \A k \in r + 1 .. i - 1 :
               log[k].type \notin {"approval_requested", "approval_resolved"}

\* The last mark among the first n events is a pause.
PausedAfter(n) ==
  \E j \in 1 .. n :
    /\ log[j].type = "run_paused"
    /\ \A k \in j + 1 .. n : log[k].type # "run_resumed"

\* Pauses and resumes alternate in a legal stream, beginning with a pause,
\* and the overlay flag says which came last.
PausesAlternate ==
  proj.legal =>
    /\ \A i \in DOMAIN log :
         /\ log[i].type = "run_paused" => ~PausedAfter(i - 1)
         /\ log[i].type = "run_resumed" => PausedAfter(i - 1)
    /\ proj.paused <=> PausedAfter(Len(log))

\* A recorded terminal never changes except by a supersession that cites it,
\* and the run never leaves the terminal state afterwards.
TerminalImmutable ==
  [][ /\ proj.terminal # NoTerminal
      /\ proj'.legal
      => /\ proj'.state = proj.state
         /\ \/ proj'.terminal = proj.terminal
            \/ /\ log'[Len(log')].cause = proj.terminal.seq
               /\ proj'.history = Append(proj.history, proj.terminal) ]_vars

\* Whatever is appended, one fold step moves the run along one legal FSM
\* transition: resolutions, requests and terminals included.
OnlyLegalTransitions ==
  [][ proj.state # None /\ proj'.legal =>
        IsLegalTransition(proj.state, proj'.state) ]_vars

\* A wait opened by the lightweight iteration_appended path has no structured
\* request, so no resolution consumes it: between a request and the
\* resolution that answers it the run never left approval-wait.
LightweightWaitNotResolvable ==
  proj.legal =>
    \A i \in DOMAIN log :
      log[i].type = "approval_resolved" =>
        \A k \in log[i].cause + 2 .. i - 1 :
          log[k].type = "iteration_appended" =>
            log[k].target \in {None, ApprovalWait}
=============================================================================
