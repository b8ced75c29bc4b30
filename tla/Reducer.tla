------------------------------ MODULE Reducer ------------------------------
(***************************************************************************)
(* The event@1 records of one run and the deterministic left fold of       *)
(* loop/reducer.py that projects a stream of them into a run state, with   *)
(* the completion semantics of loop/completion.py.                         *)
(*                                                                         *)
(* An event's uuid is represented by its sequence number (both are unique  *)
(* in a run; only causation_id compares uuids).  Text payloads - pause     *)
(* reason, request, summary, note, timestamps - carry no control and are   *)
(* left out, and receipts are only counted.  A refused event makes the     *)
(* projection Illegal: reduce_events raises, so no longer prefix folds.    *)
(*                                                                         *)
(* Here and in LoopRun, a definition introduced as a seeded fault is not   *)
(* part of the specification: it is the one after it with a bug put in,    *)
(* and shows that a property the runs check would notice that bug.         *)
(***************************************************************************)
EXTENDS Fsm, Integers, Sequences, SequencesExt

CONSTANT Tasks                  \* task ids that events may name

None == "none"                  \* JSON null in a string-valued field
NoEvent == -1                   \* JSON null where an event id is expected

EventTypes ==
  {"contract_opened", "iteration_appended", "receipt_appended",
   "terminal_written", "terminal_superseded", "approval_requested",
   "approval_resolved", "run_paused", "run_resumed"}

Outcomes ==
  {"task_passed", "task_failed", "repair_triggered", "approval_requested",
   "replanned", "terminal"}

TerminalStates ==
  {"Succeeded", "FailedUnverifiable", "FailedBlocked", "FailedBudget",
   "FailedSafety", "FailedSpecGap", "AbortedByHuman"}

-----------------------------------------------------------------------------
(* Completion.  A criteria map is empty, has a value other than True, or   *)
(* is all True.  A citation is 0 for a plain path such as RUNLOG.md, and n *)
(* for the record .loop/evidence/evidence-iter<n>.json.                    *)

RunlogCitation == 0

AllRequired == "all_required"
VerifiedEvidence == "all_required_verified_evidence"
CompletionModes == {AllRequired, VerifiedEvidence}
UnknownMode == "unknown"        \* any mode the kernel does not define

Verdicts ==
  [ result : TerminalStates \cup {None}, criteria : {"empty", "unmet", "met"},
    evidence : SUBSET Nat, policy : CompletionModes \cup {UnknownMode},
    falseCompletion : BOOLEAN ]

NoVerdict ==
  [ result |-> None, criteria |-> "empty", evidence |-> {},
    policy |-> AllRequired, falseCompletion |-> FALSE ]

RecordShaped(evidence) == RunlogCitation \notin evidence

\* The G1 gate on a Succeeded verdict.
SatisfiesCompletion(v) ==
  /\ ~v.falseCompletion
  /\ v.policy \in CompletionModes
  /\ v.criteria = "met"
  /\ v.evidence # {}
  /\ v.policy = VerifiedEvidence => RecordShaped(v.evidence)

VerdictAdmissible(v) ==
  /\ v.result \in TerminalStates
  /\ v.result = "Succeeded" => SatisfiesCompletion(v)

-----------------------------------------------------------------------------
(* Events.  "target" is iteration_appended's optional state and            *)
(* approval_resolved's resume_target; "bound" says that artifact_hashes    *)
(* bind the verify bundle, its record and its object.                      *)

Events ==
  [ type : EventTypes, seq : Nat, cause : Nat \cup {NoEvent}, iter : Nat,
    task : Tasks \cup {None}, outcome : Outcomes \cup {None},
    target : AllStates \cup {None}, decision : {"approved", "denied", None},
    verdict : Verdicts, bound : BOOLEAN ]

Event(type, seq) ==
  [ type |-> type, seq |-> seq, cause |-> NoEvent, iter |-> 0, task |-> None,
    outcome |-> None, target |-> None, decision |-> None,
    verdict |-> NoVerdict, bound |-> FALSE ]

-----------------------------------------------------------------------------
(* Projections.                                                            *)

RunlogEntries ==
  [ seq : Nat, iter : Nat, task : Tasks \cup {None},
    outcome : Outcomes \cup {None}, state : AllStates \cup {None} ]

TerminalRecords == [ verdict : Verdicts, seq : Nat \cup {NoEvent} ]
NoTerminal == [ verdict |-> NoVerdict, seq |-> NoEvent ]

Projections ==
  [ legal : BOOLEAN, state : AllStates \cup {None}, iter : Nat,
    active : Tasks \cup {None}, terminal : TerminalRecords,
    entries : Seq(RunlogEntries), history : Seq(TerminalRecords),
    count : Nat, paused : BOOLEAN, pending : Nat \cup {NoEvent} ]

EmptyProjection ==
  [ legal |-> TRUE, state |-> None, iter |-> 0, active |-> None,
    terminal |-> NoTerminal, entries |-> << >>, history |-> << >>,
    count |-> 0, paused |-> FALSE, pending |-> NoEvent ]

\* The outcome of an EventReplayError.
Illegal == [ EmptyProjection EXCEPT !.legal = FALSE ]

-----------------------------------------------------------------------------
(* The conditions under which the reducer raises, by event type.           *)

\* Seeded fault: a terminal record does not close the run.
EnvelopeRefusedOpenEnd(p, e) ==
  \/ e.seq # p.count
  \/ p.terminal = NoTerminal /\ e.type = "terminal_superseded"
  \/ p.count # 0 /\ e.type = "contract_opened"
  \/ p.state = None /\ e.type # "contract_opened"

\* A log here is of one run; whether a stored row links to the one before it
\* is EventStore's.
EnvelopeRefused(p, e) ==
  \/ e.seq # p.count
  \/ p.terminal # NoTerminal /\ e.type # "terminal_superseded"
  \/ p.terminal = NoTerminal /\ e.type = "terminal_superseded"
  \/ p.count # 0 /\ e.type = "contract_opened"
  \/ p.state = None /\ e.type # "contract_opened"

\* Seeded fault: a known state is enough, adjacency is not checked.
IterationRefusedByNameOnly(p, e) ==
  e.target # None /\ e.target \notin AllStates

IterationRefused(p, e) ==
  /\ e.target # None
  /\ \/ e.target \notin AllStates
     \/ ~IsLegalTransition(p.state, e.target)

TerminalRefused(p, e) ==
  \/ ~IsLegalTransition(p.state, TerminalMarker)
  \/ ~VerdictAdmissible(e.verdict)

\* Seeded fault: a correction is exempt from the gate.
SupersessionRefusedUngated(p, e) == e.cause # p.terminal.seq

SupersessionRefused(p, e) ==
  \/ e.cause # p.terminal.seq
  \/ ~VerdictAdmissible(e.verdict)

ApprovalRequestRefused(p) == ~IsLegalTransition(p.state, ApprovalWait)

ResolutionRefused(p, e) ==
  \/ p.state # ApprovalWait
  \/ p.pending = NoEvent
  \/ e.cause # p.pending
  \/ e.decision = "approved" /\ e.target \notin ResumeTargets

\* Seeded fault: a run that is not paused can be resumed.
OverlayRefusedPauseOnly(p, e) == e.type = "run_paused" /\ p.paused

OverlayRefused(p, e) ==
  \/ e.type = "run_paused" /\ p.paused
  \/ e.type = "run_resumed" /\ ~p.paused

Refused(p, e) ==
  \/ EnvelopeRefused(p, e)
  \/ e.type = "iteration_appended" /\ IterationRefused(p, e)
  \/ e.type = "terminal_written" /\ TerminalRefused(p, e)
  \/ e.type = "terminal_superseded" /\ SupersessionRefused(p, e)
  \/ e.type = "approval_requested" /\ ApprovalRequestRefused(p)
  \/ e.type = "approval_resolved" /\ ResolutionRefused(p, e)
  \/ OverlayRefused(p, e)

-----------------------------------------------------------------------------
(* What each accepted event changes.                                       *)

Entry(e) ==
  [ seq |-> e.seq, iter |-> e.iter, task |-> e.task, outcome |-> e.outcome,
    state |-> e.target ]

WithIteration(p, e) ==
  [ p EXCEPT !.state = IF e.target = None THEN @ ELSE e.target,
             !.iter = e.iter,
             !.active = IF e.task = None THEN @ ELSE e.task,
             !.entries = Append(@, Entry(e)) ]

WithTerminal(p, e) ==
  [ p EXCEPT !.state = TerminalMarker,
             !.terminal = [ verdict |-> e.verdict, seq |-> e.seq ] ]

\* Seeded fault: the corrected record is dropped.
WithSupersessionForgetful(p, e) ==
  [ p EXCEPT !.terminal = [ verdict |-> e.verdict, seq |-> e.seq ] ]

WithSupersession(p, e) ==
  [ p EXCEPT !.history = Append(@, p.terminal),
             !.terminal = [ verdict |-> e.verdict, seq |-> e.seq ] ]

WithRequest(p, e) ==
  [ p EXCEPT !.state = ApprovalWait, !.iter = e.iter, !.pending = e.seq ]

\* Seeded fault: a resolution leaves the request pending.
WithResolutionStillPending(p, e) ==
  [ p EXCEPT !.state = IF e.decision = "approved" THEN e.target ELSE @,
             !.iter = e.iter ]

WithResolution(p, e) ==
  [ p EXCEPT !.state = IF e.decision = "approved" THEN e.target ELSE @,
             !.pending = NoEvent, !.iter = e.iter ]

Apply(p, e) ==
  CASE e.type = "contract_opened" ->
         [ p EXCEPT !.state = "intake", !.iter = 0 ]
    [] e.type = "iteration_appended" -> WithIteration(p, e)
    [] e.type = "receipt_appended" -> p
    [] e.type = "terminal_written" -> WithTerminal(p, e)
    [] e.type = "terminal_superseded" -> WithSupersession(p, e)
    [] e.type = "approval_requested" -> WithRequest(p, e)
    [] e.type = "approval_resolved" -> WithResolution(p, e)
    [] e.type = "run_paused" ->
         [ p EXCEPT !.paused = TRUE, !.iter = e.iter ]
    [] e.type = "run_resumed" ->
         [ p EXCEPT !.paused = FALSE, !.iter = e.iter ]

\* Seeded fault: the last sequence number is kept one short.
ReduceOneShort(p, e) ==
  IF ~p.legal \/ Refused(p, e) THEN Illegal
  ELSE [ Apply(p, e) EXCEPT !.count = e.seq - 1 ]

\* One step of the fold; Illegal absorbs.
ReduceOne(p, e) ==
  IF ~p.legal \/ Refused(p, e) THEN Illegal
  ELSE [ Apply(p, e) EXCEPT !.count = p.count + 1 ]

\* reduce_events over a whole stream.
Reduce(log) == FoldLeft(ReduceOne, EmptyProjection, log)
=============================================================================
