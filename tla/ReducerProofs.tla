--------------------------- MODULE ReducerProofs ----------------------------
(***************************************************************************)
(* Lemmas about the operators of the reducer: the type of an event and of  *)
(* a projection, and what one step of the fold preserves.  They hold for   *)
(* every set of tasks and are used by the proofs about Replay and LoopRun. *)
(***************************************************************************)
EXTENDS Reducer, TLAPS

LEMMA NoVerdictTyped == NoVerdict \in Verdicts
BY DEF NoVerdict, Verdicts, AllRequired, CompletionModes

LEMMA EventTyped ==
  ASSUME NEW type \in EventTypes, NEW seq \in Nat
  PROVE  /\ Event(type, seq) \in Events
         /\ Event(type, seq).type = type
BY NoVerdictTyped DEF Event, Events

\* Setting the fields that an event of a given type carries.
LEMMA IterationFieldsTyped ==
  ASSUME NEW e \in Events, NEW i \in Nat, NEW t \in Tasks \cup {None},
         NEW s \in AllStates \cup {None}, NEW o \in Outcomes \cup {None}
  PROVE  [ e EXCEPT !.iter = i, !.task = t, !.target = s, !.outcome = o ]
           \in Events
BY DEF Events

LEMMA ResolutionFieldsTyped ==
  ASSUME NEW e \in Events, NEW i \in Nat, NEW c \in Nat \cup {NoEvent},
         NEW d \in {"approved", "denied", None},
         NEW s \in AllStates \cup {None}
  PROVE  /\ [ e EXCEPT !.iter = i, !.cause = c, !.decision = d ] \in Events
         /\ [ e EXCEPT !.iter = i, !.cause = c, !.decision = d,
                       !.target = s ] \in Events
<1>1. [ e EXCEPT !.iter = i, !.cause = c, !.decision = d ] \in Events
  BY DEF Events
<1>2. [ e EXCEPT !.iter = i, !.cause = c, !.decision = d, !.target = s ]
        \in Events
  BY DEF Events
<1> QED BY <1>1, <1>2

LEMMA DecisionFieldsTyped ==
  ASSUME NEW e \in Events, NEW v \in Verdicts,
         NEW c \in Nat \cup {NoEvent}
  PROVE  [ e EXCEPT !.verdict = v, !.cause = c ] \in Events
BY DEF Events

LEMMA EmptyProjectionTyped ==
  EmptyProjection \in Projections /\ Illegal \in Projections
<1>1. NoTerminal \in TerminalRecords
  BY NoVerdictTyped DEF NoTerminal, TerminalRecords
<1>2. << >> \in Seq(RunlogEntries) /\ << >> \in Seq(TerminalRecords)
  OBVIOUS
<1>3. EmptyProjection \in Projections
  BY <1>1, <1>2 DEF EmptyProjection, Projections
<1> QED BY <1>3 DEF Illegal, Projections

\* The fields of a projection and of an event have their types.
LEMMA EntryTyped ==
  ASSUME NEW e \in Events PROVE Entry(e) \in RunlogEntries
BY DEF Events, Entry, RunlogEntries

\* One step of the fold yields a projection.
LEMMA ReduceOneTyped ==
  ASSUME NEW p \in Projections, NEW e \in Events
  PROVE  ReduceOne(p, e) \in Projections
<1>1. CASE ~p.legal \/ Refused(p, e)
  BY <1>1, EmptyProjectionTyped DEF ReduceOne
<1>2. CASE ~(~p.legal \/ Refused(p, e))
  <2>0. ReduceOne(p, e) = [ Apply(p, e) EXCEPT !.count = p.count + 1 ]
    BY <1>2 DEF ReduceOne
  <2>1. Apply(p, e) \in Projections
    <3>1. CASE e.type = "contract_opened"
      BY <3>1 DEF Apply, Projections, AllStates, NonTerminalStates
    <3>2. CASE e.type = "iteration_appended"
      <4>0. Append(p.entries, Entry(e)) \in Seq(RunlogEntries)
        <5>1. p.entries \in Seq(RunlogEntries)
          BY DEF Projections
        <5> QED BY <5>1, EntryTyped
      <4>1. WithIteration(p, e) \in Projections
        BY <4>0 DEF WithIteration, Projections, Events
      <4> QED BY <3>2, <4>1 DEF Apply
    <3>3. CASE e.type = "receipt_appended"
      BY <3>3 DEF Apply
    <3>4. CASE e.type = "terminal_written"
      <4>1. WithTerminal(p, e) \in Projections
        BY DEF WithTerminal, Projections, Events, TerminalRecords, AllStates
      <4> QED BY <3>4, <4>1 DEF Apply
    <3>5. CASE e.type = "terminal_superseded"
      <4>0. Append(p.history, p.terminal) \in Seq(TerminalRecords)
        BY DEF Projections
      <4>1. WithSupersession(p, e) \in Projections
        BY <4>0 DEF WithSupersession, Projections, Events, TerminalRecords
      <4> QED BY <3>5, <4>1 DEF Apply
    <3>6. CASE e.type = "approval_requested"
      <4>1. WithRequest(p, e) \in Projections
        BY DEF WithRequest, Projections, Events, AllStates, NonTerminalStates
      <4> QED BY <3>6, <4>1 DEF Apply
    <3>7. CASE e.type = "approval_resolved"
      <4>1. WithResolution(p, e) \in Projections
        BY DEF WithResolution, Projections, Events
      <4> QED BY <3>7, <4>1 DEF Apply
    <3>8. CASE e.type = "run_paused"
      BY <3>8 DEF Apply, Projections, Events
    <3>9. CASE e.type = "run_resumed"
      BY <3>9 DEF Apply, Projections, Events
    <3> QED
      BY <3>1, <3>2, <3>3, <3>4, <3>5, <3>6, <3>7, <3>8, <3>9
         DEF Events, EventTypes
  <2>2. p.count + 1 \in Nat
    BY DEF Projections
  <2> QED BY <2>0, <2>1, <2>2 DEF Projections
<1> QED BY <1>1, <1>2

-----------------------------------------------------------------------------

\* Every decision of a projection passes the completion gate.
Gated(p) ==
  /\ p.terminal # NoTerminal => VerdictAdmissible(p.terminal.verdict)
  /\ \A i \in DOMAIN p.history : VerdictAdmissible(p.history[i].verdict)

LEMMA ReduceOneGated ==
  ASSUME NEW p \in Projections, NEW e \in Events, Gated(p)
  PROVE  Gated(ReduceOne(p, e))
<1> DEFINE q == ReduceOne(p, e)
<1>1. CASE ~p.legal \/ Refused(p, e)
  <2>1. q = Illegal
    BY <1>1 DEF ReduceOne
  <2> QED BY <2>1 DEF Illegal, EmptyProjection, Gated
<1>2. CASE p.legal /\ ~Refused(p, e)
  <2>0. q = [ Apply(p, e) EXCEPT !.count = p.count + 1 ]
    BY <1>2 DEF ReduceOne
  <2>1. CASE e.type = "terminal_written"
    <3>1. q.history = p.history
      BY <2>0, <2>1 DEF Apply, WithTerminal, Projections
    <3>2. q.terminal = [ verdict |-> e.verdict, seq |-> e.seq ]
      BY <2>0, <2>1 DEF Apply, WithTerminal, Projections
    <3>3. VerdictAdmissible(e.verdict)
      BY <1>2, <2>1 DEF Refused, TerminalRefused
    <3> QED BY <3>1, <3>2, <3>3 DEF Gated
  <2>2. CASE e.type = "terminal_superseded"
    <3>1. q.history = Append(p.history, p.terminal)
      BY <2>0, <2>2 DEF Apply, WithSupersession, Projections
    <3>2. q.terminal = [ verdict |-> e.verdict, seq |-> e.seq ]
      BY <2>0, <2>2 DEF Apply, WithSupersession, Projections
    <3>3. VerdictAdmissible(e.verdict)
      BY <1>2, <2>2 DEF Refused, SupersessionRefused
    <3>4. VerdictAdmissible(p.terminal.verdict)
      BY <1>2, <2>2 DEF Refused, EnvelopeRefused, Gated
    <3>5. p.history \in Seq(TerminalRecords) /\ p.terminal \in TerminalRecords
      BY DEF Projections
    <3>6. \A i \in DOMAIN q.history : VerdictAdmissible(q.history[i].verdict)
      BY <3>1, <3>4, <3>5 DEF Gated
    <3> QED BY <3>2, <3>3, <3>6 DEF Gated
  <2>3. CASE e.type \notin {"terminal_written", "terminal_superseded"}
    <3>1. q.history = p.history /\ q.terminal = p.terminal
      BY <2>0, <2>3 DEF Apply, WithIteration, WithRequest, WithResolution,
                        Projections, Events, EventTypes
    <3> QED BY <3>1 DEF Gated
  <2> QED BY <2>1, <2>2, <2>3
<1> QED BY <1>1, <1>2

-----------------------------------------------------------------------------

\* After a terminal, only a supersession that cites it is folded.
LEMMA ReduceOneKeepsTerminal ==
  ASSUME NEW p \in Projections, NEW e \in Events,
         p.terminal # NoTerminal, ReduceOne(p, e).legal
  PROVE  /\ ReduceOne(p, e).state = p.state
         /\ e.cause = p.terminal.seq
         /\ ReduceOne(p, e).history = Append(p.history, p.terminal)
<1>1. p.legal /\ ~Refused(p, e)
  BY DEF ReduceOne, Illegal, EmptyProjection
<1>2. e.type = "terminal_superseded"
  BY <1>1 DEF Refused, EnvelopeRefused
<1>3. ReduceOne(p, e) =
        [ WithSupersession(p, e) EXCEPT !.count = p.count + 1 ]
  BY <1>1, <1>2 DEF ReduceOne, Apply
<1>4. e.cause = p.terminal.seq
  BY <1>1, <1>2 DEF Refused, SupersessionRefused
<1> QED BY <1>3, <1>4 DEF WithSupersession, Projections

\* Only the empty projection has no state before any event.
Opened(p) == p.count = 0 => p.state = None

LEMMA ReduceOneOpened ==
  ASSUME NEW p \in Projections, NEW e \in Events
  PROVE  Opened(ReduceOne(p, e))
<1>1. CASE ~p.legal \/ Refused(p, e)
  BY <1>1 DEF ReduceOne, Illegal, EmptyProjection, Opened
<1>2. CASE p.legal /\ ~Refused(p, e)
  <2>1. ReduceOne(p, e) = [ Apply(p, e) EXCEPT !.count = p.count + 1 ]
    BY <1>2 DEF ReduceOne
  <2>2. ReduceOne(p, e).count = p.count + 1
    BY <1>2, <2>1, ReduceOneTyped DEF Projections
  <2> QED BY <2>2 DEF Opened, Projections
<1> QED BY <1>1, <1>2

\* One step of the fold takes one legal transition.
LEMMA ReduceOneTransition ==
  ASSUME NEW p \in Projections, NEW e \in Events, Opened(p),
         p.state # None, ReduceOne(p, e).legal
  PROVE  IsLegalTransition(p.state, ReduceOne(p, e).state)
<1>1. p.legal /\ ~Refused(p, e)
  BY DEF ReduceOne, Illegal, EmptyProjection
<1>2. ReduceOne(p, e) = [ Apply(p, e) EXCEPT !.count = p.count + 1 ]
  BY <1>1 DEF ReduceOne
<1> DEFINE q == ReduceOne(p, e)
<1>3. CASE e.type = "contract_opened"
  <2>1. p.count = 0
    BY <1>1, <1>3 DEF Refused, EnvelopeRefused
  <2> QED BY <2>1 DEF Opened
<1>4. CASE e.type = "iteration_appended"
  <2>1. q.state = IF e.target = None THEN p.state ELSE e.target
    BY <1>2, <1>4 DEF Apply, WithIteration, Projections
  <2>2. e.target # None => IsLegalTransition(p.state, e.target)
    BY <1>1, <1>4 DEF Refused, IterationRefused
  <2> QED BY <2>1, <2>2 DEF IsLegalTransition
<1>5. CASE e.type = "terminal_written"
  <2>1. q.state = TerminalMarker
    BY <1>2, <1>5 DEF Apply, WithTerminal, Projections
  <2>2. IsLegalTransition(p.state, TerminalMarker)
    BY <1>1, <1>5 DEF Refused, TerminalRefused
  <2> QED BY <2>1, <2>2
<1>6. CASE e.type = "approval_requested"
  <2>1. q.state = ApprovalWait
    BY <1>2, <1>6 DEF Apply, WithRequest, Projections
  <2>2. IsLegalTransition(p.state, ApprovalWait)
    BY <1>1, <1>6 DEF Refused, ApprovalRequestRefused
  <2> QED BY <2>1, <2>2
<1>7. CASE e.type = "approval_resolved"
  <2>1. q.state = IF e.decision = "approved" THEN e.target ELSE p.state
    BY <1>2, <1>7 DEF Apply, WithResolution, Projections
  <2>2. e.decision = "approved" =>
          p.state = ApprovalWait /\ e.target \in LegalTargets(ApprovalWait)
    BY <1>1, <1>7 DEF Refused, ResolutionRefused, ResumeTargets
  <2> QED BY <2>1, <2>2 DEF IsLegalTransition
<1>8. CASE e.type \in {"receipt_appended", "terminal_superseded",
                       "run_paused", "run_resumed"}
  <2>1. q.state = p.state
    BY <1>2, <1>8 DEF Apply, WithSupersession, Projections
  <2> QED BY <2>1 DEF IsLegalTransition
<1> QED
  BY <1>3, <1>4, <1>5, <1>6, <1>7, <1>8 DEF Events, EventTypes
=============================================================================
