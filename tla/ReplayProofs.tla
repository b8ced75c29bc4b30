---------------------------- MODULE ReplayProofs ----------------------------
(***************************************************************************)
(* Proofs about the fold of an arbitrary stream, for every set of tasks,   *)
(* iteration ids, verdicts and named states, and streams of any length.    *)
(*                                                                         *)
(* Every action of Replay stores one well-formed event (NextStores), so    *)
(* each result reduces to one fact about ReduceOne, proved by cases on the *)
(* type of the event.                                                      *)
(***************************************************************************)
EXTENDS ReducerProofs, Replay

\* Whatever an arbitrary writer does, it appends one well-formed event.
LEMMA NextStores ==
  ASSUME TypeOK, Next
  PROVE  \E e \in Events : Store(e)
<1>0. NextSequence \in Nat
  BY DEF TypeOK, NextSequence
<1>1. CASE OpenContract
  BY <1>0, <1>1, EventTyped DEF OpenContract, EventTypes
<1>2. CASE AppendIteration
  <2>1. PICK i \in Iterations, t \in Tasks \cup {None},
             s \in Targets \cup {None}, o \in {"task_passed", "replanned"} :
          Store([ Event("iteration_appended", NextSequence) EXCEPT
                    !.iter = i, !.task = t, !.target = s, !.outcome = o ])
    BY <1>2 DEF AppendIteration
  <2>2. i \in Nat /\ s \in AllStates \cup {None} /\ o \in Outcomes
    BY ReplayAssumption DEF Outcomes
  <2>3. Event("iteration_appended", NextSequence) \in Events
    BY <1>0, EventTyped DEF EventTypes
  <2>4. [ Event("iteration_appended", NextSequence) EXCEPT
            !.iter = i, !.task = t, !.target = s, !.outcome = o ] \in Events
    BY <2>2, <2>3, IterationFieldsTyped
  <2> QED BY <2>1, <2>4
<1>3. CASE AppendReceipt
  <2>1. PICK i \in Iterations :
          Store([ Event("receipt_appended", NextSequence) EXCEPT !.iter = i ])
    BY <1>3 DEF AppendReceipt
  <2>2. [ Event("receipt_appended", NextSequence) EXCEPT !.iter = i ]
          \in Events
    BY <1>0, ReplayAssumption, EventTyped DEF EventTypes, Events
  <2> QED BY <2>1, <2>2
<1>4. CASE WriteTerminal
  <2>1. PICK v \in VerdictSet :
          Store([ Event("terminal_written", NextSequence) EXCEPT
                    !.verdict = v ])
    BY <1>4 DEF WriteTerminal
  <2>2. [ Event("terminal_written", NextSequence) EXCEPT !.verdict = v ]
          \in Events
    BY <1>0, ReplayAssumption, EventTyped DEF EventTypes, Events
  <2> QED BY <2>1, <2>2
<1>5. CASE SupersedeTerminal
  <2>1. PICK v \in VerdictSet, c \in {NoEvent} \cup 0 .. Len(log) - 1 :
          Store([ Event("terminal_superseded", NextSequence) EXCEPT
                    !.verdict = v, !.cause = c ])
    BY <1>5 DEF SupersedeTerminal
  <2>2. c \in Nat \cup {NoEvent}
    BY DEF TypeOK
  <2>3. Event("terminal_superseded", NextSequence) \in Events
    BY <1>0, EventTyped DEF EventTypes
  <2>4. [ Event("terminal_superseded", NextSequence) EXCEPT
            !.verdict = v, !.cause = c ] \in Events
    BY <2>2, <2>3, ReplayAssumption, DecisionFieldsTyped
  <2> QED BY <2>1, <2>4
<1>6. CASE RequestApproval
  <2>1. PICK i \in Iterations :
          Store([ Event("approval_requested", NextSequence) EXCEPT
                    !.iter = i ])
    BY <1>6 DEF RequestApproval
  <2>2. [ Event("approval_requested", NextSequence) EXCEPT !.iter = i ]
          \in Events
    BY <1>0, ReplayAssumption, EventTyped DEF EventTypes, Events
  <2> QED BY <2>1, <2>2
<1>7. CASE ResolveApproval
  <2>1. PICK i \in Iterations, c \in {NoEvent} \cup 0 .. Len(log) - 1 :
          \/ \E s \in Targets :
               Store([ Event("approval_resolved", NextSequence) EXCEPT
                         !.iter = i, !.cause = c, !.decision = "approved",
                         !.target = s ])
          \/ Store([ Event("approval_resolved", NextSequence) EXCEPT
                       !.iter = i, !.cause = c, !.decision = "denied" ])
    BY <1>7 DEF ResolveApproval
  <2>2. c \in Nat \cup {NoEvent} /\ i \in Nat
    BY ReplayAssumption DEF TypeOK
  <2>3. Event("approval_resolved", NextSequence) \in Events
    BY <1>0, EventTyped DEF EventTypes
  <2>4. ASSUME NEW s \in Targets
        PROVE  [ Event("approval_resolved", NextSequence) EXCEPT
                   !.iter = i, !.cause = c, !.decision = "approved",
                   !.target = s ] \in Events
    BY <2>2, <2>3, ReplayAssumption, ResolutionFieldsTyped
  <2>5. [ Event("approval_resolved", NextSequence) EXCEPT
            !.iter = i, !.cause = c, !.decision = "denied" ] \in Events
    BY <2>2, <2>3, ResolutionFieldsTyped
  <2> QED BY <2>1, <2>4, <2>5
<1>8. CASE PauseRun
  <2>1. PICK i \in Iterations :
          Store([ Event("run_paused", NextSequence) EXCEPT !.iter = i ])
    BY <1>8 DEF PauseRun
  <2>2. [ Event("run_paused", NextSequence) EXCEPT !.iter = i ] \in Events
    BY <1>0, ReplayAssumption, EventTyped DEF EventTypes, Events
  <2> QED BY <2>1, <2>2
<1>9. CASE ResumeRun
  <2>1. PICK i \in Iterations :
          Store([ Event("run_resumed", NextSequence) EXCEPT !.iter = i ])
    BY <1>9 DEF ResumeRun
  <2>2. [ Event("run_resumed", NextSequence) EXCEPT !.iter = i ] \in Events
    BY <1>0, ReplayAssumption, EventTyped DEF EventTypes, Events
  <2> QED BY <2>1, <2>2
<1> QED
  BY <1>1, <1>2, <1>3, <1>4, <1>5, <1>6, <1>7, <1>8, <1>9 DEF Next

-----------------------------------------------------------------------------

\* The fold of any stream of well-formed events is a projection.
THEOREM ReplayTypeOK == Spec => []TypeOK
<1>1. Init => TypeOK
  BY EmptyProjectionTyped DEF Init, TypeOK
<1>2. TypeOK /\ [Next]_vars => TypeOK'
  <2> SUFFICES ASSUME TypeOK, [Next]_vars PROVE TypeOK'
    OBVIOUS
  <2>1. CASE Next
    <3>1. PICK e \in Events : Store(e)
      BY <2>1, NextStores
    <3> QED BY <3>1, ReduceOneTyped DEF TypeOK, Store
  <2>2. CASE UNCHANGED vars
    BY <2>2 DEF vars, TypeOK
  <2> QED BY <2>1, <2>2
<1> QED BY <1>1, <1>2, PTL DEF Spec

\* Every decision a replay yields, effective or superseded, passes the gate.
THEOREM ReplayGate == Spec => []EveryDecisionPassesGate
<1>1. Init => EveryDecisionPassesGate
  BY DEF Init, EveryDecisionPassesGate, EmptyProjection
<1>2. TypeOK /\ EveryDecisionPassesGate /\ [Next]_vars
        => EveryDecisionPassesGate'
  <2> SUFFICES ASSUME TypeOK, EveryDecisionPassesGate, [Next]_vars
               PROVE  EveryDecisionPassesGate'
    OBVIOUS
  <2>1. CASE Next
    <3>1. PICK e \in Events : Store(e)
      BY <2>1, NextStores
    <3>2. Gated(proj)
      BY DEF Gated, EveryDecisionPassesGate
    <3>3. Gated(proj')
      BY <3>1, <3>2, ReduceOneGated DEF TypeOK, Store
    <3> QED BY <3>3 DEF Gated, EveryDecisionPassesGate
  <2>2. CASE UNCHANGED vars
    BY <2>2 DEF vars, EveryDecisionPassesGate
  <2> QED BY <2>1, <2>2
<1> QED BY <1>1, <1>2, ReplayTypeOK, PTL DEF Spec

\* A recorded terminal changes only by a supersession that cites it, and the
\* superseded record is kept.
THEOREM ReplayTerminalImmutable == Spec => TerminalImmutable
<1> DEFINE Kept ==
      proj.terminal # NoTerminal /\ proj'.legal =>
        /\ proj'.state = proj.state
        /\ \/ proj'.terminal = proj.terminal
           \/ /\ log'[Len(log')].cause = proj.terminal.seq
              /\ proj'.history = Append(proj.history, proj.terminal)
<1>1. TypeOK /\ [Next]_vars => [Kept]_vars
  <2> SUFFICES ASSUME TypeOK, Next PROVE Kept
    BY DEF Kept
  <2>1. PICK e \in Events : Store(e)
    BY NextStores
  <2>2. log'[Len(log')] = e
    BY <2>1 DEF Store, TypeOK
  <2>3. proj' = ReduceOne(proj, e)
    BY <2>1 DEF Store
  <2> QED BY <2>2, <2>3, ReduceOneKeepsTerminal DEF TypeOK
<1> QED BY <1>1, ReplayTypeOK, PTL DEF Spec, TerminalImmutable

\* A run has a state exactly from its first event on.
LEMMA ReplayOpened == Spec => []Opened(proj)
<1>1. Init => Opened(proj)
  BY DEF Init, Opened, EmptyProjection
<1>2. TypeOK /\ Opened(proj) /\ [Next]_vars => Opened(proj)'
  <2> SUFFICES ASSUME TypeOK, Opened(proj), [Next]_vars PROVE Opened(proj)'
    OBVIOUS
  <2>1. CASE Next
    <3>1. PICK e \in Events : Store(e)
      BY <2>1, NextStores
    <3>2. Opened(ReduceOne(proj, e))
      BY ReduceOneOpened DEF TypeOK
    <3> QED BY <3>1, <3>2 DEF Store, Opened
  <2>2. CASE UNCHANGED vars
    BY <2>2 DEF vars, Opened
  <2> QED BY <2>1, <2>2
<1> QED BY <1>1, <1>2, ReplayTypeOK, PTL DEF Spec

\* Every accepted event moves the run along one legal transition of the FSM.
THEOREM ReplayLegalTransitions == Spec => OnlyLegalTransitions
<1> DEFINE Legal == proj.state # None /\ proj'.legal =>
                      IsLegalTransition(proj.state, proj'.state)
<1>1. TypeOK /\ Opened(proj) /\ [Next]_vars => [Legal]_vars
  <2> SUFFICES ASSUME TypeOK, Opened(proj), Next PROVE Legal
    BY DEF Legal
  <2>1. PICK e \in Events : Store(e)
    BY NextStores
  <2> QED BY <2>1, ReduceOneTransition DEF TypeOK, Store
<1> QED
  BY <1>1, ReplayTypeOK, ReplayOpened, PTL DEF Spec, OnlyLegalTransitions

-----------------------------------------------------------------------------
(* What an accepted event tells of the projection before it, and leaves in *)
(* the one after it.                                                       *)

\* The decisions a projection knows of, oldest first.
Told(p) ==
  IF p.terminal = NoTerminal THEN << >> ELSE Append(p.history, p.terminal)

AcceptedFields(p, e, q) ==
  /\ p.legal /\ e.seq = p.count /\ q.count = p.count + 1
  /\ q.pending = IF e.type = "approval_requested" THEN e.seq
                 ELSE IF e.type = "approval_resolved" THEN NoEvent
                 ELSE p.pending
  /\ e.type = "approval_resolved" => p.pending # NoEvent /\ e.cause = p.pending
  /\ e.type = "run_paused" => ~p.paused /\ q.paused
  /\ e.type = "run_resumed" => p.paused /\ ~q.paused
  /\ e.type \notin {"run_paused", "run_resumed"} => q.paused = p.paused

LEMMA Accepted ==
  ASSUME NEW p \in Projections, NEW e \in Events, ReduceOne(p, e).legal
  PROVE  AcceptedFields(p, e, ReduceOne(p, e))
<1> DEFINE q == ReduceOne(p, e)
<1>1. p.legal /\ ~Refused(p, e)
  BY DEF ReduceOne, Illegal, EmptyProjection
<1>2. q = [ Apply(p, e) EXCEPT !.count = p.count + 1 ]
  BY <1>1 DEF ReduceOne
<1>3. e.seq = p.count
  BY <1>1 DEF Refused, EnvelopeRefused
<1>4. CASE e.type = "contract_opened"
  <2>1. q.count = p.count + 1 /\ q.pending = p.pending /\ q.paused = p.paused
    BY <1>2, <1>4 DEF Apply, Projections
  <2> QED BY <1>1, <1>3, <1>4, <2>1 DEF AcceptedFields
<1>5. CASE e.type \in {"iteration_appended", "receipt_appended",
                       "terminal_written", "terminal_superseded"}
  <2>1. q.count = p.count + 1 /\ q.pending = p.pending /\ q.paused = p.paused
    BY <1>2, <1>5
       DEF Apply, WithIteration, WithTerminal, WithSupersession, Projections
  <2> QED BY <1>1, <1>3, <1>5, <2>1 DEF AcceptedFields
<1>6. CASE e.type = "approval_requested"
  <2>1. q.count = p.count + 1 /\ q.pending = e.seq /\ q.paused = p.paused
    BY <1>2, <1>6 DEF Apply, WithRequest, Projections
  <2> QED BY <1>1, <1>3, <1>6, <2>1 DEF AcceptedFields
<1>7. CASE e.type = "approval_resolved"
  <2>1. q.count = p.count + 1 /\ q.pending = NoEvent /\ q.paused = p.paused
    BY <1>2, <1>7 DEF Apply, WithResolution, Projections
  <2>2. p.pending # NoEvent /\ e.cause = p.pending
    BY <1>1, <1>7 DEF Refused, ResolutionRefused
  <2> QED BY <1>1, <1>3, <1>7, <2>1, <2>2 DEF AcceptedFields
<1>8. CASE e.type = "run_paused"
  <2>1. q.count = p.count + 1 /\ q.pending = p.pending /\ q.paused = TRUE
    BY <1>2, <1>8 DEF Apply, Projections
  <2>2. ~p.paused
    BY <1>1, <1>8 DEF Refused, OverlayRefused
  <2> QED BY <1>1, <1>3, <1>8, <2>1, <2>2 DEF AcceptedFields
<1>9. CASE e.type = "run_resumed"
  <2>1. q.count = p.count + 1 /\ q.pending = p.pending /\ q.paused = FALSE
    BY <1>2, <1>9 DEF Apply, Projections
  <2>2. p.paused
    BY <1>1, <1>9 DEF Refused, OverlayRefused
  <2> QED BY <1>1, <1>3, <1>9, <2>1, <2>2 DEF AcceptedFields
<1> QED
  BY <1>4, <1>5, <1>6, <1>7, <1>8, <1>9 DEF Events, EventTypes

\* A terminal event adds itself to the decisions, a correction after the one
\* it cites; no other event changes them.
LEMMA AcceptedDecision ==
  ASSUME NEW p \in Projections, NEW e \in Events, ReduceOne(p, e).legal
  PROVE  /\ e.type \notin TerminalTypes =>
              /\ ReduceOne(p, e).terminal = p.terminal
              /\ ReduceOne(p, e).history = p.history
         /\ e.type \in TerminalTypes =>
              /\ ReduceOne(p, e).terminal = DecisionOf(e)
              /\ e.type = "terminal_written" =>
                   p.terminal = NoTerminal /\ ReduceOne(p, e).history = p.history
              /\ e.type = "terminal_superseded" =>
                   /\ p.terminal # NoTerminal /\ e.cause = p.terminal.seq
                   /\ ReduceOne(p, e).history = Append(p.history, p.terminal)
<1> DEFINE q == ReduceOne(p, e)
<1>1. p.legal /\ ~Refused(p, e)
  BY DEF ReduceOne, Illegal, EmptyProjection
<1>2. q = [ Apply(p, e) EXCEPT !.count = p.count + 1 ]
  BY <1>1 DEF ReduceOne
<1>3. CASE e.type \notin TerminalTypes
  <2>1. q.terminal = p.terminal /\ q.history = p.history
    BY <1>2, <1>3 DEF Apply, WithIteration, WithRequest, WithResolution,
                      Projections, TerminalTypes, Events, EventTypes
  <2> QED BY <1>3, <2>1
<1>4. CASE e.type = "terminal_written"
  <2>1. q.terminal = DecisionOf(e) /\ q.history = p.history
    BY <1>2, <1>4 DEF Apply, WithTerminal, Projections, DecisionOf
  <2>2. p.terminal = NoTerminal
    BY <1>1, <1>4 DEF Refused, EnvelopeRefused
  <2> QED BY <1>4, <2>1, <2>2 DEF TerminalTypes
<1>5. CASE e.type = "terminal_superseded"
  <2>1. q.terminal = DecisionOf(e) /\ q.history = Append(p.history, p.terminal)
    BY <1>2, <1>5 DEF Apply, WithSupersession, Projections, DecisionOf
  <2>2. p.terminal # NoTerminal /\ e.cause = p.terminal.seq
    BY <1>1, <1>5 DEF Refused, EnvelopeRefused, SupersessionRefused
  <2> QED BY <1>5, <2>1, <2>2 DEF TerminalTypes
<1> QED BY <1>3, <1>4, <1>5 DEF TerminalTypes

-----------------------------------------------------------------------------
(* Streams that replay: their numbering, and the request that waits.       *)

\* Events are numbered from 0 in the order they were folded.
Sequenced ==
  proj.legal =>
    /\ proj.count = Len(log)
    /\ \A i \in DOMAIN log : log[i].seq = i - 1

\* The pending request is the latest, and nothing answered it.
Awaited(l, pending) ==
  pending = NoEvent \/
    \E r \in 1 .. Len(l) :
      /\ l[r].type = "approval_requested" /\ l[r].seq = pending
      /\ \A k \in r + 1 .. Len(l) :
           l[k].type \notin {"approval_requested", "approval_resolved"}

Answered == proj.legal => Awaited(log, proj.pending)

\* A step of Replay, seen from the stream: it grows by one event, and if the
\* fold accepts it the projection is the next one.
LEMMA StreamStep ==
  ASSUME TypeOK, [Next]_vars, ~UNCHANGED vars
  PROVE  \E e \in Events :
           /\ log' = Append(log, e)
           /\ Len(log') = Len(log) + 1 /\ DOMAIN log' = 1 .. Len(log) + 1
           /\ log'[Len(log) + 1] = e
           /\ \A i \in 1 .. Len(log) : log'[i] = log[i]
           /\ proj' = ReduceOne(proj, e)
           /\ proj'.legal => AcceptedFields(proj, e, proj')
<1>1. PICK e \in Events : Store(e)
  BY NextStores
<1>2. log' = Append(log, e) /\ proj' = ReduceOne(proj, e)
  BY <1>1 DEF Store
<1>3. log \in Seq(Events)
  BY DEF TypeOK
<1>4. /\ Len(log') = Len(log) + 1 /\ DOMAIN log' = 1 .. Len(log) + 1
      /\ log'[Len(log) + 1] = e
      /\ \A i \in 1 .. Len(log) : log'[i] = log[i]
  BY <1>2, <1>3
<1>5. proj'.legal => AcceptedFields(proj, e, proj')
  BY <1>2, Accepted DEF TypeOK
<1> QED BY <1>2, <1>4, <1>5

LEMMA SequencedNext ==
  ASSUME TypeOK, Sequenced, [Next]_vars
  PROVE  Sequenced'
<1>1. CASE UNCHANGED vars
  BY <1>1 DEF vars, Sequenced
<1>2. CASE ~UNCHANGED vars
  <2> SUFFICES ASSUME proj'.legal
               PROVE  proj'.count = Len(log') /\ \A i \in DOMAIN log' : log'[i].seq = i - 1
    BY DEF Sequenced
  <2>1. PICK e \in Events :
           /\ Len(log') = Len(log) + 1 /\ DOMAIN log' = 1 .. Len(log) + 1
           /\ log'[Len(log) + 1] = e
           /\ \A i \in 1 .. Len(log) : log'[i] = log[i]
           /\ AcceptedFields(proj, e, proj')
    BY <1>2, StreamStep
  <2>2. proj.legal /\ e.seq = proj.count /\ proj'.count = proj.count + 1
    BY <2>1 DEF AcceptedFields
  <2>3. proj.count = Len(log) /\ \A i \in 1 .. Len(log) : log[i].seq = i - 1
    BY <2>2 DEF Sequenced, TypeOK
  <2>4. Len(log) \in Nat
    BY DEF TypeOK
  <2> QED BY <2>1, <2>2, <2>3, <2>4
<1> QED BY <1>1, <1>2

LEMMA AnsweredNext ==
  ASSUME TypeOK, Sequenced, Answered, ResolutionsAnswerRequests, [Next]_vars
  PROVE  Answered' /\ ResolutionsAnswerRequests'
<1>1. CASE UNCHANGED vars
  BY <1>1 DEF vars, Answered, ResolutionsAnswerRequests
<1>2. CASE ~UNCHANGED vars
  <2>0. Len(log) \in Nat /\ DOMAIN log = 1 .. Len(log)
    BY DEF TypeOK
  <2>a. CASE ~proj'.legal
    BY <2>a DEF Answered, ResolutionsAnswerRequests
  <2>b. CASE proj'.legal
    <3>1. PICK e \in Events :
             /\ Len(log') = Len(log) + 1 /\ DOMAIN log' = 1 .. Len(log) + 1
             /\ log'[Len(log) + 1] = e
             /\ \A i \in 1 .. Len(log) : log'[i] = log[i]
             /\ AcceptedFields(proj, e, proj')
      BY <1>2, <2>b, StreamStep
    <3>2. proj.legal /\ Awaited(log, proj.pending)
      BY <3>1 DEF AcceptedFields, Answered
    <3>3. Awaited(log', proj'.pending)
      <4>1. CASE e.type = "approval_requested"
        <5>1. proj'.pending = e.seq
          BY <3>1, <4>1 DEF AcceptedFields
        <5>2. Len(log') \in 1 .. Len(log') /\ log'[Len(log')] = e
              /\ \A k \in Len(log') + 1 .. Len(log') : FALSE
          BY <2>0, <3>1
        <5> QED BY <4>1, <5>1, <5>2 DEF Awaited
      <4>2. CASE e.type = "approval_resolved"
        BY <3>1, <4>2 DEF AcceptedFields, Awaited
      <4>3. CASE e.type \notin {"approval_requested", "approval_resolved"}
        <5>1. proj'.pending = proj.pending
          BY <3>1, <4>3 DEF AcceptedFields
        <5>2. CASE proj.pending = NoEvent
          BY <5>1, <5>2 DEF Awaited
        <5>3. CASE proj.pending # NoEvent
          <6>1. PICK r \in 1 .. Len(log) :
                  /\ log[r].type = "approval_requested" /\ log[r].seq = proj.pending
                  /\ \A k \in r + 1 .. Len(log) :
                       log[k].type \notin {"approval_requested", "approval_resolved"}
            BY <3>2, <5>3 DEF Awaited
          <6>2. r \in 1 .. Len(log') /\ log'[r] = log[r]
            BY <2>0, <3>1
          <6>3. ASSUME NEW k \in r + 1 .. Len(log')
                PROVE  log'[k].type \notin {"approval_requested", "approval_resolved"}
            <7>1. CASE k = Len(log) + 1
              BY <7>1, <3>1, <4>3
            <7>2. CASE k # Len(log) + 1
              <8>1. k \in r + 1 .. Len(log) /\ k \in 1 .. Len(log)
                BY <2>0, <3>1, <7>2
              <8> QED BY <8>1, <3>1, <6>1
            <7> QED BY <7>1, <7>2
          <6> QED BY <5>1, <6>1, <6>2, <6>3 DEF Awaited
        <5> QED BY <5>2, <5>3
      <4> QED BY <4>1, <4>2, <4>3
    <3>4. ASSUME NEW i \in DOMAIN log', log'[i].type = "approval_resolved"
          PROVE  \E r \in 1 .. i - 1 :
                   /\ log'[r].type = "approval_requested"
                   /\ log'[r].seq = log'[i].cause
                   /\ \A k \in r + 1 .. i - 1 :
                        log'[k].type \notin {"approval_requested", "approval_resolved"}
      <4>1. CASE i = Len(log) + 1
        <5>1. log'[i] = e /\ proj.pending # NoEvent /\ e.cause = proj.pending
          BY <3>1, <3>4, <4>1 DEF AcceptedFields
        <5>2. PICK r \in 1 .. Len(log) :
                /\ log[r].type = "approval_requested" /\ log[r].seq = proj.pending
                /\ \A k \in r + 1 .. Len(log) :
                     log[k].type \notin {"approval_requested", "approval_resolved"}
          BY <3>2, <5>1 DEF Awaited
        <5>3. i - 1 = Len(log) /\ \A k \in r .. Len(log) : k \in 1 .. Len(log) /\ log'[k] = log[k]
          BY <2>0, <3>1, <4>1
        <5>4. log'[r] = log[r] /\ \A k \in r + 1 .. Len(log) : log'[k] = log[k]
          BY <2>0, <5>3
        <5> QED BY <5>1, <5>2, <5>3, <5>4
      <4>2. CASE i # Len(log) + 1
        <5>1. i \in 1 .. Len(log) /\ log'[i] = log[i]
          BY <2>0, <3>1, <4>2
        <5>2. PICK r \in 1 .. i - 1 :
                /\ log[r].type = "approval_requested" /\ log[r].seq = log[i].cause
                /\ \A k \in r + 1 .. i - 1 :
                     log[k].type \notin {"approval_requested", "approval_resolved"}
          BY <2>0, <3>2, <3>4, <5>1 DEF ResolutionsAnswerRequests
        <5>3. \A k \in 1 .. i - 1 : log'[k] = log[k]
          BY <2>0, <3>1, <5>1
        <5>4. \A k \in r + 1 .. i - 1 : k \in 1 .. i - 1
          BY <5>1
        <5> QED BY <5>1, <5>2, <5>3, <5>4
      <4> QED BY <4>1, <4>2
    <3> QED BY <3>3, <3>4 DEF Answered, ResolutionsAnswerRequests
  <2> QED BY <2>a, <2>b
<1> QED BY <1>1, <1>2

LEMMA ReplaySequenced == Spec => []Sequenced
<1>1. Init => Sequenced
  BY DEF Init, Sequenced, EmptyProjection
<1>2. TypeOK /\ Sequenced /\ [Next]_vars => Sequenced'
  BY SequencedNext
<1> QED BY <1>1, <1>2, ReplayTypeOK, PTL DEF Spec

\* In a stream that replays, every resolution answers the latest request before
\* it, and no request is answered twice (reducer.py's pending request, consumed
\* by the resolution that cites it).
THEOREM ReplayResolutions == Spec => []ResolutionsAnswerRequests
<1>1. Init => Answered /\ ResolutionsAnswerRequests
  BY DEF Init, Answered, Awaited, ResolutionsAnswerRequests, EmptyProjection
<1>2. /\ TypeOK /\ Sequenced /\ Answered /\ ResolutionsAnswerRequests
      /\ [Next]_vars
      => Answered' /\ ResolutionsAnswerRequests'
  BY AnsweredNext
<1> QED BY <1>1, <1>2, ReplayTypeOK, ReplaySequenced, PTL DEF Spec

-----------------------------------------------------------------------------
(* The pause overlay.                                                      *)

\* The last mark among the first n events of a stream is a pause.
PausedIn(l, n) ==
  \E j \in 1 .. n :
    /\ l[j].type = "run_paused"
    /\ \A k \in j + 1 .. n : l[k].type # "run_resumed"

LEMMA PausedInPrefix ==
  ASSUME NEW l, NEW m, NEW n \in Nat, \A i \in 1 .. n : m[i] = l[i]
  PROVE  PausedIn(m, n) <=> PausedIn(l, n)
<1>1. \A j \in 1 .. n : \A k \in j + 1 .. n : k \in 1 .. n
  OBVIOUS
<1> QED BY <1>1 DEF PausedIn

LEMMA PausedInNext ==
  ASSUME NEW l, NEW n \in Nat, NEW e, l[n + 1] = e
  PROVE  /\ e.type = "run_paused" => PausedIn(l, n + 1)
         /\ e.type = "run_resumed" => ~PausedIn(l, n + 1)
         /\ e.type \notin {"run_paused", "run_resumed"} =>
              (PausedIn(l, n + 1) <=> PausedIn(l, n))
<1>1. ASSUME e.type = "run_paused" PROVE PausedIn(l, n + 1)
  <2>1. n + 1 \in 1 .. n + 1 /\ \A k \in (n + 1) + 1 .. n + 1 : FALSE
    OBVIOUS
  <2> QED BY <1>1, <2>1 DEF PausedIn
<1>2. ASSUME e.type = "run_resumed", PausedIn(l, n + 1) PROVE FALSE
  <2>1. PICK j \in 1 .. n + 1 :
          /\ l[j].type = "run_paused"
          /\ \A k \in j + 1 .. n + 1 : l[k].type # "run_resumed"
    BY <1>2 DEF PausedIn
  <2>2. j # n + 1
    BY <2>1, <1>2
  <2>3. n + 1 \in j + 1 .. n + 1
    BY <2>2
  <2> QED BY <2>1, <2>3, <1>2
<1>3. ASSUME e.type \notin {"run_paused", "run_resumed"}
      PROVE  PausedIn(l, n + 1) <=> PausedIn(l, n)
  <2>1. ASSUME PausedIn(l, n + 1) PROVE PausedIn(l, n)
    <3>1. PICK j \in 1 .. n + 1 :
            /\ l[j].type = "run_paused"
            /\ \A k \in j + 1 .. n + 1 : l[k].type # "run_resumed"
      BY <2>1 DEF PausedIn
    <3>2. j # n + 1
      BY <3>1, <1>3
    <3>3. j \in 1 .. n /\ \A k \in j + 1 .. n : k \in j + 1 .. n + 1
      BY <3>2
    <3> QED BY <3>1, <3>3 DEF PausedIn
  <2>2. ASSUME PausedIn(l, n) PROVE PausedIn(l, n + 1)
    <3>1. PICK j \in 1 .. n :
            /\ l[j].type = "run_paused"
            /\ \A k \in j + 1 .. n : l[k].type # "run_resumed"
      BY <2>2 DEF PausedIn
    <3>2. \A k \in j + 1 .. n + 1 : k = n + 1 \/ k \in j + 1 .. n
      OBVIOUS
    <3>3. \A k \in j + 1 .. n + 1 : l[k].type # "run_resumed"
      BY <3>1, <3>2, <1>3
    <3>4. j \in 1 .. n + 1
      OBVIOUS
    <3> QED BY <3>1, <3>3, <3>4 DEF PausedIn
  <2> QED BY <2>1, <2>2
<1> QED BY <1>1, <1>2, <1>3

LEMMA PausesIs ==
  /\ PausesAlternate <=>
       (proj.legal =>
          /\ \A i \in DOMAIN log :
               /\ log[i].type = "run_paused" => ~PausedIn(log, i - 1)
               /\ log[i].type = "run_resumed" => PausedIn(log, i - 1)
          /\ proj.paused <=> PausedIn(log, Len(log)))
  /\ PausesAlternate' <=>
       (proj'.legal =>
          /\ \A i \in DOMAIN log' :
               /\ log'[i].type = "run_paused" => ~PausedIn(log', i - 1)
               /\ log'[i].type = "run_resumed" => PausedIn(log', i - 1)
          /\ proj'.paused <=> PausedIn(log', Len(log')))
BY DEF PausesAlternate, PausedAfter, PausedIn

\* In a stream that replays, pauses and resumes alternate, beginning with a
\* pause, and the projection is paused when a pause came last (reducer.py's
\* overlay flag, which nothing but these two events moves).
THEOREM ReplayPauses == Spec => []PausesAlternate
<1>1. Init => PausesAlternate
  <2> SUFFICES ASSUME Init PROVE PausesAlternate
    OBVIOUS
  <2>1. log = << >> /\ proj.paused = FALSE
    BY DEF Init, EmptyProjection
  <2>2. ~PausedIn(log, 0)
    BY DEF PausedIn
  <2>3. Len(log) = 0 /\ DOMAIN log = {}
    BY <2>1
  <2> QED BY <2>1, <2>2, <2>3, PausesIs
<1>2. TypeOK /\ PausesAlternate /\ [Next]_vars => PausesAlternate'
  <2> SUFFICES ASSUME TypeOK, PausesAlternate, [Next]_vars, ~UNCHANGED vars, proj'.legal
               PROVE  /\ \A i \in DOMAIN log' :
                           /\ log'[i].type = "run_paused" => ~PausedIn(log', i - 1)
                           /\ log'[i].type = "run_resumed" => PausedIn(log', i - 1)
                      /\ proj'.paused <=> PausedIn(log', Len(log'))
    <3>1. CASE UNCHANGED vars
      BY <3>1, PausesIs DEF vars
    <3> QED BY <3>1, PausesIs
  <2>1. PICK e \in Events :
           /\ Len(log') = Len(log) + 1 /\ DOMAIN log' = 1 .. Len(log) + 1
           /\ log'[Len(log) + 1] = e
           /\ \A i \in 1 .. Len(log) : log'[i] = log[i]
           /\ AcceptedFields(proj, e, proj')
    BY StreamStep
  <2>2. /\ Len(log) \in Nat /\ DOMAIN log = 1 .. Len(log)
        /\ proj \in Projections /\ proj' \in Projections
    BY ReduceOneTyped, NextStores DEF TypeOK, Store
  <2>3. /\ \A i \in 1 .. Len(log) :
             /\ log[i].type = "run_paused" => ~PausedIn(log, i - 1)
             /\ log[i].type = "run_resumed" => PausedIn(log, i - 1)
        /\ proj.paused <=> PausedIn(log, Len(log))
    BY <2>1, <2>2, PausesIs DEF AcceptedFields
  <2>4. ASSUME NEW n \in 0 .. Len(log) PROVE PausedIn(log', n) <=> PausedIn(log, n)
    BY <2>1, <2>2, PausedInPrefix
  <2>5. ASSUME NEW i \in DOMAIN log'
        PROVE  /\ log'[i].type = "run_paused" => ~PausedIn(log', i - 1)
               /\ log'[i].type = "run_resumed" => PausedIn(log', i - 1)
    <3>0. i - 1 \in 0 .. Len(log)
      BY <2>1, <2>2
    <3>1. PausedIn(log', i - 1) <=> PausedIn(log, i - 1)
      BY <3>0, <2>4
    <3>2. CASE i = Len(log) + 1
      <4>1. log'[i] = e /\ i - 1 = Len(log)
        BY <2>1, <2>2, <3>2
      <4>2. PausedIn(log', i - 1) <=> proj.paused
        BY <3>1, <4>1, <2>3
      <4>3. /\ e.type = "run_paused" => ~proj.paused
            /\ e.type = "run_resumed" => proj.paused
        BY <2>1 DEF AcceptedFields
      <4> QED BY <4>1, <4>2, <4>3, Zenon
    <3>3. CASE i # Len(log) + 1
      <4>1. i \in 1 .. Len(log) /\ log'[i] = log[i]
        BY <2>1, <2>2, <3>3
      <4> QED BY <4>1, <3>1, <2>3
    <3> QED BY <3>2, <3>3
  <2>6. proj'.paused <=> PausedIn(log', Len(log'))
    <3>1. PICK n \in Nat : n = Len(log)
      BY <2>2
    <3>2. /\ e.type = "run_paused" => PausedIn(log', n + 1)
          /\ e.type = "run_resumed" => ~PausedIn(log', n + 1)
          /\ e.type \notin {"run_paused", "run_resumed"} =>
               (PausedIn(log', n + 1) <=> PausedIn(log', n))
      BY <2>1, <3>1, PausedInNext
    <3>3. PausedIn(log', n) <=> proj.paused
      BY <2>2, <2>3, <2>4, <3>1
    <3>4. /\ e.type = "run_paused" => proj'.paused
          /\ e.type = "run_resumed" => ~proj'.paused
          /\ e.type \notin {"run_paused", "run_resumed"} => proj'.paused = proj.paused
      BY <2>1 DEF AcceptedFields
    <3>5. Len(log') = n + 1
      BY <2>1, <3>1
    <3> QED BY <3>2, <3>3, <3>4, <3>5, Zenon
  <2> QED BY <2>5, <2>6
<1> QED BY <1>1, <1>2, ReplayTypeOK, PTL DEF Spec

-----------------------------------------------------------------------------
(* The audit trail.                                                        *)

\* The terminal events of a stream are the decisions told, oldest first.
AuditOf(l, told) ==
  /\ \A k \in DOMAIN l :
       l[k].type \in TerminalTypes => \E i \in DOMAIN told : told[i] = DecisionOf(l[k])
  /\ \A i \in DOMAIN told :
       \E k \in DOMAIN l :
         /\ l[k].type \in TerminalTypes
         /\ told[i] = DecisionOf(l[k])
         /\ i > 1 => /\ told[i - 1].seq < told[i].seq
                     /\ l[k].cause = told[i - 1].seq

LEMMA AuditIs ==
  /\ AuditTrailComplete <=> (proj.legal => AuditOf(log, Told(proj)))
  /\ AuditTrailComplete' <=> (proj'.legal => AuditOf(log', Told(proj')))
BY DEF AuditTrailComplete, AuditOf, RecordedDecisions, Told

\* An event that decides nothing leaves the trail as it is.
LEMMA AuditUndecided ==
  ASSUME NEW l \in Seq(Events), NEW told, NEW e \in Events,
         e.type \notin TerminalTypes, AuditOf(l, told)
  PROVE  AuditOf(Append(l, e), told)
<1> DEFINE m == Append(l, e)
<1>1. /\ DOMAIN m = 1 .. Len(l) + 1 /\ DOMAIN l = 1 .. Len(l) /\ Len(l) \in Nat
      /\ m[Len(l) + 1] = e /\ \A k \in 1 .. Len(l) : m[k] = l[k]
  OBVIOUS
<1> HIDE DEF m
<1>2. ASSUME NEW k \in DOMAIN m, m[k].type \in TerminalTypes
      PROVE  \E i \in DOMAIN told : told[i] = DecisionOf(m[k])
  <2>1. k \in DOMAIN l /\ m[k] = l[k]
    BY <1>1, <1>2
  <2> QED BY <1>2, <2>1 DEF AuditOf
<1>3. ASSUME NEW i \in DOMAIN told
      PROVE  \E k \in DOMAIN m :
               /\ m[k].type \in TerminalTypes
               /\ told[i] = DecisionOf(m[k])
               /\ i > 1 => /\ told[i - 1].seq < told[i].seq
                           /\ m[k].cause = told[i - 1].seq
  <2>1. PICK k \in DOMAIN l :
          /\ l[k].type \in TerminalTypes
          /\ told[i] = DecisionOf(l[k])
          /\ i > 1 => /\ told[i - 1].seq < told[i].seq
                      /\ l[k].cause = told[i - 1].seq
    BY DEF AuditOf
  <2>2. k \in DOMAIN m /\ m[k] = l[k]
    BY <1>1
  <2> QED BY <2>1, <2>2
<1>4. AuditOf(m, told)
  BY <1>2, <1>3 DEF AuditOf
<1> QED BY <1>4 DEF m

\* A decision joins the trail after the one it cites.
LEMMA AuditDecided ==
  ASSUME NEW l \in Seq(Events), NEW S, NEW told \in Seq(S), NEW e \in Events,
         e.type \in TerminalTypes, AuditOf(l, told), DecisionOf(e) \in S,
         Len(told) > 0 => /\ told[Len(told)].seq < e.seq
                          /\ e.cause = told[Len(told)].seq
  PROVE  AuditOf(Append(l, e), Append(told, DecisionOf(e)))
<1> DEFINE m == Append(l, e)
           more == Append(told, DecisionOf(e))
<1>1. /\ DOMAIN m = 1 .. Len(l) + 1 /\ DOMAIN l = 1 .. Len(l) /\ Len(l) \in Nat
      /\ m[Len(l) + 1] = e /\ \A k \in 1 .. Len(l) : m[k] = l[k]
  OBVIOUS
<1>2. /\ DOMAIN more = 1 .. Len(told) + 1 /\ DOMAIN told = 1 .. Len(told) /\ Len(told) \in Nat
      /\ more[Len(told) + 1] = DecisionOf(e) /\ \A k \in 1 .. Len(told) : more[k] = told[k]
  OBVIOUS
<1>3. DecisionOf(e).seq = e.seq
  BY DEF DecisionOf
<1> HIDE DEF m, more
<1>4. ASSUME NEW k \in DOMAIN m, m[k].type \in TerminalTypes
      PROVE  \E i \in DOMAIN more : more[i] = DecisionOf(m[k])
  <2>1. CASE k = Len(l) + 1
    BY <2>1, <1>1, <1>2
  <2>2. CASE k # Len(l) + 1
    <3>1. k \in DOMAIN l /\ m[k] = l[k]
      BY <1>1, <2>2
    <3>2. PICK i \in DOMAIN told : told[i] = DecisionOf(l[k])
      BY <3>1, <1>4 DEF AuditOf
    <3> QED BY <3>1, <3>2, <1>2
  <2> QED BY <2>1, <2>2
<1>5. ASSUME NEW i \in DOMAIN more
      PROVE  \E k \in DOMAIN m :
               /\ m[k].type \in TerminalTypes
               /\ more[i] = DecisionOf(m[k])
               /\ i > 1 => /\ more[i - 1].seq < more[i].seq
                           /\ m[k].cause = more[i - 1].seq
  <2>1. CASE i = Len(told) + 1
    <3>1. i > 1 => i - 1 = Len(told) /\ more[i - 1] = told[Len(told)] /\ Len(told) > 0
      BY <1>2, <2>1
    <3>2. Len(l) + 1 \in DOMAIN m /\ more[i] = DecisionOf(e)
      BY <1>1, <1>2, <2>1
    <3> QED BY <3>1, <3>2, <1>1, <1>3
  <2>2. CASE i # Len(told) + 1
    <3>1. i \in DOMAIN told /\ more[i] = told[i] /\ (i > 1 => more[i - 1] = told[i - 1])
      BY <1>2, <2>2
    <3>2. PICK k \in DOMAIN l :
            /\ l[k].type \in TerminalTypes
            /\ told[i] = DecisionOf(l[k])
            /\ i > 1 => /\ told[i - 1].seq < told[i].seq
                        /\ l[k].cause = told[i - 1].seq
      BY <3>1 DEF AuditOf
    <3>3. k \in DOMAIN m /\ m[k] = l[k]
      BY <1>1
    <3> QED BY <3>1, <3>2, <3>3
  <2> QED BY <2>1, <2>2
<1>6. AuditOf(m, more)
  BY <1>4, <1>5 DEF AuditOf
<1> QED BY <1>6 DEF m, more

\* Nothing was superseded before a terminal was recorded.
NothingBefore == proj.legal /\ proj.terminal = NoTerminal => proj.history = << >>

LEMMA AuditNext ==
  ASSUME TypeOK, Sequenced, NothingBefore, AuditTrailComplete, [Next]_vars
  PROVE  NothingBefore' /\ AuditTrailComplete'
<1>1. CASE UNCHANGED vars
  BY <1>1, AuditIs DEF vars, NothingBefore
<1>2. CASE ~UNCHANGED vars /\ ~proj'.legal
  BY <1>2, AuditIs DEF NothingBefore
<1>3. CASE ~UNCHANGED vars /\ proj'.legal
  <2>1. PICK e \in Events :
           /\ log' = Append(log, e) /\ proj' = ReduceOne(proj, e)
           /\ AcceptedFields(proj, e, proj')
    BY <1>3, StreamStep
  <2>2. /\ proj.legal /\ AuditOf(log, Told(proj)) /\ e.seq = Len(log)
        /\ log \in Seq(Events) /\ Len(log) \in Nat /\ proj \in Projections
        /\ \A i \in DOMAIN log : log[i].seq = i - 1
    BY <2>1, AuditIs DEF AcceptedFields, Sequenced, TypeOK
  <2>3. CASE e.type \notin TerminalTypes
    <3>0. proj'.terminal = proj.terminal /\ proj'.history = proj.history
      BY <1>3, <2>1, <2>2, <2>3, AcceptedDecision
    <3>1. Told(proj') = Told(proj)
      BY <3>0 DEF Told
    <3>2. AuditOf(log', Told(proj'))
      BY <2>1, <2>2, <2>3, <3>1, AuditUndecided
    <3>3. proj'.terminal = NoTerminal => proj'.history = << >>
      BY <2>2, <3>0 DEF NothingBefore
    <3> QED BY <3>2, <3>3, AuditIs DEF NothingBefore
  <2>4. CASE e.type \in TerminalTypes
    <3>1. /\ proj'.terminal = DecisionOf(e)
          /\ e.type = "terminal_written" =>
               proj.terminal = NoTerminal /\ proj'.history = proj.history
          /\ e.type = "terminal_superseded" =>
               /\ proj.terminal # NoTerminal /\ e.cause = proj.terminal.seq
               /\ proj'.history = Append(proj.history, proj.terminal)
      BY <1>3, <2>1, <2>2, <2>4, AcceptedDecision
    <3>2. DecisionOf(e) # NoTerminal /\ DecisionOf(e) \in TerminalRecords
      BY DEF DecisionOf, NoTerminal, NoEvent, Events, TerminalRecords
    <3>3. proj.terminal \in TerminalRecords /\ proj.history \in Seq(TerminalRecords)
      BY <2>2 DEF Projections
    <3>4. Told(proj) \in Seq(TerminalRecords)
      BY <3>3 DEF Told
    <3>5. Told(proj') = Append(Told(proj), DecisionOf(e))
      <4>1. CASE e.type = "terminal_written"
        <5>1. proj.history = << >> /\ Told(proj) = << >>
          BY <2>2, <3>1, <4>1 DEF NothingBefore, Told
        <5> QED BY <3>1, <3>2, <4>1, <5>1 DEF Told
      <4>2. CASE e.type = "terminal_superseded"
        <5>1. Told(proj) = Append(proj.history, proj.terminal)
          BY <3>1, <4>2 DEF Told
        <5> QED BY <3>1, <3>2, <4>2, <5>1 DEF Told
      <4> QED BY <2>4, <4>1, <4>2 DEF TerminalTypes
    <3>6. Len(Told(proj)) > 0 =>
            /\ Told(proj)[Len(Told(proj))].seq < e.seq
            /\ e.cause = Told(proj)[Len(Told(proj))].seq
      <4>1. CASE e.type = "terminal_written"
        <5>1. Len(Told(proj)) = 0
          BY <3>1, <4>1 DEF Told
        <5> QED BY <5>1
      <4>2. CASE e.type = "terminal_superseded"
        <5>1. Told(proj) = Append(proj.history, proj.terminal)
          BY <3>1, <4>2 DEF Told
        <5>2. /\ Len(Told(proj)) \in DOMAIN Told(proj)
              /\ Told(proj)[Len(Told(proj))] = proj.terminal
          BY <3>3, <5>1
        <5>3. PICK k \in DOMAIN log : Told(proj)[Len(Told(proj))] = DecisionOf(log[k])
          BY <2>2, <5>2 DEF AuditOf
        <5>4. proj.terminal.seq = log[k].seq
          BY <5>2, <5>3 DEF DecisionOf
        <5>5. log[k].seq < e.seq
          BY <2>2
        <5> QED BY <3>1, <4>2, <5>2, <5>4, <5>5
      <4> QED BY <2>4, <4>1, <4>2 DEF TerminalTypes
    <3>7. AuditOf(log', Told(proj'))
      BY <2>1, <2>2, <2>4, <3>2, <3>4, <3>5, <3>6, AuditDecided
    <3>8. proj'.terminal # NoTerminal
      BY <3>1, <3>2
    <3> QED BY <3>7, <3>8, AuditIs DEF NothingBefore
  <2> QED BY <2>3, <2>4
<1> QED BY <1>1, <1>2, <1>3

\* The superseded history followed by the effective terminal is the audit trail:
\* exactly the terminal events of the stream, oldest first, each correction
\* citing the one before it (reducer.py's terminal_history).
THEOREM ReplayAudit == Spec => []AuditTrailComplete
<1>1. Init => NothingBefore /\ AuditTrailComplete
  <2> SUFFICES ASSUME Init PROVE NothingBefore /\ AuditTrailComplete
    OBVIOUS
  <2>1. log = << >> /\ proj.terminal = NoTerminal /\ proj.history = << >>
    BY DEF Init, EmptyProjection
  <2>2. AuditOf(log, Told(proj))
    BY <2>1 DEF Told, AuditOf
  <2> QED BY <2>1, <2>2, AuditIs DEF NothingBefore
<1>2. TypeOK /\ Sequenced /\ NothingBefore /\ AuditTrailComplete /\ [Next]_vars
        => NothingBefore' /\ AuditTrailComplete'
  BY AuditNext
<1> QED BY <1>1, <1>2, ReplayTypeOK, ReplaySequenced, PTL DEF Spec
=============================================================================
