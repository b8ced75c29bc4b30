-------------------------- MODULE LoopRunFilesProofs -------------------------
(***************************************************************************)
(* Proofs about the files the runtime writes after the log, for every plan *)
(* and every bound.                                                        *)
(*                                                                         *)
(* Any number of processes: Behind says that no file, and nothing a        *)
(* process carries from what it read, is ahead of the log; Marking says    *)
(* what shows that a run has ended.  One process: Solo says that the file  *)
(* a run of the code is about to write is still as it was checked, through *)
(* kills and whatever an orchestrator appends; Quiet says, until the first *)
(* kill, exactly what each file still lacks at each program point.         *)
(***************************************************************************)
EXTENDS LoopRunProofs

-----------------------------------------------------------------------------
(* What the files show.  A command reads, appends and writes at different    *)
(* moments; what it carries from one to the next was in the log when it was   *)
(* read, and the log only grows.                                             *)

MatPoints == {"mat_read", "mat_check", "mat_block", "mat_stamp"}

Known(i) == \E k \in DOMAIN proj.entries : proj.entries[k].iter = i

BoundAt(i) == \E k \in DOMAIN log : log[k].bound /\ log[k].iter = i

Requested(n) ==
  n # NoEvent => n + 1 \in DOMAIN log /\ log[n + 1].type = "approval_requested"

DocBehind(d) ==
  /\ d.iter <= proj.iter
  /\ Requested(d.pending)
  /\ d.terminal # None => terminal # NoVerdict

SnapBehind(s) ==
  /\ s.iter <= proj.iter
  /\ Requested(s.pending)
  /\ \A i \in DOMAIN s.entries : Known(s.entries[i].iter)

OpBehind(o) ==
  /\ DocBehind(o.doc)
  /\ SnapBehind(o.snap)
  /\ o.pc \in MatPoints => Known(o.entry.iter)
  /\ o.pc \in {"object", "record", "bundle"} =>
       BoundAt(o.event.iter) /\ Known(o.event.iter)
  /\ o.pc = "commit" /\ o.event.type = "iteration_appended" => o.event.bound
  /\ o.pc = "end_stamp" /\ o.verdict.result # None => terminal # NoVerdict

Behind ==
  /\ \A i \in DOMAIN runlog : Known(runlog[i])
  /\ \A f \in files : BoundAt(f[2])
  /\ DocBehind(state)
  /\ SnapBehind(proj)
  /\ \A p \in Procs : OpBehind(op[p])

\* What no step takes back.
Onward ==
  /\ proj.iter <= proj'.iter
  /\ \A i : Known(i) => Known(i)'
  /\ \A i : BoundAt(i) => BoundAt(i)'
  /\ \A n : Requested(n) => Requested(n)'
  /\ terminal # NoVerdict => terminal' # NoVerdict

LEMMA QuietOnward ==
  ASSUME IInv, UNCHANGED << log, proj >>, terminal # NoVerdict => terminal' # NoVerdict
  PROVE  Onward
<1>1. proj.iter \in Nat
  BY DEF IInv, LogInv, Projections
<1> QED BY <1>1 DEF Onward, Known, BoundAt, Requested

\* The request an event leaves pending.
LEMMA ReduceOnePending ==
  ASSUME NEW s \in Projections, NEW e \in Events, s.legal, ~Refused(s, e)
  PROVE  ReduceOne(s, e).pending =
           IF e.type = "approval_requested" THEN e.seq
           ELSE IF e.type = "approval_resolved" THEN NoEvent ELSE s.pending
<1> DEFINE q == ReduceOne(s, e)
<1>1. q = [ Apply(s, e) EXCEPT !.count = s.count + 1 ]
  BY DEF ReduceOne
<1>2. CASE e.type = "iteration_appended"
  BY <1>1, <1>2 DEF Apply, WithIteration, Projections
<1>3. CASE e.type = "terminal_written"
  BY <1>1, <1>3 DEF Apply, WithTerminal, Projections
<1>4. CASE e.type = "approval_requested"
  BY <1>1, <1>4 DEF Apply, WithRequest, Projections
<1>5. CASE e.type = "approval_resolved"
  BY <1>1, <1>5 DEF Apply, WithResolution, Projections
<1>6. CASE e.type = "terminal_superseded"
  BY <1>1, <1>6 DEF Apply, WithSupersession, Projections
<1>7. CASE e.type \in {"contract_opened", "receipt_appended", "run_paused", "run_resumed"}
  BY <1>1, <1>7 DEF Apply, Projections
<1> QED BY <1>2, <1>3, <1>4, <1>5, <1>6, <1>7 DEF Events, EventTypes

LEMMA AppendOnward ==
  ASSUME IInv, IInv', History, NEW e \in Events, Follows(proj, e), AppendEvent(e),
         SnapBehind(proj), terminal' = terminal
  PROVE  /\ Onward /\ SnapBehind(proj)'
         /\ e.bound => BoundAt(e.iter)'
         /\ e.type = "iteration_appended" => Known(e.iter)'
<1> DEFINE n == Len(log)
           m == Len(proj.entries)
<1>1. PICK x : x = [ e EXCEPT !.seq = n ]
  OBVIOUS
<1>2. /\ n \in Nat /\ proj \in Projections /\ proj.legal /\ log \in Seq(Events)
      /\ proj'.legal /\ proj.iter \in Nat
      /\ proj.entries \in Seq(RunlogEntries) /\ m \in Nat
  BY DEF IInv, LogInv, Projections
<1>3. /\ x \in Events /\ x.type = e.type /\ x.iter = e.iter /\ x.bound = e.bound
      /\ x.seq = n /\ e.iter \in Nat
  BY <1>1, <1>2 DEF Events
<1>4. proj' = ReduceOne(proj, x) /\ log' = Append(log, x)
  BY <1>1 DEF AppendEvent
<1>5. ~Refused(proj, x)
  BY <1>2, <1>4 DEF ReduceOne, Illegal, EmptyProjection
<1>6. x.type \notin {"contract_opened", "terminal_superseded"}
  BY <1>3 DEF Follows
<1>7. /\ proj'.iter = IF e.type \in {"receipt_appended", "terminal_written"}
                      THEN proj.iter ELSE e.iter
      /\ proj'.entries = IF e.type = "iteration_appended"
                         THEN Append(proj.entries, Entry(x)) ELSE proj.entries
  BY <1>2, <1>3, <1>4, <1>5, <1>6, ReduceOneFields
<1>8. proj'.pending = IF e.type = "approval_requested" THEN n
                      ELSE IF e.type = "approval_resolved" THEN NoEvent ELSE proj.pending
  BY <1>2, <1>3, <1>4, <1>5, ReduceOnePending
<1>9. /\ DOMAIN log = 1 .. n /\ DOMAIN log' = 1 .. n + 1
      /\ \A k \in 1 .. n : log'[k] = log[k]
      /\ log'[n + 1] = x
  BY <1>2, <1>3, <1>4
<1> HIDE DEF n
<1>10. proj.iter <= proj'.iter
  BY <1>2, <1>3, <1>7 DEF Follows
<1>11. /\ \A k \in DOMAIN proj.entries :
            k \in DOMAIN proj'.entries /\ proj'.entries[k] = proj.entries[k]
       /\ \A k \in DOMAIN proj'.entries :
            \/ k \in DOMAIN proj.entries
            \/ e.type = "iteration_appended" /\ proj'.entries[k] = Entry(x)
       /\ e.type = "iteration_appended" =>
            m + 1 \in DOMAIN proj'.entries /\ proj'.entries[m + 1] = Entry(x)
  <2>1. CASE e.type = "iteration_appended"
    BY <1>2, <1>7, <2>1
  <2>2. CASE e.type # "iteration_appended"
    BY <1>7, <2>2
  <2> QED BY <2>1, <2>2
<1> HIDE DEF m
<1>12. Entry(x).iter = e.iter
  BY <1>3 DEF Entry
<1>13. \A i : Known(i) => Known(i)'
  BY <1>11 DEF Known
<1>14. \A i : BoundAt(i) => BoundAt(i)'
  BY <1>2, <1>9 DEF BoundAt
<1>15. \A r : Requested(r) => Requested(r)'
  <2> SUFFICES ASSUME NEW r, Requested(r), r # NoEvent
               PROVE  r + 1 \in DOMAIN log' /\ log'[r + 1].type = "approval_requested"
    BY DEF Requested
  <2>1. r + 1 \in 1 .. n /\ log[r + 1].type = "approval_requested"
    BY <1>9 DEF Requested
  <2>2. r + 1 \in 1 .. n + 1
    BY <1>2, <2>1
  <2> QED BY <1>9, <2>1, <2>2
<1>16. Onward
  BY <1>10, <1>13, <1>14, <1>15 DEF Onward
<1>17. Requested(proj.pending)'
  <2>1. CASE e.type = "approval_requested"
    BY <1>2, <1>3, <1>8, <1>9, <2>1 DEF Requested
  <2>2. CASE e.type = "approval_resolved"
    BY <1>8, <2>2 DEF Requested
  <2>3. CASE e.type \notin {"approval_requested", "approval_resolved"}
    <3>1. proj'.pending = proj.pending
      BY <1>8, <2>3
    <3>2. Requested(proj.pending)
      BY DEF SnapBehind
    <3> QED BY <1>15, <3>1, <3>2 DEF Requested
  <2> QED BY <2>1, <2>2, <2>3
<1>18. e.type = "iteration_appended" => Known(e.iter)'
  BY <1>11, <1>12 DEF Known
<1>19. (\A k \in DOMAIN proj.entries : Known(proj.entries[k].iter))'
  BY <1>11 DEF Known
<1>20. proj'.iter <= proj'.iter
  BY <1>2, <1>3, <1>7
<1>21. SnapBehind(proj)'
  BY <1>17, <1>19, <1>20 DEF SnapBehind
<1>22. ASSUME e.bound PROVE BoundAt(e.iter)'
  <2>1. n + 1 \in DOMAIN log' /\ log'[n + 1] = x /\ x.iter = e.iter
    BY <1>2, <1>3, <1>9
  <2>2. x.bound = e.bound
    BY <1>3
  <2>3. x.bound
    BY <1>22, <2>2, Zenon
  <2> QED BY <2>1, <2>3, Zenon DEF BoundAt
<1> QED BY <1>16, <1>18, <1>21, <1>22

LEMMA DocStaysBehind ==
  ASSUME IInv, IInv', Onward, NEW d \in StateDocs, DocBehind(d)
  PROVE  DocBehind(d)'
<1>1. d.iter \in Nat /\ proj.iter \in Nat /\ proj'.iter \in Nat
  BY DEF IInv, LogInv, Projections, StateDocs
<1> QED BY <1>1 DEF Onward, DocBehind

LEMMA SnapStaysBehind ==
  ASSUME IInv, IInv', Onward, NEW s \in Projections, SnapBehind(s)
  PROVE  SnapBehind(s)'
<1>1. s.iter \in Nat /\ proj.iter \in Nat /\ proj'.iter \in Nat
  BY DEF IInv, LogInv, Projections
<1> QED BY <1>1 DEF Onward, SnapBehind

LEMMA OpStaysBehind ==
  ASSUME IInv, IInv', Onward, NEW o \in Ops, OpBehind(o)
  PROVE  OpBehind(o)'
<1>1. o.doc \in StateDocs /\ o.snap \in Projections
  BY DEF Ops
<1>2. DocBehind(o.doc)' /\ SnapBehind(o.snap)'
  BY <1>1, DocStaysBehind, SnapStaysBehind DEF OpBehind
<1> QED BY <1>2 DEF Onward, OpBehind

\* One process moves to n; the log may have grown and one file may change.
LEMMA BehindStep ==
  ASSUME IInv, IInv', Behind, Onward, SnapBehind(proj)',
         NEW p \in Procs, NEW n \in Ops, op' = [ op EXCEPT ![p] = n ],
         OpBehind(n)',
         runlog' = runlog \/ \E i : Known(i) /\ runlog' = Append(runlog, i),
         \A f \in files' : f \in files \/ BoundAt(f[2]),
         state' = state \/ \E d \in StateDocs : DocBehind(d) /\ state' = d
  PROVE  Behind'
<1>1. (\A i \in DOMAIN runlog : Known(runlog[i]))'
  <2>1. CASE runlog' = runlog
    BY <2>1 DEF Behind, Onward
  <2>2. ASSUME NEW i, Known(i), runlog' = Append(runlog, i)
        PROVE  (\A k \in DOMAIN runlog : Known(runlog[k]))'
    <3>1. runlog \in Seq(Nat)
      BY DEF IInv, DiskTyped
    <3>2. \A k \in DOMAIN runlog' :
            (k \in DOMAIN runlog /\ runlog'[k] = runlog[k]) \/ runlog'[k] = i
      BY <2>2, <3>1
    <3> QED BY <2>2, <3>2 DEF Behind, Onward
  <2> QED BY <2>1, <2>2
<1>2. (\A f \in files : BoundAt(f[2]))'
  BY DEF Behind, Onward
<1>3. DocBehind(state)'
  <2>1. PICK d \in StateDocs : DocBehind(d) /\ state' = d
    BY DEF Behind, IInv, DiskTyped
  <2>2. DocBehind(d)'
    BY <2>1, DocStaysBehind
  <2> QED BY <2>1, <2>2 DEF DocBehind
<1>4. ASSUME NEW q \in Procs
      PROVE  OpBehind(op[q])'
  <2>0. DOMAIN op = Procs
    BY DEF IInv, OpsInv
  <2>1. CASE q = p
    BY <2>0, <2>1 DEF OpBehind
  <2>2. CASE q # p
    <3>1. PICK o : o = op[q]
      OBVIOUS
    <3>2. o \in Ops /\ OpBehind(o) /\ op'[q] = o
      BY <2>0, <2>2, <3>1 DEF IInv, OpsInv, OpInv, Behind
    <3>3. OpBehind(o)'
      BY <3>2, OpStaysBehind
    <3> QED BY <3>2, <3>3 DEF OpBehind
  <2> QED BY <2>1, <2>2
<1> QED BY <1>1, <1>2, <1>3, <1>4 DEF Behind

\* The same off the log.
LEMMA BehindQuietStep ==
  ASSUME IInv, IInv', Behind, UNCHANGED << log, proj >>,
         terminal # NoVerdict => terminal' # NoVerdict,
         NEW p \in Procs, NEW n, op' = [ op EXCEPT ![p] = n ], OpBehind(n),
         runlog' = runlog \/ \E i : Known(i) /\ runlog' = Append(runlog, i),
         \A f \in files' : f \in files \/ BoundAt(f[2]),
         state' = state \/ \E d \in StateDocs : DocBehind(d) /\ state' = d
  PROVE  Behind'
<1>1. Onward
  BY QuietOnward
<1>2. SnapBehind(proj)'
  BY <1>1 DEF Behind, SnapBehind, Known, Requested
<1>3. n \in Ops
  <2>1. DOMAIN op = Procs /\ op'[p] \in Ops
    BY DEF IInv, OpsInv, OpInv
  <2> QED BY <2>1
<1>4. OpBehind(n)'
  BY <1>1, <1>3, OpStaysBehind
<1> QED BY <1>1, <1>2, <1>3, <1>4, BehindStep

\* The record of a process that goes on with what it has, or with the
\* state.json it just read.
LEMMA GoOnBehind ==
  ASSUME IInv, Behind, NEW p \in Procs, NEW pc, NEW doc, DocBehind(doc),
         NEW n, n = [ op[p] EXCEPT !.pc = pc, !.doc = doc ],
         pc \notin {"commit", "object", "record", "bundle", "end_stamp"},
         pc \in MatPoints => op[p].pc \in MatPoints
  PROVE  OpBehind(n)
<1>1. op[p] \in Ops /\ OpBehind(op[p])
  BY DEF IInv, OpsInv, OpInv, Behind
<1>2. n.pc = pc /\ n.doc = doc /\ n.snap = op[p].snap /\ n.entry = op[p].entry
  BY <1>1 DEF Ops
<1> QED BY <1>1, <1>2 DEF OpBehind

LEMMA ReturnBehind ==
  ASSUME IInv, IInv', Behind, UNCHANGED << log, proj, runlog, files >>,
         terminal # NoVerdict => terminal' # NoVerdict,
         NEW p \in Procs, Return(p),
         state' = state \/ \E d \in StateDocs : DocBehind(d) /\ state' = d
  PROVE  Behind'
<1>1. /\ Idle.pc = "idle" /\ Idle.doc = NoDoc /\ Idle.snap = EmptyProjection
      /\ NoDoc.iter = 0 /\ NoDoc.pending = NoEvent /\ NoDoc.terminal = None
      /\ EmptyProjection.iter = 0 /\ EmptyProjection.pending = NoEvent
      /\ EmptyProjection.entries = << >>
  BY DEF Idle, NoDoc, EmptyProjection
<1>2. proj.iter \in Nat
  BY DEF IInv, LogInv, Projections
<1>3. DocBehind(NoDoc) /\ SnapBehind(EmptyProjection)
  BY <1>1, <1>2 DEF DocBehind, SnapBehind, Requested
<1>4. OpBehind(Idle)
  BY <1>1, <1>3 DEF OpBehind, MatPoints
<1> QED BY <1>4, BehindQuietStep DEF Return

LEMMA GotoBehind ==
  ASSUME IInv, IInv', Behind, UNCHANGED << log, proj, files >>,
         terminal # NoVerdict => terminal' # NoVerdict,
         NEW p \in Procs, NEW pc, Goto(p, pc),
         pc \notin {"commit", "object", "record", "bundle", "end_stamp"},
         pc \in MatPoints => op[p].pc \in MatPoints,
         runlog' = runlog \/ \E i : Known(i) /\ runlog' = Append(runlog, i),
         state' = state \/ \E d \in StateDocs : DocBehind(d) /\ state' = d
  PROVE  Behind'
<1>1. PICK n : n = [ op[p] EXCEPT !.pc = pc, !.doc = op[p].doc ]
  OBVIOUS
<1>2. DocBehind(op[p].doc) /\ op[p] \in Ops
  BY DEF Behind, OpBehind, IInv, OpsInv, OpInv
<1>3. OpBehind(n)
  BY <1>1, <1>2, GoOnBehind
<1>4. n = [ op[p] EXCEPT !.pc = pc ]
  BY <1>1, <1>2 DEF Ops
<1>5. op' = [ op EXCEPT ![p] = n ]
  BY <1>4 DEF Goto
<1> QED BY <1>3, <1>5, BehindQuietStep

\* A process reads state.json.
LEMMA ReadBehind ==
  ASSUME IInv, IInv', Behind, UNCHANGED << log, proj, disk >>,
         NEW p \in Procs, NEW pc,
         op' = [ op EXCEPT ![p].pc = pc, ![p].doc = state ],
         pc \notin {"commit", "object", "record", "bundle", "end_stamp"},
         pc \in MatPoints => op[p].pc \in MatPoints
  PROVE  Behind'
<1>1. PICK n : n = [ op[p] EXCEPT !.pc = pc, !.doc = state ]
  OBVIOUS
<1>2. OpBehind(n)
  BY <1>1, GoOnBehind DEF Behind
<1>3. op' = [ op EXCEPT ![p] = n ]
  BY <1>1
<1> QED BY <1>2, <1>3, BehindQuietStep DEF disk

\* On to an entry of the run that was read, or to the selection.
LEMMA ReconcileFromBehind ==
  ASSUME IInv, IInv', Behind, UNCHANGED << log, proj, runlog, files, terminal >>,
         NEW p \in Procs, NEW current, ReconcileFrom(p, current),
         state' = state \/ \E d \in StateDocs : DocBehind(d) /\ state' = d
  PROVE  Behind'
<1>0. op[p] \in Ops /\ OpBehind(op[p])
  BY DEF IInv, OpsInv, OpInv, Behind
<1>1. CASE op' = [ op EXCEPT ![p].pc = "select", ![p].doc = NoDoc,
                             ![p].entry = Entry(NoEventYet) ]
  <2>1. PICK n : n = [ op[p] EXCEPT !.pc = "select", !.doc = NoDoc,
                                    !.entry = Entry(NoEventYet) ]
    OBVIOUS
  <2>2. n.pc = "select" /\ n.doc = NoDoc /\ n.snap = op[p].snap
    BY <1>0, <2>1 DEF Ops
  <2>3. DocBehind(NoDoc)
    BY DEF DocBehind, NoDoc, Requested, IInv, LogInv, Projections
  <2>4. OpBehind(n)
    BY <1>0, <2>2, <2>3 DEF OpBehind, MatPoints
  <2>5. op' = [ op EXCEPT ![p] = n ]
    BY <1>1, <2>1
  <2> QED BY <2>4, <2>5, BehindQuietStep
<1>2. ASSUME NEW i \in DOMAIN op[p].snap.entries,
             op' = [ op EXCEPT ![p].pc = "mat_read", ![p].entry = op[p].snap.entries[i] ]
      PROVE  Behind'
  <2>1. PICK n : n = [ op[p] EXCEPT !.pc = "mat_read", !.entry = op[p].snap.entries[i] ]
    OBVIOUS
  <2>2. /\ n.pc = "mat_read" /\ n.doc = op[p].doc /\ n.snap = op[p].snap
        /\ n.entry = op[p].snap.entries[i]
    BY <1>0, <2>1 DEF Ops
  <2>3. OpBehind(n)
    BY <1>0, <2>2 DEF OpBehind, SnapBehind
  <2>4. op' = [ op EXCEPT ![p] = n ]
    BY <1>2, <2>1
  <2> QED BY <2>3, <2>4, BehindQuietStep
<1> QED BY <1>1, <1>2 DEF ReconcileFrom

\* An artifact of an event that is in the log.
LEMMA WriteEvidenceBehind ==
  ASSUME IInv, IInv', Behind, NEW p \in Procs, WriteEvidence(p)
  PROVE  Behind'
<1>0. op[p] \in Ops /\ OpBehind(op[p])
  BY DEF IInv, OpsInv, OpInv, Behind
<1>1. ASSUME NEW kind \in {"object", "record", "bundle"},
             NEW then \in {"record", "bundle", "mat_read"}, WriteArtifact(p, kind, then)
      PROVE  Behind'
  <2>1. PICK n : n = [ op[p] EXCEPT !.pc = then,
                         !.entry = IF then = "mat_read" THEN Entry(op[p].event) ELSE @ ]
    OBVIOUS
  <2>2. /\ n.pc = then /\ n.doc = op[p].doc /\ n.snap = op[p].snap /\ n.event = op[p].event
        /\ then = "mat_read" => n.entry.iter = op[p].event.iter
    BY <1>0, <2>1 DEF Ops, Entry
  <2>3. BoundAt(op[p].event.iter) /\ Known(op[p].event.iter)
    BY <1>0, <1>1 DEF OpBehind, WriteArtifact, At
  <2>4. OpBehind(n)
    BY <1>0, <2>2, <2>3 DEF OpBehind, MatPoints
  <2>5. op' = [ op EXCEPT ![p] = n ] /\ files' = files \cup { << kind, op[p].event.iter >> }
    BY <1>1, <2>1 DEF WriteArtifact
  <2>6. \A f \in files' : f \in files \/ BoundAt(f[2])
    BY <2>3, <2>5
  <2> QED BY <1>1, <2>4, <2>5, <2>6, BehindQuietStep DEF WriteArtifact
<1> QED BY <1>1 DEF WriteEvidence

\* A process prepares an event from the run as it is, or as it read it.
LEMMA PrepareBehind ==
  ASSUME IInv, IInv', Behind, UNCHANGED << log, proj, disk >>,
         NEW p \in Procs, NEW n, op' = [ op EXCEPT ![p] = n ],
         n.pc = "commit", n.doc = op[p].doc, n.snap \in {op[p].snap, proj},
         n.event.type = "iteration_appended" => n.event.bound
  PROVE  Behind'
<1>1. OpBehind(op[p]) /\ SnapBehind(proj)
  BY DEF Behind
<1>2. OpBehind(n)
  BY <1>1 DEF OpBehind, MatPoints
<1> QED BY <1>2, BehindQuietStep DEF disk

LEMMA PlanningBehind ==
  ASSUME IInv, IInv', Behind, NEW p \in Procs,
         \/ Approve(p) \/ Pause(p) \/ Resume(p) \/ Cancel(p) \/ Verify(p) \/ Conclude(p)
  PROVE  Behind'
<1>0. op[p] \in Ops
  BY DEF IInv, OpsInv, OpInv
<1>1. ASSUME NEW cmd, NEW e, Prepare(p, cmd, e), e.type # "iteration_appended"
      PROVE  Behind'
  <2>1. PICK n : n = [ op[p] EXCEPT !.pc = "commit", !.cmd = cmd, !.snap = proj,
                         !.event = e, !.verdict = e.verdict ]
    OBVIOUS
  <2>2. n.pc = "commit" /\ n.doc = op[p].doc /\ n.snap = proj /\ n.event = e
    BY <1>0, <2>1 DEF Ops
  <2>3. op' = [ op EXCEPT ![p] = n ] /\ UNCHANGED << log, proj, disk >>
    BY <1>1, <2>1 DEF Prepare
  <2> QED BY <1>1, <2>2, <2>3, PrepareBehind
<1>2. CASE Approve(p)
  <2> DEFINE e == [ Event("approval_resolved", proj.count) EXCEPT
                      !.iter = proj.iter, !.cause = proj.pending ]
             Den == [ e EXCEPT !.decision = "denied" ]
             App(t) == [ e EXCEPT !.decision = "approved", !.target = t ]
  <2>1. Den.type = "approval_resolved" /\ \A t : App(t).type = "approval_resolved"
    BY DEF Event
  <2>2. Prepare(p, "approve", Den) \/ \E t \in ResumeTargets : Prepare(p, "approve", App(t))
    BY <1>2 DEF Approve
  <2> HIDE DEF Den, App
  <2> QED BY <1>1, <2>1, <2>2
<1>3. CASE Pause(p) \/ Resume(p) \/ Cancel(p)
  <2> DEFINE Pa == [ Event("run_paused", proj.count) EXCEPT !.iter = proj.iter ]
             Re == [ Event("run_resumed", proj.count) EXCEPT !.iter = proj.iter ]
             Ca == [ Event("terminal_written", proj.count) EXCEPT
                       !.verdict = [ NoVerdict EXCEPT !.result = "AbortedByHuman" ] ]
  <2>1. Pa.type = "run_paused" /\ Re.type = "run_resumed" /\ Ca.type = "terminal_written"
    BY DEF Event
  <2>2. Prepare(p, "pause", Pa) \/ Prepare(p, "resume", Re) \/ Prepare(p, "cancel", Ca)
    BY <1>3 DEF Pause, Resume, Cancel
  <2> HIDE DEF Pa, Re, Ca
  <2> QED BY <1>1, <2>1, <2>2
<1>4. CASE Verify(p)
  <2> DEFINE s == op[p].snap
             E(t, oc) == [ Event("iteration_appended", s.count) EXCEPT
                  !.iter = s.iter + 1, !.task = t, !.bound = TRUE, !.outcome = oc ]
  <2>1. PICK t, oc : op' = [ op EXCEPT ![p].pc = "commit", ![p].event = E(t, oc) ]
    BY <1>4 DEF Verify
  <2>2. E(t, oc).bound
    BY DEF Event
  <2>3. PICK e : e = E(t, oc)
    OBVIOUS
  <2>4. op' = [ op EXCEPT ![p].pc = "commit", ![p].event = e ] /\ e.bound
    BY <2>1, <2>2, <2>3
  <2>5. PICK n : n = [ op[p] EXCEPT !.pc = "commit", !.event = e ]
    OBVIOUS
  <2>6. n.pc = "commit" /\ n.doc = op[p].doc /\ n.snap = s /\ n.event = e
    BY <1>0, <2>5 DEF Ops
  <2>7. op' = [ op EXCEPT ![p] = n ] /\ UNCHANGED << log, proj, disk >>
    BY ZenonT(40), <1>4, <2>4, <2>5 DEF Verify
  <2> QED BY <2>4, <2>6, <2>7, PrepareBehind
<1>5. CASE Conclude(p)
  <2> DEFINE s == op[p].snap
             v == AutoVerdict(s)
             e == [ Event("terminal_written", s.count) EXCEPT !.iter = s.iter, !.verdict = v ]
  <2>1. PICK n : n = [ op[p] EXCEPT !.pc = "commit", !.verdict = v, !.event = e ]
    OBVIOUS
  <2>2. op' = [ op EXCEPT ![p] = n ] /\ UNCHANGED << log, proj, disk >>
    BY <1>5, <2>1 DEF Conclude
  <2>3. e.type = "terminal_written"
    BY DEF Event
  <2> HIDE DEF e, v
  <2>4. n.pc = "commit" /\ n.doc = op[p].doc /\ n.snap = s /\ n.event = e
    BY <1>0, <2>1 DEF Ops
  <2> QED BY <2>2, <2>3, <2>4, PrepareBehind
<1> QED BY <1>2, <1>3, <1>4, <1>5

LEMMA StartBehind ==
  ASSUME IInv, IInv', Behind, NEW p \in Procs, RunReady(p) \/ RunTerminal(p) \/ Reread(p)
  PROVE  Behind'
<1>0. op[p] \in Ops /\ OpBehind(op[p]) /\ SnapBehind(proj)
  BY DEF IInv, OpsInv, OpInv, Behind
<1>1. ASSUME NEW n, op' = [ op EXCEPT ![p] = n ], n.snap = proj, n.doc = op[p].doc,
             n.pc \in {"reconcile", "end_check", "doc_read"}
      PROVE  Behind'
  <2>1. OpBehind(n)
    BY <1>0, <1>1 DEF OpBehind, MatPoints
  <2>2. UNCHANGED << log, proj, disk >>
    BY DEF RunReady, RunTerminal, Reread
  <2> QED BY <1>1, <2>1, <2>2, BehindQuietStep DEF disk
<1>2. CASE RunReady(p)
  <2>1. PICK n : n = [ op[p] EXCEPT !.pc = "reconcile", !.cmd = "run", !.snap = proj ]
    OBVIOUS
  <2>2. op' = [ op EXCEPT ![p] = n ]
    BY <1>2, <2>1 DEF RunReady
  <2>3. n.snap = proj /\ n.doc = op[p].doc /\ n.pc = "reconcile"
    BY <1>0, <2>1 DEF Ops
  <2> QED BY <1>1, <2>2, <2>3
<1>3. CASE RunTerminal(p)
  <2>1. PICK n : n = [ op[p] EXCEPT !.pc = "end_check", !.cmd = "run",
                         !.snap = proj, !.verdict = proj.terminal.verdict ]
    OBVIOUS
  <2>2. op' = [ op EXCEPT ![p] = n ]
    BY <1>3, <2>1 DEF RunTerminal
  <2>3. n.snap = proj /\ n.doc = op[p].doc /\ n.pc = "end_check"
    BY <1>0, <2>1 DEF Ops
  <2> QED BY <1>1, <2>2, <2>3
<1>4. CASE Reread(p)
  <2>1. PICK n : n = [ op[p] EXCEPT !.pc = "doc_read", !.snap = proj ]
    OBVIOUS
  <2>2. op' = [ op EXCEPT ![p] = n ] \/ Return(p)
    BY <1>4, <2>1 DEF Reread
  <2>3. n.snap = proj /\ n.doc = op[p].doc /\ n.pc = "doc_read"
    BY <1>0, <2>1 DEF Ops
  <2>4. UNCHANGED << log, proj, disk >>
    BY <1>4 DEF Reread
  <2> QED BY <1>1, <2>2, <2>3, <2>4, ReturnBehind DEF disk
<1> QED BY <1>2, <1>3, <1>4

LEMMA MaterializeBehind ==
  ASSUME IInv, IInv', History, Behind, NEW p \in Procs,
         \/ Reconcile(p) \/ MaterializeRead(p) \/ MaterializeCheck(p)
         \/ MaterializeBlock(p) \/ MaterializeStamp(p)
  PROVE  Behind'
<1>0. op[p] \in Ops /\ OpBehind(op[p])
  BY DEF IInv, OpsInv, OpInv, Behind
<1>1. CASE Reconcile(p)
  BY <1>1, ReconcileFromBehind DEF Reconcile, disk
<1>2. CASE MaterializeRead(p)
  <2>1. op[p].pc \in MatPoints /\ UNCHANGED << log, proj, disk >>
    BY <1>2 DEF MaterializeRead, At, MatPoints
  <2>2. Return(p) \/ op' = [ op EXCEPT ![p].pc = "mat_check", ![p].doc = state ]
    BY <1>2 DEF MaterializeRead
  <2> QED BY <2>1, <2>2, ReturnBehind, ReadBehind DEF disk
<1>3. CASE MaterializeCheck(p)
  <2>1. op[p].pc \in MatPoints /\ UNCHANGED << log, proj, disk >>
    BY <1>3 DEF MaterializeCheck, At, MatPoints
  <2> QED BY <1>3, <2>1, GotoBehind DEF MaterializeCheck, disk
<1>4. CASE MaterializeBlock(p)
  <2>1. op[p].pc \in MatPoints /\ Known(op[p].entry.iter)
    BY <1>0, <1>4 DEF MaterializeBlock, At, MatPoints, OpBehind
  <2> QED BY <1>4, <2>1, GotoBehind DEF MaterializeBlock
<1>5. CASE MaterializeStamp(p)
  <2> DEFINE e == op[p].entry
             d == [ op[p].doc EXCEPT
                    !.state = IF e.state = None THEN @ ELSE e.state,
                    !.iter = e.iter,
                    !.active = IF e.task = None THEN @ ELSE e.task ]
  <2>1. state' = d /\ UNCHANGED << log, proj, terminal, runlog, files >>
    BY <1>5 DEF MaterializeStamp
  <2>2. op[p].doc \in StateDocs /\ e.iter \in Nat
    BY <1>0 DEF Ops, RunlogEntries
  <2>3. d.iter = e.iter /\ d.pending = op[p].doc.pending /\ d.terminal = op[p].doc.terminal
    BY <2>2 DEF StateDocs
  <2>4. d \in StateDocs
    BY <2>1 DEF IInv, DiskTyped
  <2>5. Known(e.iter)
    BY <1>0, <1>5 DEF OpBehind, MaterializeStamp, At, MatPoints
  <2>6. e.iter <= proj.iter
    BY <2>5 DEF Known, History, Ordered
  <2> HIDE DEF d
  <2>7. DocBehind(d)
    BY <1>0, <2>3, <2>6 DEF OpBehind, DocBehind
  <2>8. Return(p) \/ ReconcileFrom(p, e.iter)
    BY <1>5 DEF MaterializeStamp
  <2> HIDE DEF e
  <2> QED BY <2>1, <2>4, <2>7, <2>8, ReturnBehind, ReconcileFromBehind
<1> QED BY <1>1, <1>2, <1>3, <1>4, <1>5

\* Publishing an end: the marker is stamped after the record is there.
LEMMA PublishBehind ==
  ASSUME IInv, IInv', Behind, NEW p \in Procs,
         \/ EndCheck(p) \/ EndRead(p) \/ EndStamp(p)
         \/ SyncCheck(p) \/ SyncRead(p) \/ SyncStamp(p)
  PROVE  Behind'
<1>0. op[p] \in Ops /\ OpBehind(op[p]) /\ op[p].doc \in StateDocs
  BY DEF IInv, OpsInv, OpInv, Behind, Ops
<1>1. {"end_read", "end_create", "sync_check", "sync_read", "sync_stamp"}
        \cap (MatPoints \cup {"commit", "object", "record", "bundle", "end_stamp"}) = {}
  BY DEF MatPoints
<1>2. CASE EndCheck(p) \/ SyncCheck(p)
  <2>1. UNCHANGED << log, proj, disk >>
    BY <1>2 DEF EndCheck, SyncCheck
  <2>2. \/ Return(p) \/ Goto(p, "end_read") \/ Goto(p, "sync_check")
        \/ Goto(p, "sync_read")
    BY <1>2 DEF EndCheck, SyncCheck
  <2> QED BY <1>1, <2>1, <2>2, ReturnBehind, GotoBehind DEF disk
<1>3. CASE EndRead(p) \/ SyncRead(p)
  <2>1. UNCHANGED << log, proj, disk >>
    BY <1>3 DEF EndRead, SyncRead
  <2>2. \/ Return(p) \/ op' = [ op EXCEPT ![p].pc = "end_create", ![p].doc = state ]
        \/ op' = [ op EXCEPT ![p].pc = "sync_stamp", ![p].doc = state ]
    BY <1>3 DEF EndRead, SyncRead
  <2> QED BY <1>1, <2>1, <2>2, ReturnBehind, ReadBehind DEF disk
<1>4. ASSUME NEW v, state' = [ op[p].doc EXCEPT !.state = TerminalMarker, !.terminal = v ],
             v # None => terminal # NoVerdict
      PROVE  \E d \in StateDocs : DocBehind(d) /\ state' = d
  <2>1. PICK d : d = [ op[p].doc EXCEPT !.state = TerminalMarker, !.terminal = v ]
    OBVIOUS
  <2>2. d = state' /\ d \in StateDocs
    BY <1>4, <2>1 DEF IInv, DiskTyped
  <2>3. d.iter = op[p].doc.iter /\ d.pending = op[p].doc.pending /\ d.terminal = v
    BY <1>0, <2>1 DEF StateDocs
  <2> QED BY <1>0, <1>4, <2>2, <2>3 DEF OpBehind, DocBehind
<1>5. CASE EndStamp(p)
  <2>1. op[p].verdict.result # None => terminal # NoVerdict
    BY <1>0, <1>5 DEF EndStamp, At, OpBehind
  <2>2. \E d \in StateDocs : DocBehind(d) /\ state' = d
    BY <1>4, <1>5, <2>1 DEF EndStamp
  <2>3. Return(p) \/ Goto(p, "sync_check")
    BY <1>5 DEF EndStamp
  <2>4. UNCHANGED << log, proj, terminal, runlog, files >>
    BY <1>5 DEF EndStamp
  <2> QED BY <1>1, <2>2, <2>3, <2>4, ReturnBehind, GotoBehind
<1>6. CASE SyncStamp(p)
  <2>1. terminal.result # None => terminal # NoVerdict
    BY DEF NoVerdict
  <2>2. \E d \in StateDocs : DocBehind(d) /\ state' = d
    BY <1>4, <1>6, <2>1 DEF SyncStamp
  <2> QED BY <1>6, <2>2, ReturnBehind DEF SyncStamp
<1> QED BY <1>2, <1>3, <1>5, <1>6

LEMMA CreateBehind ==
  ASSUME IInv, IInv', Behind, NEW p \in Procs, EndCreate(p)
  PROVE  Behind'
<1>0. op[p] \in Ops /\ OpBehind(op[p])
  BY DEF IInv, OpsInv, OpInv, Behind
<1>1. CASE terminal # NoVerdict
  BY <1>1, ReturnBehind DEF EndCreate
<1>2. CASE terminal = NoVerdict
  <2>1. /\ terminal' = op[p].verdict /\ Goto(p, "end_stamp")
        /\ UNCHANGED << log, proj, state, runlog, files >>
    BY <1>2 DEF EndCreate
  <2>2. PICK n : n = [ op[p] EXCEPT !.pc = "end_stamp" ]
    OBVIOUS
  <2>3. /\ n.pc = "end_stamp" /\ n.doc = op[p].doc /\ n.snap = op[p].snap
        /\ n.verdict = op[p].verdict
    BY <1>0, <2>2 DEF Ops
  <2>4. op' = [ op EXCEPT ![p] = n ]
    BY <2>1, <2>2 DEF Goto
  <2>5. Onward
    BY <1>2, <2>1, QuietOnward
  <2>6. n \in Ops /\ n.doc \in StateDocs /\ n.snap \in Projections
    BY <1>0, <2>2 DEF Ops, ProgramPoints
  <2>7. DocBehind(n.doc)' /\ SnapBehind(n.snap)'
    BY <1>0, <2>3, <2>5, <2>6, DocStaysBehind, SnapStaysBehind DEF OpBehind
  <2>8. n.verdict.result # None => terminal' # NoVerdict
    BY <2>1, <2>3 DEF NoVerdict
  <2>9. OpBehind(n)'
    BY <2>3, <2>7, <2>8 DEF OpBehind, MatPoints
  <2>10. SnapBehind(proj)'
    BY <2>1, <2>5 DEF Behind, SnapBehind, Known, Requested
  <2> QED BY <2>1, <2>4, <2>5, <2>6, <2>9, <2>10, BehindStep
<1> QED BY <1>1, <1>2

LEMMA SyncProjectionBehind ==
  ASSUME IInv, IInv', Behind, NEW p \in Procs, DocRead(p) \/ DocStamp(p)
  PROVE  Behind'
<1>0. op[p] \in Ops /\ OpBehind(op[p]) /\ op[p].doc \in StateDocs
  BY DEF IInv, OpsInv, OpInv, Behind, Ops
<1>1. CASE DocRead(p)
  <2>1. "doc_stamp" \notin MatPoints
    BY DEF MatPoints
  <2> QED BY <1>1, <2>1, ReadBehind DEF DocRead
<1>2. CASE DocStamp(p)
  <2> DEFINE s == op[p].snap
  <2>1. PICK d : d = [ op[p].doc EXCEPT !.state = s.state, !.paused = s.paused,
                         !.pending = s.pending, !.iter = s.iter ]
    OBVIOUS
  <2>2. d = state' /\ d \in StateDocs
    BY <1>2, <2>1 DEF DocStamp, IInv, DiskTyped
  <2>3. d.iter = s.iter /\ d.pending = s.pending /\ d.terminal = op[p].doc.terminal
    BY <1>0, <2>1 DEF StateDocs
  <2>4. DocBehind(d)
    BY <1>0, <2>3 DEF OpBehind, DocBehind, SnapBehind
  <2> QED BY <1>2, <2>2, <2>4, ReturnBehind DEF DocStamp
<1> QED BY <1>1, <1>2

\* After the append, and not before, the process goes on to materialize.
LEMMA CommitBehind ==
  ASSUME IInv, IInv', History, Behind, NEW p \in Procs, Commit(p)
  PROVE  Behind'
<1> DEFINE o == op[p]
<1>0. o \in Ops /\ OpBehind(o)
  BY DEF IInv, OpsInv, OpInv, Behind
<1>1. o.pc = "commit" /\ o.snap = proj /\ o.event \in Events
  BY CommitReads
<1>2. PICK e \in Events : e = o.event
  BY <1>1
<1>3. Follows(proj, e) /\ AppendEvent(e) /\ UNCHANGED disk
  BY <1>1, <1>2 DEF History, OpTrace, Commit
<1>4. /\ Onward /\ SnapBehind(proj)'
      /\ e.bound => BoundAt(e.iter)'
      /\ e.type = "iteration_appended" => Known(e.iter)'
  BY <1>3, AppendOnward DEF Behind, disk
<1>5. PICK n : n = [ o EXCEPT !.pc = AfterCommit(o) ]
  OBVIOUS
<1>6. /\ n.pc = AfterCommit(o) /\ n.doc = o.doc /\ n.snap = o.snap /\ n.event = e
  BY <1>0, <1>2, <1>5 DEF Ops
<1>7. op' = [ op EXCEPT ![p] = n ]
  BY <1>5 DEF Commit, Goto
<1>8. n \in Ops
  <2>1. DOMAIN op = Procs /\ op'[p] \in Ops
    BY DEF IInv, OpsInv, OpInv
  <2> QED BY <1>7, <2>1
<1>9. DocBehind(n.doc)' /\ SnapBehind(n.snap)'
  BY <1>0, <1>4, <1>6, <1>8, DocStaysBehind, SnapStaysBehind DEF OpBehind, Ops
<1>10. /\ n.pc \in {"object", "end_check", "end_read", "reread"}
       /\ n.pc = "object" => e.type = "iteration_appended"
  BY <1>2, <1>6 DEF AfterCommit
<1>11. e.type = "iteration_appended" => e.bound
  BY <1>0, <1>1, <1>2 DEF OpBehind
<1>12. n.pc = "object" => BoundAt(e.iter)' /\ Known(e.iter)'
  BY <1>4, <1>10, <1>11
<1>13. OpBehind(n)'
  BY <1>6, <1>9, <1>10, <1>12 DEF OpBehind, MatPoints
<1> QED BY <1>3, <1>4, <1>7, <1>8, <1>13, BehindStep DEF disk

LEMMA OrchestratorBehind ==
  ASSUME IInv, IInv', History, Behind, RequestApproval \/ Advance
  PROVE  Behind'
<1>1. PICK e \in Events : Follows(proj, e) /\ AppendEvent(e)
  BY OrchestratorAppends
<1>2. UNCHANGED << disk, op >>
  BY DEF RequestApproval, Advance
<1>3. Onward /\ SnapBehind(proj)'
  BY <1>1, <1>2, AppendOnward DEF Behind, disk
<1>4. (\A q \in Procs : OpBehind(op[q]))'
  <2> SUFFICES ASSUME NEW q \in Procs PROVE OpBehind(op[q])'
    OBVIOUS
  <2>1. PICK o : o = op[q]
    OBVIOUS
  <2>2. o \in Ops /\ OpBehind(o) /\ op'[q] = o
    BY <1>2, <2>1 DEF IInv, OpsInv, OpInv, Behind
  <2>3. OpBehind(o)'
    BY <1>3, <2>2, OpStaysBehind
  <2> QED BY <2>2, <2>3 DEF OpBehind
<1>5. DocBehind(state)'
  <2>1. PICK d \in StateDocs : state = d
    BY DEF IInv, DiskTyped
  <2>2. DocBehind(d)'
    BY <1>3, <2>1, DocStaysBehind DEF Behind
  <2> QED BY <1>2, <2>1, <2>2 DEF DocBehind, disk
<1>6. runlog' = runlog /\ files' = files
  BY <1>2 DEF disk
<1> QED BY <1>3, <1>4, <1>5, <1>6 DEF Behind, Onward

LEMMA NextBehind ==
  ASSUME IInv, IInv', History, Behind, [Next]_vars
  PROVE  Behind'
<1>1. ASSUME NEW p \in Procs, Conflict(p) \/ GiveUp(p) \/ Crash(p) PROVE Behind'
  BY <1>1, ReturnBehind DEF Conflict, GiveUp, Crash, disk
<1>2. ASSUME NEW p \in Procs, Work(p) PROVE Behind'
  BY <1>1, <1>2, CommitBehind, PlanningBehind, StartBehind, WriteEvidenceBehind,
     MaterializeBehind, PublishBehind, CreateBehind, SyncProjectionBehind DEF Work
<1>3. ASSUME NEW p \in Procs, Invoke(p) PROVE Behind'
  BY <1>3, PlanningBehind, StartBehind DEF Invoke
<1>4. CASE EditTasks \/ UNCHANGED vars
  <2>1. UNCHANGED << log, proj, disk, op >>
    BY <1>4 DEF EditTasks, vars, disk
  <2> QED BY <2>1 DEF Behind, OpBehind, DocBehind, SnapBehind, Known, BoundAt, Requested, disk
<1> QED BY <1>1, <1>2, <1>3, <1>4, OrchestratorBehind DEF Next

LEMMA OpeningBehind ==
  ASSUME Init, IInv
  PROVE  Behind
<1>1. /\ proj.iter = 4 /\ proj.pending = NoEvent /\ DOMAIN proj.entries = 1 .. 4
      /\ \A i \in 1 .. 4 : proj.entries[i].iter = i
  BY DEF Init, OpeningProjection, EmptyProjection
<1>2. state.iter = 4 /\ state.pending = NoEvent /\ state.terminal = None
  BY DEF Init, NoDoc
<1>3. DocBehind(state) /\ SnapBehind(proj)
  BY <1>1, <1>2 DEF DocBehind, SnapBehind, Requested, Known
<1>4. runlog = << 1, 2, 3, 4 >> /\ files = {}
  BY DEF Init
<1>5. \A i \in DOMAIN runlog : Known(runlog[i])
  BY <1>1, <1>4 DEF Known
<1>6. /\ Idle.pc = "idle" /\ Idle.doc = NoDoc /\ Idle.snap = EmptyProjection
      /\ NoDoc.iter = 0 /\ NoDoc.pending = NoEvent /\ NoDoc.terminal = None
      /\ EmptyProjection.iter = 0 /\ EmptyProjection.pending = NoEvent
      /\ EmptyProjection.entries = << >>
  BY DEF Idle, NoDoc, EmptyProjection
<1>7. DocBehind(NoDoc) /\ SnapBehind(EmptyProjection)
  BY <1>1, <1>6 DEF DocBehind, SnapBehind, Requested
<1>8. OpBehind(Idle)
  BY <1>6, <1>7 DEF OpBehind, MatPoints
<1>9. \A p \in Procs : op[p] = Idle
  BY DEF Init
<1> QED BY <1>3, <1>4, <1>5, <1>8, <1>9 DEF Behind

\* No file shows what the log does not have, whichever command wrote it, from
\* whatever it had read, and wherever it was killed.
THEOREM LoopRunNeverAhead ==
  ASSUME Tasks # {} PROVE Spec => []ProjectionsNeverAhead
<1>1. Init /\ IInv => Behind
  BY OpeningBehind
<1>2. IInv /\ IInv' /\ History /\ Behind /\ [Next]_vars => Behind'
  BY NextBehind
<1>3. Behind => ProjectionsNeverAhead
  BY DEF Behind, DocBehind, Requested, Known, BoundAt, ProjectionsNeverAhead
<1> QED BY <1>1, <1>2, <1>3, LoopRunIInv, LoopRunHistory, PTL DEF Spec

-----------------------------------------------------------------------------
(* What says that a run has ended.  The marker comes into the log with a      *)
(* terminal event only, since no command and no orchestrator step names it as *)
(* the target of an iteration.                                               *)

EndsMarked(s) ==
  /\ s.state = TerminalMarker <=> s.terminal # NoTerminal
  /\ s.terminal # NoTerminal => VerdictAdmissible(s.terminal.verdict)
  /\ \A i \in DOMAIN s.entries : s.entries[i].state # TerminalMarker

OpMarked(o) ==
  /\ EndsMarked(o.snap)
  /\ o.pc \in {"commit", "object", "record", "bundle"} =>
       /\ o.event.type = "iteration_appended" => o.event.target # TerminalMarker
       /\ o.event.type = "terminal_written" => o.cmd \in {"run", "cancel"}
  /\ o.pc \in MatPoints => o.entry.state # TerminalMarker

Marking == EndsMarked(proj) /\ \A p \in Procs : OpMarked(op[p])

LEMMA AdmissibleIsVerdict == \A v : VerdictAdmissible(v) => v # NoVerdict
BY DEF VerdictAdmissible, TerminalStates, NoVerdict, None

LEMMA AppendMarked ==
  ASSUME IInv, IInv', History, Marking, NEW e \in Events, Follows(proj, e), AppendEvent(e),
         e.type = "iteration_appended" => e.target # TerminalMarker
  PROVE  /\ EndsMarked(proj)'
         /\ e.type # "terminal_written" => proj'.terminal = NoTerminal
<1>1. PICK x : x = [ e EXCEPT !.seq = Len(log) ]
  OBVIOUS
<1>2. /\ Len(log) \in Nat /\ proj \in Projections /\ proj.legal
      /\ proj'.legal /\ proj.entries \in Seq(RunlogEntries)
      /\ EndsMarked(proj)
  BY DEF IInv, LogInv, Projections, Marking
<1>3. /\ x \in Events /\ x.type = e.type /\ x.target = e.target /\ x.verdict = e.verdict
      /\ x.decision = e.decision /\ x.seq = Len(log)
  BY <1>1, <1>2 DEF Events
<1>4. proj' = ReduceOne(proj, x)
  BY <1>1 DEF AppendEvent
<1>5. ~Refused(proj, x)
  BY <1>2, <1>4 DEF ReduceOne, Illegal, EmptyProjection
<1>6. x.type \notin {"contract_opened", "terminal_superseded"}
  BY <1>3 DEF Follows
<1>7. /\ proj.terminal = NoTerminal
      /\ proj'.entries = IF e.type = "iteration_appended"
                         THEN Append(proj.entries, Entry(x)) ELSE proj.entries
      /\ proj'.terminal = IF e.type = "terminal_written"
                          THEN [ verdict |-> x.verdict, seq |-> x.seq ] ELSE proj.terminal
  BY <1>2, <1>3, <1>4, <1>5, <1>6, ReduceOneFields
<1>8. proj.state # TerminalMarker
  BY <1>2, <1>7 DEF EndsMarked
<1>9. e.type # "terminal_written" => proj'.state # TerminalMarker
  <2>1. e.type = "approval_resolved" /\ e.decision = "approved" => e.target # TerminalMarker
    BY <1>3, <1>5 DEF Refused, ResolutionRefused, ResumeTargets
  <2>2. ApprovalWait # TerminalMarker
    BY DEF ApprovalWait, TerminalMarker
  <2> QED
    BY <1>2, <1>3, <1>4, <1>5, <1>6, <1>8, <2>1, <2>2, ReduceOneState DEF Events, EventTypes
<1>10. e.type = "terminal_written" =>
         /\ proj'.terminal # NoTerminal /\ VerdictAdmissible(proj'.terminal.verdict)
         /\ proj'.state = TerminalMarker
  <2>1. e.type = "terminal_written" => VerdictAdmissible(x.verdict)
    BY <1>3, <1>5 DEF Refused, TerminalRefused
  <2>2. Len(log) # NoEvent
    BY <1>2 DEF NoEvent
  <2>3. e.type = "terminal_written" => proj'.state = TerminalMarker
    BY <1>2, <1>3, <1>4, <1>5, <1>6, ReduceOneState
  <2> QED BY <1>3, <1>7, <2>1, <2>2, <2>3 DEF NoTerminal
<1>11. (\A i \in DOMAIN proj.entries : proj.entries[i].state # TerminalMarker)'
  <2>1. Entry(x).state = e.target
    BY <1>3 DEF Entry
  <2> QED BY <1>2, <1>7, <2>1 DEF EndsMarked
<1>12. e.type # "terminal_written" => proj'.terminal = NoTerminal
  BY <1>7
<1> QED BY <1>9, <1>10, <1>11, <1>12 DEF EndsMarked

LEMMA MarkedStep ==
  ASSUME IInv, Marking, EndsMarked(proj)', NEW p \in Procs, NEW n,
         op' = [ op EXCEPT ![p] = n ], OpMarked(n)
  PROVE  Marking'
<1>1. DOMAIN op = Procs
  BY DEF IInv, OpsInv
<1>2. \A q \in Procs : op'[q] = op[q] \/ op'[q] = n
  BY <1>1
<1>3. (\A q \in Procs : OpMarked(op[q]))'
  BY <1>2 DEF Marking, OpMarked, EndsMarked
<1> QED BY <1>3 DEF Marking

LEMMA ReturnMarked ==
  ASSUME IInv, Marking, proj' = proj, NEW p \in Procs, Return(p)
  PROVE  Marking'
<1>1. Idle.pc = "idle" /\ Idle.snap = EmptyProjection
  BY DEF Idle
<1>2. EndsMarked(EmptyProjection)
  BY DEF EndsMarked, EmptyProjection, TerminalMarker, None
<1>3. OpMarked(Idle)
  BY <1>1, <1>2 DEF OpMarked, MatPoints
<1>4. EndsMarked(proj)'
  BY DEF Marking, EndsMarked
<1> QED BY <1>3, <1>4, MarkedStep DEF Return

\* A process goes on with what it has, or with the state.json it just read.
LEMMA GoOnMarked ==
  ASSUME IInv, Marking, proj' = proj, NEW p \in Procs, NEW pc, NEW doc,
         op' = [ op EXCEPT ![p].pc = pc, ![p].doc = doc ],
         pc \notin {"commit", "object", "record", "bundle"},
         pc \in MatPoints => op[p].pc \in MatPoints
  PROVE  Marking'
<1>1. op[p] \in Ops /\ OpMarked(op[p])
  BY DEF IInv, OpsInv, OpInv, Marking
<1>2. PICK n : n = [ op[p] EXCEPT !.pc = pc, !.doc = doc ]
  OBVIOUS
<1>3. n.pc = pc /\ n.snap = op[p].snap /\ n.entry = op[p].entry
  BY <1>1, <1>2 DEF Ops
<1>4. OpMarked(n)
  BY <1>1, <1>3 DEF OpMarked
<1>5. EndsMarked(proj)'
  BY DEF Marking, EndsMarked
<1>6. op' = [ op EXCEPT ![p] = n ]
  BY <1>2
<1> QED BY <1>4, <1>5, <1>6, MarkedStep

LEMMA GotoMarked ==
  ASSUME IInv, Marking, proj' = proj, NEW p \in Procs, NEW pc, Goto(p, pc),
         pc \notin {"commit", "object", "record", "bundle"},
         pc \in MatPoints => op[p].pc \in MatPoints
  PROVE  Marking'
<1>1. op[p] \in Ops
  BY DEF IInv, OpsInv, OpInv
<1>2. op' = [ op EXCEPT ![p].pc = pc, ![p].doc = op[p].doc ]
  BY <1>1 DEF Goto, Ops
<1> QED BY <1>2, GoOnMarked

LEMMA ReconcileFromMarked ==
  ASSUME IInv, Marking, proj' = proj, NEW p \in Procs, NEW current, ReconcileFrom(p, current)
  PROVE  Marking'
<1>0. op[p] \in Ops /\ OpMarked(op[p])
  BY DEF IInv, OpsInv, OpInv, Marking
<1>1. EndsMarked(proj)'
  BY DEF Marking, EndsMarked
<1>2. CASE op' = [ op EXCEPT ![p].pc = "select", ![p].doc = NoDoc,
                             ![p].entry = Entry(NoEventYet) ]
  <2>1. PICK n : n = [ op[p] EXCEPT !.pc = "select", !.doc = NoDoc,
                                    !.entry = Entry(NoEventYet) ]
    OBVIOUS
  <2>2. n.pc = "select" /\ n.snap = op[p].snap
    BY <1>0, <2>1 DEF Ops
  <2>3. OpMarked(n)
    BY <1>0, <2>2 DEF OpMarked, MatPoints
  <2>4. op' = [ op EXCEPT ![p] = n ]
    BY <1>2, <2>1
  <2> QED BY <1>1, <2>3, <2>4, MarkedStep
<1>3. ASSUME NEW i \in DOMAIN op[p].snap.entries,
             op' = [ op EXCEPT ![p].pc = "mat_read", ![p].entry = op[p].snap.entries[i] ]
      PROVE  Marking'
  <2>1. PICK n : n = [ op[p] EXCEPT !.pc = "mat_read", !.entry = op[p].snap.entries[i] ]
    OBVIOUS
  <2>2. n.pc = "mat_read" /\ n.snap = op[p].snap /\ n.entry = op[p].snap.entries[i]
    BY <1>0, <2>1 DEF Ops
  <2>3. OpMarked(n)
    BY <1>0, <2>2 DEF OpMarked, EndsMarked
  <2>4. op' = [ op EXCEPT ![p] = n ]
    BY <1>3, <2>1
  <2> QED BY <1>1, <2>3, <2>4, MarkedStep
<1> QED BY <1>2, <1>3 DEF ReconcileFrom

LEMMA WriteEvidenceMarked ==
  ASSUME IInv, Marking, NEW p \in Procs, WriteEvidence(p)
  PROVE  Marking'
<1>0. op[p] \in Ops /\ OpMarked(op[p]) /\ OpInv(op[p], proj)
  BY DEF IInv, OpsInv, OpInv, Marking
<1>1. ASSUME NEW kind \in {"object", "record", "bundle"},
             NEW then \in {"record", "bundle", "mat_read"}, WriteArtifact(p, kind, then)
      PROVE  Marking'
  <2>1. PICK n : n = [ op[p] EXCEPT !.pc = then,
                         !.entry = IF then = "mat_read" THEN Entry(op[p].event) ELSE @ ]
    OBVIOUS
  <2>2. /\ n.pc = then /\ n.snap = op[p].snap /\ n.event = op[p].event /\ n.cmd = op[p].cmd
        /\ then = "mat_read" => n.entry.state = op[p].event.target
    BY <1>0, <2>1 DEF Ops, Entry
  <2>3. op[p].pc \in {"object", "record", "bundle"} /\ op[p].event.type = "iteration_appended"
    BY <1>0, <1>1 DEF WriteArtifact, At, OpInv
  <2>4. OpMarked(n)
    BY <1>0, <2>2, <2>3 DEF OpMarked, MatPoints
  <2>5. op' = [ op EXCEPT ![p] = n ] /\ proj' = proj
    BY <1>1, <2>1 DEF WriteArtifact
  <2>6. EndsMarked(proj)'
    BY <2>5 DEF Marking, EndsMarked
  <2> QED BY <2>4, <2>5, <2>6, MarkedStep
<1> QED BY <1>1 DEF WriteEvidence

LEMMA PlanningMarked ==
  ASSUME IInv, History, Marking, NEW p \in Procs,
         \/ Approve(p) \/ Pause(p) \/ Resume(p) \/ Cancel(p) \/ Verify(p) \/ Conclude(p)
  PROVE  Marking'
<1>0. op[p] \in Ops /\ OpMarked(op[p])
  BY DEF IInv, OpsInv, OpInv, Marking
<1>1. EndsMarked(proj) /\ EndsMarked(proj)'
  BY DEF Marking, EndsMarked, Approve, Pause, Resume, Cancel, Prepare, Verify, Conclude
<1>2. ASSUME NEW cmd, NEW e, Prepare(p, cmd, e), e.type # "iteration_appended",
             e.type = "terminal_written" => cmd = "cancel"
      PROVE  Marking'
  <2>1. PICK n : n = [ op[p] EXCEPT !.pc = "commit", !.cmd = cmd, !.snap = proj,
                         !.event = e, !.verdict = e.verdict ]
    OBVIOUS
  <2>2. n.pc = "commit" /\ n.snap = proj /\ n.event = e /\ n.cmd = cmd
    BY <1>0, <2>1 DEF Ops
  <2>3. op' = [ op EXCEPT ![p] = n ]
    BY <1>2, <2>1 DEF Prepare
  <2>4. OpMarked(n)
    BY <1>1, <1>2, <2>2 DEF OpMarked, MatPoints
  <2> QED BY <1>1, <2>3, <2>4, MarkedStep
<1>3. CASE Approve(p)
  <2> DEFINE e == [ Event("approval_resolved", proj.count) EXCEPT
                      !.iter = proj.iter, !.cause = proj.pending ]
             Den == [ e EXCEPT !.decision = "denied" ]
             App(t) == [ e EXCEPT !.decision = "approved", !.target = t ]
  <2>1. Den.type = "approval_resolved" /\ \A t : App(t).type = "approval_resolved"
    BY DEF Event
  <2>2. Prepare(p, "approve", Den) \/ \E t \in ResumeTargets : Prepare(p, "approve", App(t))
    BY <1>3 DEF Approve
  <2> HIDE DEF Den, App
  <2> QED BY <1>2, <2>1, <2>2
<1>4. CASE Pause(p) \/ Resume(p) \/ Cancel(p)
  <2> DEFINE Pa == [ Event("run_paused", proj.count) EXCEPT !.iter = proj.iter ]
             Re == [ Event("run_resumed", proj.count) EXCEPT !.iter = proj.iter ]
             Ca == [ Event("terminal_written", proj.count) EXCEPT
                       !.verdict = [ NoVerdict EXCEPT !.result = "AbortedByHuman" ] ]
  <2>1. Pa.type = "run_paused" /\ Re.type = "run_resumed" /\ Ca.type = "terminal_written"
    BY DEF Event
  <2>2. Prepare(p, "pause", Pa) \/ Prepare(p, "resume", Re) \/ Prepare(p, "cancel", Ca)
    BY <1>4 DEF Pause, Resume, Cancel
  <2> HIDE DEF Pa, Re, Ca
  <2> QED BY <1>2, <2>1, <2>2
<1>5. op[p].pc = "select" => op[p].cmd = "run"
  BY DEF History, OpTrace, RunPoints
<1>6. CASE Verify(p)
  <2> DEFINE s == op[p].snap
             E(t, oc) == [ Event("iteration_appended", s.count) EXCEPT
                  !.iter = s.iter + 1, !.task = t, !.bound = TRUE, !.outcome = oc ]
  <2>1. PICK t, oc : op' = [ op EXCEPT ![p].pc = "commit", ![p].event = E(t, oc) ]
    BY <1>6 DEF Verify
  <2>2. E(t, oc).target # TerminalMarker /\ E(t, oc).type = "iteration_appended"
    BY DEF Event, None, TerminalMarker
  <2>3. PICK e : e = E(t, oc)
    OBVIOUS
  <2>4. PICK n : n = [ op[p] EXCEPT !.pc = "commit", !.event = e ]
    OBVIOUS
  <2>5. n.pc = "commit" /\ n.snap = s /\ n.event = e
    BY <1>0, <2>4 DEF Ops
  <2>6. op' = [ op EXCEPT ![p] = n ]
    BY <2>1, <2>3, <2>4
  <2>7. e.target # TerminalMarker /\ e.type = "iteration_appended"
    BY <2>2, <2>3
  <2>8. OpMarked(n)
    BY <1>0, <2>5, <2>7 DEF OpMarked, MatPoints
  <2> QED BY <1>1, <2>6, <2>8, MarkedStep
<1>7. CASE Conclude(p)
  <2> DEFINE s == op[p].snap
             v == AutoVerdict(s)
             e == [ Event("terminal_written", s.count) EXCEPT !.iter = s.iter, !.verdict = v ]
  <2>1. PICK n : n = [ op[p] EXCEPT !.pc = "commit", !.verdict = v, !.event = e ]
    OBVIOUS
  <2>2. op' = [ op EXCEPT ![p] = n ]
    BY <1>7, <2>1 DEF Conclude
  <2>3. e.type = "terminal_written"
    BY DEF Event
  <2> HIDE DEF e, v
  <2>4. n.pc = "commit" /\ n.snap = s /\ n.event = e /\ n.cmd = op[p].cmd
    BY <1>0, <2>1 DEF Ops
  <2>5. op[p].cmd = "run"
    BY <1>5, <1>7 DEF Conclude, At
  <2>6. OpMarked(n)
    BY <1>0, <2>3, <2>4, <2>5 DEF OpMarked, MatPoints
  <2> QED BY <1>1, <2>2, <2>6, MarkedStep
<1> QED BY <1>3, <1>4, <1>6, <1>7

LEMMA StartMarked ==
  ASSUME IInv, Marking, NEW p \in Procs, RunReady(p) \/ RunTerminal(p) \/ Reread(p)
  PROVE  Marking'
<1>0. op[p] \in Ops /\ proj' = proj
  BY DEF IInv, OpsInv, OpInv, RunReady, RunTerminal, Reread
<1>1. ASSUME NEW n, op' = [ op EXCEPT ![p] = n ], n.snap = proj,
             n.pc \in {"reconcile", "end_check", "doc_read"}
      PROVE  Marking'
  <2>1. EndsMarked(proj) /\ EndsMarked(proj)'
    BY <1>0 DEF Marking, EndsMarked
  <2>2. OpMarked(n)
    BY <1>1, <2>1 DEF OpMarked, MatPoints
  <2> QED BY <1>1, <2>1, <2>2, MarkedStep
<1>2. CASE RunReady(p)
  <2>1. PICK n : n = [ op[p] EXCEPT !.pc = "reconcile", !.cmd = "run", !.snap = proj ]
    OBVIOUS
  <2>2. op' = [ op EXCEPT ![p] = n ]
    BY <1>2, <2>1 DEF RunReady
  <2>3. n.snap = proj /\ n.pc = "reconcile"
    BY <1>0, <2>1 DEF Ops
  <2> QED BY <1>1, <2>2, <2>3
<1>3. CASE RunTerminal(p)
  <2>1. PICK n : n = [ op[p] EXCEPT !.pc = "end_check", !.cmd = "run",
                         !.snap = proj, !.verdict = proj.terminal.verdict ]
    OBVIOUS
  <2>2. op' = [ op EXCEPT ![p] = n ]
    BY <1>3, <2>1 DEF RunTerminal
  <2>3. n.snap = proj /\ n.pc = "end_check"
    BY <1>0, <2>1 DEF Ops
  <2> QED BY <1>1, <2>2, <2>3
<1>4. CASE Reread(p)
  <2>1. PICK n : n = [ op[p] EXCEPT !.pc = "doc_read", !.snap = proj ]
    OBVIOUS
  <2>2. op' = [ op EXCEPT ![p] = n ] \/ Return(p)
    BY <1>4, <2>1 DEF Reread
  <2>3. n.snap = proj /\ n.pc = "doc_read"
    BY <1>0, <2>1 DEF Ops
  <2> QED BY <1>0, <1>1, <2>2, <2>3, ReturnMarked
<1> QED BY <1>2, <1>3, <1>4

LEMMA FileStepsMarked ==
  ASSUME IInv, Marking, NEW p \in Procs,
         \/ Conflict(p) \/ GiveUp(p) \/ Crash(p) \/ Reconcile(p)
         \/ MaterializeRead(p) \/ MaterializeCheck(p)
         \/ MaterializeBlock(p) \/ MaterializeStamp(p)
         \/ EndCheck(p) \/ EndRead(p) \/ EndCreate(p) \/ EndStamp(p)
         \/ SyncCheck(p) \/ SyncRead(p) \/ SyncStamp(p) \/ DocRead(p) \/ DocStamp(p)
  PROVE  Marking'
<1>0. proj' = proj
  BY DEF Conflict, GiveUp, Crash, Reconcile, MaterializeRead, MaterializeCheck,
     MaterializeBlock, MaterializeStamp, EndCheck, EndRead, EndCreate, EndStamp,
     SyncCheck, SyncRead, SyncStamp, DocRead, DocStamp
<1> DEFINE Fresh == {"end_read", "end_create", "end_stamp", "sync_check", "sync_read",
                     "sync_stamp", "doc_stamp"}
           Mat == {"mat_check", "mat_block", "mat_stamp"}
<1>1. /\ (Fresh \cup Mat) \cap {"commit", "object", "record", "bundle"} = {}
      /\ Fresh \cap MatPoints = {}
  BY DEF MatPoints
<1>2. ASSUME NEW pc \in Fresh, Goto(p, pc) PROVE Marking'
  BY <1>0, <1>1, <1>2, GotoMarked
<1>3. ASSUME NEW pc \in Mat, op[p].pc \in MatPoints, Goto(p, pc) PROVE Marking'
  BY <1>0, <1>1, <1>3, GotoMarked
<1>4. ASSUME NEW pc \in Fresh, op' = [ op EXCEPT ![p].pc = pc, ![p].doc = state ]
      PROVE  Marking'
  BY <1>0, <1>1, <1>4, GoOnMarked
<1>5. ASSUME op[p].pc \in MatPoints,
             op' = [ op EXCEPT ![p].pc = "mat_check", ![p].doc = state ]
      PROVE  Marking'
  BY <1>0, <1>1, <1>5, GoOnMarked
<1>6. Return(p) => Marking'
  BY <1>0, ReturnMarked
<1>7. \A current : ReconcileFrom(p, current) => Marking'
  BY <1>0, ReconcileFromMarked
<1>8. CASE Conflict(p) \/ GiveUp(p) \/ Crash(p) \/ SyncStamp(p) \/ DocStamp(p)
  BY <1>6, <1>8 DEF Conflict, GiveUp, Crash, SyncStamp, DocStamp
<1>9. CASE Reconcile(p) \/ MaterializeStamp(p)
  BY <1>6, <1>7, <1>9 DEF Reconcile, MaterializeStamp
<1>10. CASE MaterializeRead(p) \/ MaterializeCheck(p) \/ MaterializeBlock(p)
  <2>1. op[p].pc \in MatPoints
    BY <1>10 DEF MaterializeRead, MaterializeCheck, MaterializeBlock, At, MatPoints
  <2>2. \/ Return(p) \/ Goto(p, "mat_stamp") \/ Goto(p, "mat_block")
        \/ op' = [ op EXCEPT ![p].pc = "mat_check", ![p].doc = state ]
    BY <1>10 DEF MaterializeRead, MaterializeCheck, MaterializeBlock
  <2> QED BY <1>3, <1>5, <1>6, <2>1, <2>2
<1>11. CASE EndCheck(p) \/ EndCreate(p) \/ EndStamp(p) \/ SyncCheck(p)
  <2>1. \/ Return(p) \/ Goto(p, "end_read") \/ Goto(p, "sync_check")
        \/ Goto(p, "end_stamp") \/ Goto(p, "sync_read")
    BY <1>11 DEF EndCheck, EndCreate, EndStamp, SyncCheck
  <2> QED BY <1>2, <1>6, <2>1
<1>12. CASE EndRead(p) \/ SyncRead(p) \/ DocRead(p)
  <2>1. \/ Return(p) \/ op' = [ op EXCEPT ![p].pc = "end_create", ![p].doc = state ]
        \/ op' = [ op EXCEPT ![p].pc = "sync_stamp", ![p].doc = state ]
        \/ op' = [ op EXCEPT ![p].pc = "doc_stamp", ![p].doc = state ]
    BY <1>12 DEF EndRead, SyncRead, DocRead
  <2> QED BY <1>4, <1>6, <2>1
<1> QED BY <1>8, <1>9, <1>10, <1>11, <1>12

LEMMA CommitMarked ==
  ASSUME IInv, IInv', History, Marking, NEW p \in Procs, Commit(p)
  PROVE  /\ Marking'
         /\ op'[p].pc \in {"object", "end_check", "end_read", "reread"}
         /\ op'[p].pc \in {"object", "reread"} => proj'.terminal = NoTerminal
<1> DEFINE o == op[p]
<1>0. o \in Ops /\ OpMarked(o) /\ DOMAIN op = Procs
  BY DEF IInv, OpsInv, OpInv, Marking
<1>1. o.pc = "commit" /\ o.snap = proj /\ o.event \in Events
  BY CommitReads
<1>2. PICK e \in Events : e = o.event
  BY <1>1
<1>3. Follows(proj, e) /\ AppendEvent(e)
  BY <1>1, <1>2 DEF History, OpTrace, Commit
<1>4. /\ e.type = "iteration_appended" => e.target # TerminalMarker
      /\ e.type = "terminal_written" => o.cmd \in {"run", "cancel"}
  BY <1>0, <1>1, <1>2 DEF OpMarked
<1>5. EndsMarked(proj)' /\ (e.type # "terminal_written" => proj'.terminal = NoTerminal)
  BY <1>3, <1>4, AppendMarked
<1>6. PICK n : n = [ o EXCEPT !.pc = AfterCommit(o) ]
  OBVIOUS
<1>7. n.pc = AfterCommit(o) /\ n.snap = o.snap /\ n.event = e /\ n.cmd = o.cmd
  BY <1>0, <1>2, <1>6 DEF Ops
<1>8. op' = [ op EXCEPT ![p] = n ]
  BY <1>6 DEF Commit, Goto
<1>9. n.pc \in {"object", "end_check", "end_read", "reread"}
  BY <1>7 DEF AfterCommit
<1>10. n.pc \in {"object", "reread"} => e.type # "terminal_written"
  BY <1>2, <1>4, <1>7 DEF AfterCommit
<1>11. OpMarked(n)
  BY <1>0, <1>4, <1>7, <1>9 DEF OpMarked, MatPoints
<1>12. op'[p] = n
  BY <1>0, <1>8
<1> QED BY <1>5, <1>8, <1>9, <1>10, <1>11, <1>12, MarkedStep

LEMMA OrchestratorMarked ==
  ASSUME IInv, IInv', History, Marking, RequestApproval \/ Advance
  PROVE  Marking' /\ proj'.terminal = NoTerminal
<1>0. proj.count \in Nat /\ proj.iter \in Nat /\ proj.iter + 1 \in Nat
  BY DEF IInv, LogInv, Projections
<1>1. proj'.terminal = NoTerminal
  BY OrchestratorLeavesRunOpen
<1>2. PICK e \in Events : /\ Follows(proj, e) /\ AppendEvent(e)
                          /\ e.type = "iteration_appended" => e.target # TerminalMarker
  <2>1. CASE RequestApproval
    <3>1. PICK e : e = [ Event("approval_requested", proj.count) EXCEPT
                           !.iter = proj.iter + 1 ]
      OBVIOUS
    <3>2. e \in Events /\ e.type = "approval_requested" /\ e.iter = proj.iter + 1
      <4>1. /\ Event("approval_requested", proj.count) \in Events
            /\ Event("approval_requested", proj.count).type = "approval_requested"
        BY <1>0, EventTyped DEF EventTypes
      <4> QED BY <1>0, <3>1, <4>1 DEF Events
    <3>3. AppendEvent(e)
      BY <2>1, <3>1 DEF RequestApproval
    <3>4. Follows(proj, e)
      BY <1>0, <3>2 DEF Follows
    <3> QED BY <3>2, <3>3, <3>4
  <2>2. CASE Advance
    <3>1. PICK t \in LegalTargets(proj.state) \ {TerminalMarker, ApprovalWait} :
            AppendEvent([ Event("iteration_appended", proj.count) EXCEPT
                            !.iter = proj.iter + 1, !.outcome = "replanned", !.target = t ])
      BY <2>2 DEF Advance
    <3>2. PICK e : e = [ Event("iteration_appended", proj.count) EXCEPT
                           !.iter = proj.iter + 1, !.outcome = "replanned", !.target = t ]
      OBVIOUS
    <3>3. /\ Event("iteration_appended", proj.count) \in Events
          /\ Event("iteration_appended", proj.count).type = "iteration_appended"
      BY <1>0, EventTyped DEF EventTypes
    <3>4. t \in AllStates /\ "replanned" \in Outcomes
      BY <3>1 DEF LegalTargets, Outcomes
    <3>5. /\ e \in Events /\ e.type = "iteration_appended" /\ e.iter = proj.iter + 1
          /\ e.outcome = "replanned" /\ e.target = t
      BY <1>0, <3>2, <3>3, <3>4 DEF Events
    <3>6. Follows(proj, e)
      BY <1>0, <3>5 DEF Follows
    <3> QED BY <3>1, <3>2, <3>5, <3>6
  <2> QED BY <2>1, <2>2
<1>3. EndsMarked(proj)'
  BY <1>2, AppendMarked
<1>4. op' = op
  BY DEF RequestApproval, Advance
<1> QED BY <1>1, <1>3, <1>4 DEF Marking, OpMarked, EndsMarked

LEMMA NextMarked ==
  ASSUME IInv, IInv', History, Marking, [Next]_vars
  PROVE  Marking'
<1>1. ASSUME NEW p \in Procs, Work(p) \/ Crash(p) \/ Invoke(p) PROVE Marking'
  BY <1>1, CommitMarked, PlanningMarked, StartMarked, WriteEvidenceMarked,
     FileStepsMarked DEF Work, Invoke
<1>2. CASE EditTasks \/ UNCHANGED vars
  BY <1>2 DEF EditTasks, vars, Marking, OpMarked, EndsMarked
<1> QED BY <1>1, <1>2, OrchestratorMarked DEF Next

LEMMA OpeningMarked ==
  ASSUME Init
  PROVE  Marking
<1>1. /\ proj.state = "execute-task" /\ proj.terminal = NoTerminal
      /\ DOMAIN proj.entries = 1 .. 4
      /\ \A i \in 1 .. 4 : proj.entries[i].state = OpeningStates[i]
  BY DEF Init, OpeningProjection, EmptyProjection
<1>2. \A i \in 1 .. 4 : OpeningStates[i] # TerminalMarker
  BY DEF OpeningStates, TerminalMarker
<1>3. EndsMarked(proj)
  BY <1>1, <1>2 DEF EndsMarked, TerminalMarker
<1>4. Idle.pc = "idle" /\ Idle.snap = EmptyProjection
  BY DEF Idle
<1>5. EndsMarked(EmptyProjection)
  BY DEF EndsMarked, EmptyProjection, TerminalMarker, None
<1>6. OpMarked(Idle)
  BY <1>4, <1>5 DEF OpMarked, MatPoints
<1> QED BY <1>3, <1>6 DEF Marking, Init

LEMMA LoopRunMarking == ASSUME Tasks # {} PROVE Spec => []Marking
<1>1. Init => Marking
  BY OpeningMarked
<1>2. IInv /\ IInv' /\ History /\ Marking /\ [Next]_vars => Marking'
  BY NextMarked
<1> QED BY <1>1, <1>2, LoopRunIInv, LoopRunHistory, PTL DEF Spec

-----------------------------------------------------------------------------
(* One process at a time, killed wherever it may be.  While it has work to   *)
(* record, or an open run to show, nobody else ends the run, so the log has   *)
(* no end, terminal_state.json does not exist and state.json is not stamped.  *)

OneProcess == \E p : Procs = {p}

OpenPoints == RunPoints \cup { "reread", "doc_read", "doc_stamp" }

SyncPoints == { "sync_check", "sync_read", "sync_stamp" }

SoloOp(o) ==
  /\ o.pc \in OpenPoints => proj.terminal = NoTerminal
  /\ o.pc \in { "doc_read", "doc_stamp" } => o.snap.terminal = NoTerminal
  /\ o.pc \in { "mat_check", "mat_block", "mat_stamp" } => o.doc.state # TerminalMarker
  /\ o.pc = "mat_block" => \A i \in DOMAIN runlog : runlog[i] # o.entry.iter
  /\ o.pc = "end_stamp" => terminal # NoVerdict /\ o.verdict = terminal
  /\ o.pc \in SyncPoints => terminal # NoVerdict

StampHolds ==
  state.state = TerminalMarker => terminal # NoVerdict /\ state.terminal = terminal.result

Solo == StampHolds /\ RunlogBlockOnce /\ \A p \in Procs : SoloOp(op[p])

StampStays ==
  state.state = TerminalMarker =>
    state'.state = TerminalMarker /\ state'.terminal = state.terminal

LEMMA OpenRunUnstamped ==
  ASSUME History, Solo, NEW p \in Procs, op[p].pc \in OpenPoints
  PROVE  proj.terminal = NoTerminal /\ terminal = NoVerdict /\ state.state # TerminalMarker
BY DEF History, Solo, SoloOp, StampHolds

LEMMA SoloStep ==
  ASSUME IInv, OneProcess, StampHolds', RunlogBlockOnce',
         NEW p \in Procs, NEW n, op' = [ op EXCEPT ![p] = n ], SoloOp(n)'
  PROVE  Solo'
<1>1. DOMAIN op = Procs
  BY DEF IInv, OpsInv
<1>2. \A q \in Procs : op'[q] = n
  BY <1>1 DEF OneProcess
<1>3. (\A q \in Procs : SoloOp(op[q]))'
  BY <1>2 DEF SoloOp
<1> QED BY <1>3 DEF Solo

\* A step that writes nothing.
LEMMA SoloQuietStep ==
  ASSUME IInv, OneProcess, Solo, UNCHANGED << proj, terminal, state, runlog >>,
         NEW p \in Procs, NEW n, op' = [ op EXCEPT ![p] = n ], SoloOp(n)
  PROVE  Solo' /\ StampStays
<1>1. StampHolds' /\ RunlogBlockOnce' /\ SoloOp(n)'
  BY DEF Solo, StampHolds, RunlogBlockOnce, SoloOp
<1>2. StampStays
  BY DEF StampStays
<1> QED BY <1>1, <1>2, SoloStep

LEMMA IdleSolo == SoloOp(Idle)
<1>1. Idle.pc = "idle"
  BY DEF Idle
<1> QED BY <1>1 DEF SoloOp, OpenPoints, RunPoints, SyncPoints

LEMMA SoloReturn ==
  ASSUME IInv, OneProcess, Solo, UNCHANGED << proj, terminal, state, runlog >>,
         NEW p \in Procs, Return(p)
  PROVE  Solo' /\ StampStays
BY IdleSolo, SoloQuietStep DEF Return

\* A move that keeps the rest of the record, possibly after a read.
LEMMA SoloMove ==
  ASSUME IInv, OneProcess, Solo, UNCHANGED << proj, terminal, state, runlog >>,
         NEW p \in Procs, NEW pc, NEW doc,
         op' = [ op EXCEPT ![p].pc = pc, ![p].doc = doc ],
         pc \in OpenPoints => op[p].pc \in OpenPoints,
         pc \in { "doc_read", "doc_stamp" } => op[p].pc \in { "doc_read", "doc_stamp" },
         pc \in { "mat_check", "mat_block", "mat_stamp" } => doc.state # TerminalMarker,
         pc = "mat_block" => \A i \in DOMAIN runlog : runlog[i] # op[p].entry.iter,
         pc # "end_stamp",
         pc \in SyncPoints => terminal # NoVerdict
  PROVE  Solo' /\ StampStays
<1>1. op[p] \in Ops /\ SoloOp(op[p])
  BY DEF IInv, OpsInv, OpInv, Solo
<1>2. PICK n : n = [ op[p] EXCEPT !.pc = pc, !.doc = doc ]
  OBVIOUS
<1>3. /\ n.pc = pc /\ n.doc = doc /\ n.snap = op[p].snap /\ n.entry = op[p].entry
  BY <1>1, <1>2 DEF Ops
<1>4. SoloOp(n)
  BY <1>1, <1>3 DEF SoloOp
<1>5. op' = [ op EXCEPT ![p] = n ]
  BY <1>2
<1> QED BY <1>4, <1>5, SoloQuietStep

LEMMA SoloGoto ==
  ASSUME IInv, OneProcess, Solo, UNCHANGED << proj, terminal, state, runlog >>,
         NEW p \in Procs, NEW pc, Goto(p, pc),
         pc \in OpenPoints => op[p].pc \in OpenPoints,
         pc \notin { "doc_read", "doc_stamp", "end_stamp" },
         pc \in { "mat_check", "mat_block", "mat_stamp" } =>
           op[p].pc \in { "mat_check", "mat_block", "mat_stamp" },
         pc = "mat_block" => \A i \in DOMAIN runlog : runlog[i] # op[p].entry.iter,
         pc \in SyncPoints => terminal # NoVerdict
  PROVE  Solo' /\ StampStays
<1>1. op[p] \in Ops /\ SoloOp(op[p])
  BY DEF IInv, OpsInv, OpInv, Solo
<1>2. op' = [ op EXCEPT ![p].pc = pc, ![p].doc = op[p].doc ]
  BY <1>1 DEF Goto, Ops
<1>3. pc \in { "mat_check", "mat_block", "mat_stamp" } => op[p].doc.state # TerminalMarker
  BY <1>1 DEF SoloOp
<1> QED BY <1>2, <1>3, SoloMove

\* A new record at a point that promises nothing, or on an open run.
LEMMA SoloEnter ==
  ASSUME IInv, OneProcess, Solo, UNCHANGED << proj, terminal, state, runlog >>,
         NEW p \in Procs, NEW n, op' = [ op EXCEPT ![p] = n ],
         n.pc \in { "commit", "end_check", "reconcile", "select", "mat_read",
                    "object", "record", "bundle", "doc_read" },
         n.pc \in OpenPoints => proj.terminal = NoTerminal,
         n.pc = "doc_read" => n.snap = proj
  PROVE  Solo' /\ StampStays
<1>1. SoloOp(n)
  BY DEF SoloOp, OpenPoints, SyncPoints
<1> QED BY <1>1, SoloQuietStep

LEMMA SoloReconcileFrom ==
  ASSUME IInv, OneProcess, Solo, UNCHANGED << proj, terminal, state, runlog >>,
         NEW p \in Procs, proj.terminal = NoTerminal, NEW current, ReconcileFrom(p, current)
  PROVE  Solo' /\ StampStays
<1>0. op[p] \in Ops
  BY DEF IInv, OpsInv, OpInv
<1>1. CASE op' = [ op EXCEPT ![p].pc = "select", ![p].doc = NoDoc,
                             ![p].entry = Entry(NoEventYet) ]
  <2>1. PICK n : n = [ op[p] EXCEPT !.pc = "select", !.doc = NoDoc,
                                    !.entry = Entry(NoEventYet) ]
    OBVIOUS
  <2>2. n.pc = "select" /\ op' = [ op EXCEPT ![p] = n ]
    BY <1>0, <1>1, <2>1 DEF Ops
  <2> QED BY <2>2, SoloEnter
<1>2. ASSUME NEW i \in DOMAIN op[p].snap.entries,
             op' = [ op EXCEPT ![p].pc = "mat_read", ![p].entry = op[p].snap.entries[i] ]
      PROVE  Solo' /\ StampStays
  <2>1. PICK n : n = [ op[p] EXCEPT !.pc = "mat_read", !.entry = op[p].snap.entries[i] ]
    OBVIOUS
  <2>2. n.pc = "mat_read" /\ op' = [ op EXCEPT ![p] = n ]
    BY <1>0, <1>2, <2>1 DEF Ops
  <2> QED BY <2>2, SoloEnter
<1> QED BY <1>1, <1>2 DEF ReconcileFrom

LEMMA SoloPlanning ==
  ASSUME IInv, OneProcess, Solo, NEW p \in Procs,
         \/ Approve(p) \/ Pause(p) \/ Resume(p) \/ Cancel(p) \/ Verify(p) \/ Conclude(p)
  PROVE  Solo' /\ StampStays
<1>0. op[p] \in Ops
  BY DEF IInv, OpsInv, OpInv
<1>1. UNCHANGED << proj, terminal, state, runlog >>
  BY DEF Approve, Pause, Resume, Cancel, Prepare, Verify, Conclude, disk
<1>2. "commit" \notin OpenPoints
  BY DEF OpenPoints, RunPoints
<1>3. ASSUME NEW n, n.pc = "commit", op' = [ op EXCEPT ![p] = n ] PROVE Solo' /\ StampStays
  BY <1>1, <1>2, <1>3, SoloEnter
<1>4. ASSUME NEW cmd, NEW e, Prepare(p, cmd, e) PROVE Solo' /\ StampStays
  <2>1. PICK n : n = [ op[p] EXCEPT !.pc = "commit", !.cmd = cmd, !.snap = proj,
                         !.event = e, !.verdict = e.verdict ]
    OBVIOUS
  <2>2. n.pc = "commit" /\ op' = [ op EXCEPT ![p] = n ]
    BY <1>0, <1>4, <2>1 DEF Ops, Prepare
  <2> QED BY <1>3, <2>2
<1>5. CASE Approve(p) \/ Pause(p) \/ Resume(p) \/ Cancel(p)
  BY <1>4, <1>5 DEF Approve, Pause, Resume, Cancel
<1>6. ASSUME NEW v, NEW e, op' = [ op EXCEPT ![p].pc = "commit", ![p].verdict = v, ![p].event = e ]
      PROVE  Solo' /\ StampStays
  <2>1. PICK n : n = [ op[p] EXCEPT !.pc = "commit", !.verdict = v, !.event = e ]
    OBVIOUS
  <2>2. n.pc = "commit" /\ op' = [ op EXCEPT ![p] = n ]
    BY <1>0, <1>6, <2>1 DEF Ops
  <2> QED BY <1>3, <2>2
<1>7. ASSUME NEW e, op' = [ op EXCEPT ![p].pc = "commit", ![p].event = e ]
      PROVE  Solo' /\ StampStays
  <2>1. PICK n : n = [ op[p] EXCEPT !.pc = "commit", !.event = e ]
    OBVIOUS
  <2>2. n.pc = "commit" /\ op' = [ op EXCEPT ![p] = n ]
    BY <1>0, <1>7, <2>1 DEF Ops
  <2> QED BY <1>3, <2>2
<1> QED BY <1>5, <1>6, <1>7 DEF Verify, Conclude

LEMMA SoloStart ==
  ASSUME IInv, OneProcess, History, Solo, NEW p \in Procs,
         RunReady(p) \/ RunTerminal(p) \/ Reread(p)
  PROVE  Solo' /\ StampStays
<1>0. op[p] \in Ops
  BY DEF IInv, OpsInv, OpInv
<1>1. UNCHANGED << proj, terminal, state, runlog >>
  BY DEF RunReady, RunTerminal, Reread, disk
<1>2. CASE RunReady(p)
  <2>1. PICK n : n = [ op[p] EXCEPT !.pc = "reconcile", !.cmd = "run", !.snap = proj ]
    OBVIOUS
  <2>2. n.pc = "reconcile" /\ op' = [ op EXCEPT ![p] = n ] /\ proj.terminal = NoTerminal
    BY <1>0, <1>2, <2>1 DEF Ops, RunReady
  <2> QED BY <1>1, <2>2, SoloEnter
<1>3. CASE RunTerminal(p)
  <2>1. PICK n : n = [ op[p] EXCEPT !.pc = "end_check", !.cmd = "run",
                         !.snap = proj, !.verdict = proj.terminal.verdict ]
    OBVIOUS
  <2>2. n.pc = "end_check" /\ op' = [ op EXCEPT ![p] = n ]
    BY <1>0, <1>3, <2>1 DEF Ops, RunTerminal
  <2>3. "end_check" \notin OpenPoints
    BY DEF OpenPoints, RunPoints
  <2> QED BY <1>1, <2>2, <2>3, SoloEnter
<1>4. CASE Reread(p)
  <2>1. PICK n : n = [ op[p] EXCEPT !.pc = "doc_read", !.snap = proj ]
    OBVIOUS
  <2>2. op' = [ op EXCEPT ![p] = n ] \/ Return(p)
    BY <1>4, <2>1 DEF Reread
  <2>3. n.snap = proj /\ n.pc = "doc_read"
    BY <1>0, <2>1 DEF Ops
  <2>4. proj.terminal = NoTerminal
    BY <1>4, OpenRunUnstamped DEF Reread, At, OpenPoints
  <2> QED BY <1>1, <2>2, <2>3, <2>4, SoloEnter, SoloReturn
<1> QED BY <1>2, <1>3, <1>4

LEMMA SoloEvidence ==
  ASSUME IInv, OneProcess, History, Solo, NEW p \in Procs, WriteEvidence(p)
  PROVE  Solo' /\ StampStays
<1>0. op[p] \in Ops
  BY DEF IInv, OpsInv, OpInv
<1>1. ASSUME NEW kind \in {"object", "record", "bundle"},
             NEW then \in {"record", "bundle", "mat_read"}, WriteArtifact(p, kind, then)
      PROVE  Solo' /\ StampStays
  <2>1. PICK n : n = [ op[p] EXCEPT !.pc = then,
                         !.entry = IF then = "mat_read" THEN Entry(op[p].event) ELSE @ ]
    OBVIOUS
  <2>2. n.pc = then /\ op' = [ op EXCEPT ![p] = n ]
    BY <1>0, <1>1, <2>1 DEF Ops, WriteArtifact
  <2>3. proj.terminal = NoTerminal
    BY <1>1, OpenRunUnstamped DEF WriteArtifact, At, OpenPoints, RunPoints
  <2>4. UNCHANGED << proj, terminal, state, runlog >>
    BY <1>1 DEF WriteArtifact
  <2> QED BY <2>2, <2>3, <2>4, SoloEnter
<1> QED BY <1>1 DEF WriteEvidence

LEMMA SoloMaterialize ==
  ASSUME IInv, OneProcess, History, Marking, Solo, NEW p \in Procs,
         \/ Reconcile(p) \/ MaterializeRead(p) \/ MaterializeCheck(p)
         \/ MaterializeBlock(p) \/ MaterializeStamp(p)
  PROVE  Solo' /\ StampStays
<1>0. op[p] \in Ops /\ op[p].doc \in StateDocs /\ OpMarked(op[p]) /\ SoloOp(op[p])
  BY DEF IInv, OpsInv, OpInv, Ops, Marking, Solo
<1>1. op[p].pc \in OpenPoints
  BY DEF Reconcile, MaterializeRead, MaterializeCheck, MaterializeBlock, MaterializeStamp,
     At, OpenPoints, RunPoints
<1>2. proj.terminal = NoTerminal /\ terminal = NoVerdict /\ state.state # TerminalMarker
  BY <1>1, OpenRunUnstamped
<1>3. /\ {"mat_check", "mat_block", "mat_stamp"} \subseteq OpenPoints
      /\ {"mat_check", "mat_block", "mat_stamp"} \cap SyncPoints = {}
  BY DEF OpenPoints, RunPoints, SyncPoints
<1>4. CASE Reconcile(p)
  BY <1>2, <1>4, SoloReconcileFrom DEF Reconcile, disk
<1>5. CASE MaterializeRead(p)
  <2>1. Return(p) \/ op' = [ op EXCEPT ![p].pc = "mat_check", ![p].doc = state ]
    BY <1>5 DEF MaterializeRead
  <2>2. UNCHANGED << proj, terminal, state, runlog >>
    BY <1>5 DEF MaterializeRead, disk
  <2> QED BY <1>1, <1>2, <1>3, <2>1, <2>2, SoloReturn, SoloMove
<1>6. CASE MaterializeCheck(p)
  <2>1. UNCHANGED << proj, terminal, state, runlog >>
    BY <1>6 DEF MaterializeCheck, disk
  <2>2. op[p].pc = "mat_check"
    BY <1>6 DEF MaterializeCheck, At
  <2>3. \/ Goto(p, "mat_stamp")
        \/ Goto(p, "mat_block") /\ \A i \in DOMAIN runlog : runlog[i] # op[p].entry.iter
    BY <1>6 DEF MaterializeCheck
  <2> QED BY <1>1, <1>3, <2>1, <2>2, <2>3, SoloGoto
<1>7. CASE MaterializeBlock(p)
  <2>1. /\ runlog' = Append(runlog, op[p].entry.iter) /\ Goto(p, "mat_stamp")
        /\ UNCHANGED << proj, state, terminal >> /\ op[p].pc = "mat_block"
    BY <1>7 DEF MaterializeBlock, At
  <2>2. \A i \in DOMAIN runlog : runlog[i] # op[p].entry.iter
    BY <1>0, <2>1 DEF SoloOp
  <2>3. PICK i : i = op[p].entry.iter
    OBVIOUS
  <2>4. runlog \in Seq(Nat) /\ runlog' = Append(runlog, i) /\ Len(runlog) \in Nat
    BY <2>1, <2>3 DEF IInv, DiskTyped
  <2>5. /\ DOMAIN runlog = 1 .. Len(runlog) /\ DOMAIN runlog' = 1 .. Len(runlog) + 1
        /\ \A k \in 1 .. Len(runlog) : runlog'[k] = runlog[k]
        /\ runlog'[Len(runlog) + 1] = i
    BY <2>4
  <2>6. \A j, k \in DOMAIN runlog' : runlog'[j] = runlog'[k] => j = k
    BY <2>2, <2>3, <2>4, <2>5 DEF Solo, RunlogBlockOnce
  <2>7. RunlogBlockOnce'
    BY <2>6 DEF RunlogBlockOnce
  <2>8. PICK n : n = [ op[p] EXCEPT !.pc = "mat_stamp" ]
    OBVIOUS
  <2>9. n.pc = "mat_stamp" /\ n.doc = op[p].doc /\ op' = [ op EXCEPT ![p] = n ]
    BY <1>0, <2>1, <2>8 DEF Ops, Goto
  <2>10. SoloOp(n)'
    BY <1>0, <1>2, <2>1, <2>9 DEF SoloOp, SyncPoints
  <2>11. StampHolds' /\ StampStays
    BY <2>1 DEF Solo, StampHolds, StampStays
  <2> QED BY <2>7, <2>9, <2>10, <2>11, SoloStep
<1>8. CASE MaterializeStamp(p)
  <2> DEFINE e == op[p].entry
  <2>0. op[p].pc = "mat_stamp"
    BY <1>8 DEF MaterializeStamp, At
  <2>1. e.state # TerminalMarker /\ op[p].doc.state # TerminalMarker
    BY <1>0, <2>0 DEF OpMarked, SoloOp, MatPoints
  <2>2. state'.state # TerminalMarker
    BY <1>0, <1>8, <2>1 DEF MaterializeStamp, StateDocs
  <2>3. StampHolds' /\ StampStays
    BY <1>2, <2>2 DEF StampHolds, StampStays
  <2>4. UNCHANGED << proj, terminal, runlog >>
    BY <1>8 DEF MaterializeStamp
  <2>5. RunlogBlockOnce'
    BY <2>4 DEF Solo, RunlogBlockOnce
  <2>6. ASSUME NEW n, op' = [ op EXCEPT ![p] = n ],
               n = Idle \/ n.pc \in { "select", "mat_read" }
        PROVE  Solo' /\ StampStays
    <3>1. SoloOp(n)
      BY <1>2, <2>6, IdleSolo DEF SoloOp, SyncPoints
    <3>2. SoloOp(n)'
      BY <2>4, <3>1 DEF SoloOp
    <3> QED BY <2>3, <2>5, <2>6, <3>2, SoloStep
  <2>7. Return(p) \/ ReconcileFrom(p, e.iter)
    BY <1>8 DEF MaterializeStamp
  <2>8. CASE Return(p)
    BY <2>6, <2>8 DEF Return
  <2>9. CASE ReconcileFrom(p, e.iter)
    <3>1. CASE op' = [ op EXCEPT ![p].pc = "select", ![p].doc = NoDoc,
                                 ![p].entry = Entry(NoEventYet) ]
      <4>1. PICK n : n = [ op[p] EXCEPT !.pc = "select", !.doc = NoDoc,
                                        !.entry = Entry(NoEventYet) ]
        OBVIOUS
      <4>2. n.pc = "select" /\ op' = [ op EXCEPT ![p] = n ]
        BY <1>0, <3>1, <4>1 DEF Ops
      <4> QED BY <2>6, <4>2
    <3>2. ASSUME NEW i \in DOMAIN op[p].snap.entries,
                 op' = [ op EXCEPT ![p].pc = "mat_read", ![p].entry = op[p].snap.entries[i] ]
          PROVE  Solo' /\ StampStays
      <4>1. PICK n : n = [ op[p] EXCEPT !.pc = "mat_read", !.entry = op[p].snap.entries[i] ]
        OBVIOUS
      <4>2. n.pc = "mat_read" /\ op' = [ op EXCEPT ![p] = n ]
        BY <1>0, <3>2, <4>1 DEF Ops
      <4> QED BY <2>6, <4>2
    <3> QED BY <2>9, <3>1, <3>2 DEF ReconcileFrom
  <2> QED BY <2>7, <2>8, <2>9
<1> QED BY <1>4, <1>5, <1>6, <1>7, <1>8

LEMMA SoloPublish ==
  ASSUME IInv, OneProcess, History, Marking, Solo, NEW p \in Procs,
         \/ EndCheck(p) \/ EndRead(p) \/ EndCreate(p) \/ EndStamp(p)
         \/ SyncCheck(p) \/ SyncRead(p) \/ SyncStamp(p)
  PROVE  Solo' /\ StampStays
<1>0. op[p] \in Ops /\ op[p].doc \in StateDocs /\ SoloOp(op[p]) /\ OpTrace(op[p], proj)
  BY DEF IInv, OpsInv, OpInv, Ops, Solo, History
<1>1. /\ ({"end_read", "end_create", "end_stamp"} \cup SyncPoints)
            \cap (OpenPoints \cup {"mat_check", "mat_block", "mat_stamp"}) = {}
      /\ {"end_read", "end_create", "end_stamp"} \cap SyncPoints = {}
  BY DEF OpenPoints, RunPoints, SyncPoints
<1>2. CASE EndCheck(p)
  <2>1. \/ Return(p) \/ Goto(p, "end_read")
        \/ terminal # NoVerdict /\ Goto(p, "sync_check")
    BY <1>2 DEF EndCheck
  <2>2. UNCHANGED << proj, terminal, state, runlog >>
    BY <1>2 DEF EndCheck, disk
  <2>3. "sync_check" \notin OpenPoints /\ "end_read" \notin OpenPoints \cup SyncPoints
    BY DEF OpenPoints, RunPoints, SyncPoints
  <2> QED BY <2>1, <2>2, <2>3, SoloReturn, SoloGoto
<1>3. CASE SyncCheck(p)
  <2>1. Return(p) \/ Goto(p, "sync_read")
    BY <1>3 DEF SyncCheck
  <2>2. UNCHANGED << proj, terminal, state, runlog >> /\ terminal # NoVerdict
    BY <1>0, <1>3 DEF SyncCheck, disk, At, SoloOp, SyncPoints
  <2>3. "sync_read" \notin OpenPoints
    BY DEF OpenPoints, RunPoints
  <2> QED BY <2>1, <2>2, <2>3, SoloReturn, SoloGoto
<1>4. CASE EndRead(p)
  <2>1. Return(p) \/ op' = [ op EXCEPT ![p].pc = "end_create", ![p].doc = state ]
    BY <1>4 DEF EndRead
  <2>2. UNCHANGED << proj, terminal, state, runlog >>
    BY <1>4 DEF EndRead, disk
  <2> QED BY <1>1, <2>1, <2>2, SoloReturn, SoloMove
<1>5. CASE SyncRead(p)
  <2>1. Return(p) \/ op' = [ op EXCEPT ![p].pc = "sync_stamp", ![p].doc = state ]
    BY <1>5 DEF SyncRead
  <2>2. UNCHANGED << proj, terminal, state, runlog >> /\ terminal # NoVerdict
    BY <1>0, <1>5 DEF SyncRead, disk, At, SoloOp, SyncPoints
  <2>3. "sync_stamp" \notin OpenPoints
    BY DEF OpenPoints, RunPoints
  <2> QED BY <2>1, <2>2, <2>3, SoloReturn, SoloMove
<1>6. CASE EndCreate(p)
  <2>1. CASE terminal # NoVerdict
    BY <1>6, <2>1, SoloReturn DEF EndCreate
  <2>2. CASE terminal = NoVerdict
    <3>1. /\ terminal' = op[p].verdict /\ Goto(p, "end_stamp")
          /\ UNCHANGED << proj, state, runlog >> /\ op[p].pc = "end_create"
      BY <1>6, <2>2 DEF EndCreate, At
    <3>2. op[p].verdict # NoVerdict
      BY <1>0, <3>1, AdmissibleIsVerdict DEF OpTrace, EndPoints, Marking, EndsMarked
    <3>3. PICK n : n = [ op[p] EXCEPT !.pc = "end_stamp" ]
      OBVIOUS
    <3>4. n.pc = "end_stamp" /\ n.verdict = op[p].verdict /\ op' = [ op EXCEPT ![p] = n ]
      BY <1>0, <3>1, <3>3 DEF Ops, Goto
    <3>5. SoloOp(n)'
      BY <1>1, <3>1, <3>2, <3>4 DEF SoloOp
    <3>6. StampHolds' /\ RunlogBlockOnce' /\ StampStays
      BY <2>2, <3>1 DEF Solo, StampHolds, RunlogBlockOnce, StampStays
    <3> QED BY <3>4, <3>5, <3>6, SoloStep
  <2> QED BY <2>1, <2>2
<1>7. CASE EndStamp(p)
  <2>1. /\ op[p].pc = "end_stamp" /\ UNCHANGED << proj, terminal, runlog >>
        /\ state' = [ op[p].doc EXCEPT !.state = TerminalMarker,
                                       !.terminal = op[p].verdict.result ]
        /\ Goto(p, "sync_check") \/ Return(p)
    BY <1>7 DEF EndStamp, At
  <2>2. terminal # NoVerdict /\ op[p].verdict = terminal
    BY <1>0, <2>1 DEF SoloOp
  <2>3. state'.state = TerminalMarker /\ state'.terminal = terminal.result
    BY <1>0, <2>1, <2>2 DEF StateDocs
  <2>4. StampHolds' /\ RunlogBlockOnce' /\ StampStays
    BY <2>1, <2>2, <2>3 DEF Solo, StampHolds, RunlogBlockOnce, StampStays
  <2>5. ASSUME NEW n, op' = [ op EXCEPT ![p] = n ], n = Idle \/ n.pc = "sync_check"
        PROVE  Solo' /\ StampStays
    <3>1. SoloOp(n)
      BY <2>2, <2>5, IdleSolo DEF SoloOp, OpenPoints, RunPoints
    <3>2. SoloOp(n)'
      BY <2>1, <3>1 DEF SoloOp
    <3> QED BY <2>4, <2>5, <3>2, SoloStep
  <2>6. PICK n : n = [ op[p] EXCEPT !.pc = "sync_check" ]
    OBVIOUS
  <2>7. n.pc = "sync_check"
    BY <1>0, <2>6 DEF Ops
  <2>8. CASE Goto(p, "sync_check")
    BY <2>5, <2>6, <2>7, <2>8 DEF Goto
  <2>9. CASE Return(p)
    BY <2>5, <2>9 DEF Return
  <2> QED BY <2>1, <2>8, <2>9
<1>8. CASE SyncStamp(p)
  <2>1. /\ op[p].pc = "sync_stamp" /\ UNCHANGED << proj, terminal, runlog >>
        /\ state' = [ op[p].doc EXCEPT !.state = TerminalMarker,
                                       !.terminal = terminal.result ]
        /\ Return(p)
    BY <1>8 DEF SyncStamp, At
  <2>2. terminal # NoVerdict
    BY <1>0, <2>1 DEF SoloOp, SyncPoints
  <2>3. state'.state = TerminalMarker /\ state'.terminal = terminal.result
    BY <1>0, <2>1 DEF StateDocs
  <2>4. StampHolds' /\ RunlogBlockOnce' /\ StampStays
    BY <2>1, <2>2, <2>3 DEF Solo, StampHolds, RunlogBlockOnce, StampStays
  <2>5. SoloOp(Idle)'
    BY <2>1, IdleSolo DEF SoloOp
  <2> QED BY <2>1, <2>4, <2>5, SoloStep DEF Return
<1> QED BY <1>2, <1>3, <1>4, <1>5, <1>6, <1>7, <1>8

LEMMA SoloSyncProjection ==
  ASSUME IInv, OneProcess, History, Marking, Solo, NEW p \in Procs, DocRead(p) \/ DocStamp(p)
  PROVE  Solo' /\ StampStays
<1>0. op[p] \in Ops /\ op[p].doc \in StateDocs /\ SoloOp(op[p]) /\ OpMarked(op[p])
  BY DEF IInv, OpsInv, OpInv, Ops, Solo, Marking
<1>1. op[p].pc \in {"doc_read", "doc_stamp"} /\ op[p].pc \in OpenPoints
  BY DEF DocRead, DocStamp, At, OpenPoints
<1>2. terminal = NoVerdict /\ state.state # TerminalMarker
  BY <1>1, OpenRunUnstamped
<1>3. CASE DocRead(p)
  <2>1. "doc_stamp" \notin SyncPoints
    BY DEF SyncPoints
  <2> QED BY <1>1, <1>3, <2>1, SoloMove DEF DocRead, disk
<1>4. CASE DocStamp(p)
  <2>1. op[p].snap.state # TerminalMarker
    BY <1>0, <1>1 DEF SoloOp, OpMarked, EndsMarked
  <2>2. state'.state = op[p].snap.state
    BY <1>0, <1>4 DEF DocStamp, StateDocs
  <2>3. UNCHANGED << proj, terminal, runlog >> /\ Return(p)
    BY <1>4 DEF DocStamp
  <2>4. StampHolds' /\ RunlogBlockOnce' /\ StampStays
    BY <1>2, <2>1, <2>2, <2>3 DEF Solo, StampHolds, RunlogBlockOnce, StampStays
  <2>5. SoloOp(Idle)'
    BY <2>3, IdleSolo DEF SoloOp
  <2> QED BY <2>3, <2>4, <2>5, SoloStep DEF Return
<1> QED BY <1>3, <1>4

LEMMA SoloCommit ==
  ASSUME IInv, IInv', OneProcess, History, Marking, Solo, NEW p \in Procs, Commit(p)
  PROVE  Solo' /\ StampStays
<1>0. op[p] \in Ops /\ DOMAIN op = Procs
  BY DEF IInv, OpsInv, OpInv
<1>1. PICK n : n = [ op[p] EXCEPT !.pc = AfterCommit(op[p]) ]
  OBVIOUS
<1>2. op' = [ op EXCEPT ![p] = n ] /\ op'[p] = n
  BY <1>0, <1>1 DEF Commit, Goto
<1>3. /\ n.pc \in {"object", "end_check", "end_read", "reread"}
      /\ n.pc \in {"object", "reread"} => proj'.terminal = NoTerminal
  BY <1>2, CommitMarked
<1>4. SoloOp(n)'
  BY <1>3 DEF SoloOp, OpenPoints, RunPoints, SyncPoints
<1>5. StampHolds' /\ RunlogBlockOnce' /\ StampStays
  BY DEF Solo, StampHolds, RunlogBlockOnce, StampStays, Commit, disk
<1> QED BY <1>2, <1>4, <1>5, SoloStep

LEMMA SoloNext ==
  ASSUME IInv, IInv', OneProcess, History, Marking, Solo, [Next]_vars
  PROVE  Solo' /\ StampStays
<1>1. ASSUME NEW p \in Procs, Conflict(p) \/ GiveUp(p) \/ Crash(p) PROVE Solo' /\ StampStays
  BY <1>1, SoloReturn DEF Conflict, GiveUp, Crash, disk
<1>2. ASSUME NEW p \in Procs, Work(p) PROVE Solo' /\ StampStays
  BY <1>1, <1>2, SoloCommit, SoloPlanning, SoloStart, SoloEvidence, SoloMaterialize,
     SoloPublish, SoloSyncProjection DEF Work
<1>3. ASSUME NEW p \in Procs, Invoke(p) PROVE Solo' /\ StampStays
  BY <1>3, SoloPlanning, SoloStart DEF Invoke
<1>4. CASE RequestApproval \/ Advance
  <2>1. proj'.terminal = NoTerminal
    BY <1>4, OrchestratorMarked
  <2>2. UNCHANGED << state, terminal, runlog, op >>
    BY <1>4 DEF RequestApproval, Advance, disk
  <2>3. (\A q \in Procs : SoloOp(op[q]))'
    BY <2>1, <2>2 DEF Solo, SoloOp
  <2> QED BY <2>2, <2>3 DEF Solo, StampHolds, RunlogBlockOnce, StampStays
<1>5. CASE EditTasks \/ UNCHANGED vars
  BY <1>5 DEF EditTasks, vars, disk, Solo, SoloOp, StampHolds, RunlogBlockOnce, StampStays
<1> QED BY <1>1, <1>2, <1>3, <1>4, <1>5 DEF Next

LEMMA OpeningSolo ==
  ASSUME Init
  PROVE  Solo
<1>1. state.state # TerminalMarker /\ runlog = << 1, 2, 3, 4 >> /\ op = [ p \in Procs |-> Idle ]
  BY DEF Init, NoDoc, TerminalMarker
<1>2. \A p \in Procs : SoloOp(op[p])
  BY <1>1, IdleSolo
<1> QED BY <1>1, <1>2 DEF Solo, StampHolds, RunlogBlockOnce

LEMMA LoopRunSolo == ASSUME Tasks # {}, OneProcess PROVE Spec => []Solo
<1>1. Init => Solo
  BY OpeningSolo
<1>2. IInv /\ IInv' /\ History /\ Marking /\ Solo /\ [Next]_vars => Solo'
  BY SoloNext
<1> QED BY <1>1, <1>2, LoopRunIInv, LoopRunHistory, LoopRunMarking, PTL DEF Spec

\* While one process at a time runs commands, with kills between any two of
\* their writes and an orchestrator that appends events of its own, no
\* iteration gets a second block in RUNLOG.md.
THEOREM LoopRunRunlogOnce ==
  ASSUME Tasks # {}, OneProcess
  PROVE  Spec => []RunlogBlockOnce
<1>1. Solo => RunlogBlockOnce
  BY DEF Solo
<1> QED BY <1>1, LoopRunSolo, PTL

\* Under the same conditions no command takes back the end that state.json
\* shows, neither the marker nor the result.
THEOREM LoopRunEndStaysStamped ==
  ASSUME Tasks # {}, OneProcess
  PROVE  Spec => EndStaysStamped
<1> DEFINE Kept == state.state = TerminalMarker =>
                     state'.state = TerminalMarker /\ state'.terminal = state.terminal
<1>1. IInv /\ IInv' /\ History /\ Marking /\ Solo /\ [Next]_vars => [Kept]_vars
  BY SoloNext DEF StampStays
<1>2. EndStaysStamped <=> [][Kept]_vars
  BY DEF EndStaysStamped
<1> HIDE DEF Kept
<1> QED BY <1>1, <1>2, LoopRunIInv, LoopRunHistory, LoopRunMarking, LoopRunSolo, PTL DEF Spec

-----------------------------------------------------------------------------
(* One process at a time, nobody else writing to the log, and no kill so     *)
(* far: what the files lag behind the log is what the process has still to    *)
(* write.                                                                    *)

Unattended == Commands \cap { "request", "advance" } = {}

RunlogAgrees == runlog = [ i \in DOMAIN proj.entries |-> proj.entries[i].iter ]

Agreed == StateJsonAgrees /\ TerminalFileAgrees /\ BoundEvidencePresent /\ RunlogAgrees

SettledPoints == { "idle", "reconcile", "select", "commit", "sync_check" }
WritePoints == { "object", "record", "bundle" }
ControlPoints == { "reread", "doc_read", "doc_stamp" }

\* The artifacts a dispatch has written before a point.
Written(pc) ==
  CASE pc = "object" -> {}
    [] pc = "record" -> { "object" }
    [] pc = "bundle" -> { "object", "record" }
    [] OTHER -> { "object", "record", "bundle" }

\* A dispatch is in the log, the last of it, and not yet in state.json.
DispatchLags(o) ==
  LET m == Len(proj.entries)
      e == o.event IN
  /\ m >= 1 /\ proj.entries[m].iter = e.iter
  /\ proj.iter = e.iter /\ proj.active = e.task
  /\ e.type = "iteration_appended" /\ e.task # None /\ e.target = None
  /\ state.state = proj.state /\ state.paused = proj.paused
  /\ state.pending = proj.pending /\ state.terminal = proj.terminal.verdict.result
  /\ TerminalFileAgrees
  /\ Written(o.pc) \X {e.iter} \subseteq files
  /\ \A k \in DOMAIN log : log[k].bound /\ log[k].iter # e.iter =>
       {"object", "record", "bundle"} \X {log[k].iter} \subseteq files
  /\ IF o.pc = "mat_stamp" THEN RunlogAgrees
     ELSE runlog = [ i \in 1 .. m - 1 |-> proj.entries[i].iter ]
  /\ o.pc \in MatPoints => o.entry.iter = e.iter /\ o.entry.task = e.task
                           /\ o.entry.state = None
  /\ o.pc \in { "mat_check", "mat_block", "mat_stamp" } => o.doc = state

\* A control event is in the log; state.json may lack what it changed.
ControlLags ==
  /\ state.active = proj.active /\ state.terminal = proj.terminal.verdict.result
  /\ TerminalFileAgrees /\ BoundEvidencePresent /\ RunlogAgrees

\* The end is in the log and state.json is not stamped.
EndLags ==
  /\ proj.terminal # NoTerminal
  /\ state.iter = proj.iter /\ state.active = proj.active
  /\ state.paused = proj.paused /\ state.pending = proj.pending
  /\ BoundEvidencePresent /\ RunlogAgrees

\* What a command is about to append.
Prepared(o) ==
  /\ o.event.type = "iteration_appended" =>
       o.cmd = "run" /\ o.event.task # None /\ o.event.target = None
  /\ o.event.type # "iteration_appended" => ~o.event.bound
  /\ o.cmd = "run" => o.event.type \in { "iteration_appended", "terminal_written" }

QuietOp(o) ==
  /\ o.pc \in { "reconcile", "select", "commit", "doc_read", "doc_stamp" } => o.snap = proj
  /\ o.pc \in { "idle", "reconcile", "select" } => o.event.type # "iteration_appended"
  /\ o.pc = "commit" => Prepared(o)
  /\ o.pc \in SettledPoints => Agreed
  /\ o.pc \in WritePoints \cup MatPoints => DispatchLags(o)
  /\ o.pc \in ControlPoints => ControlLags
  /\ o.pc \in { "doc_stamp", "end_create", "end_stamp" } => o.doc = state
  /\ o.pc = "end_check" => Agreed \/ (EndLags /\ terminal = NoVerdict)
  /\ o.pc \in { "end_read", "end_create" } => EndLags /\ terminal = NoVerdict
  /\ o.pc = "end_stamp" =>
       EndLags /\ terminal = proj.terminal.verdict /\ o.verdict = terminal
  /\ o.pc = "sync_check" =>
       proj.terminal # NoTerminal /\ o.verdict = proj.terminal.verdict
  /\ o.pc \notin { "sync_read", "sync_stamp" }

Quiet == \A p \in Procs : QuietOp(op[p])

LEMMA QuietStep ==
  ASSUME IInv, OneProcess, NEW p \in Procs, NEW n, op' = [ op EXCEPT ![p] = n ], QuietOp(n)'
  PROVE  Quiet'
<1>1. DOMAIN op = Procs
  BY DEF IInv, OpsInv
<1>2. \A q \in Procs : op'[q] = n
  BY <1>1 DEF OneProcess
<1> QED BY <1>2 DEF Quiet, QuietOp, Prepared, DispatchLags

\* A step that writes nothing.
LEMMA WritelessStep ==
  ASSUME IInv, OneProcess, UNCHANGED << log, proj, disk >>,
         NEW p \in Procs, NEW n, op' = [ op EXCEPT ![p] = n ], QuietOp(n)
  PROVE  Quiet'
<1>1. UNCHANGED << log, proj, state, terminal, runlog, files >>
  BY DEF disk
<1>2. /\ StateJsonAgrees' = StateJsonAgrees /\ TerminalFileAgrees' = TerminalFileAgrees
      /\ BoundEvidencePresent' = BoundEvidencePresent /\ RunlogAgrees' = RunlogAgrees
  BY <1>1 DEF StateJsonAgrees, TerminalFileAgrees, BoundEvidencePresent, RunlogAgrees
<1>3. Agreed' = Agreed /\ ControlLags' = ControlLags /\ EndLags' = EndLags
  BY <1>1, <1>2 DEF Agreed, ControlLags, EndLags
<1>4. DispatchLags(n) => DispatchLags(n)'
  BY <1>1, <1>2 DEF DispatchLags
<1>5. QuietOp(n)'
  BY <1>1, <1>3, <1>4 DEF QuietOp, Prepared
<1> QED BY <1>5, QuietStep

LEMMA IdleQuiet == Agreed => QuietOp(Idle)
<1>1. Idle.pc = "idle" /\ Idle.event.type = "receipt_appended"
  BY DEF Idle, NoEventYet, Event
<1> QED BY <1>1 DEF QuietOp, WritePoints, MatPoints, ControlPoints

LEMMA QuietReturn ==
  ASSUME IInv, OneProcess, Agreed, UNCHANGED << log, proj, disk >>,
         NEW p \in Procs, Return(p)
  PROVE  Quiet'
BY IdleQuiet, WritelessStep DEF Return

\* A command that has read the run and does not write yet.
LEMMA QuietEnter ==
  ASSUME IInv, OneProcess, Agreed, UNCHANGED << log, proj, disk >>,
         NEW p \in Procs, NEW n, op' = [ op EXCEPT ![p] = n ],
         n.pc \in { "reconcile", "select", "commit", "end_check" },
         n.pc # "end_check" => n.snap = proj,
         n.pc \in { "reconcile", "select" } => n.event.type # "iteration_appended",
         n.pc = "commit" => Prepared(n)
  PROVE  Quiet'
<1>1. QuietOp(n)
  BY DEF QuietOp, WritePoints, MatPoints, ControlPoints
<1> QED BY <1>1, WritelessStep

LEMMA QuietPlanning ==
  ASSUME IInv, OneProcess, History, Quiet, NEW p \in Procs,
         \/ Approve(p) \/ Pause(p) \/ Resume(p) \/ Cancel(p) \/ Verify(p) \/ Conclude(p)
  PROVE  Quiet'
<1>0. op[p] \in Ops /\ QuietOp(op[p])
  BY DEF IInv, OpsInv, OpInv, Quiet
<1>1. UNCHANGED << log, proj, disk >> /\ op[p].pc \in { "idle", "select" }
  BY DEF Approve, Pause, Resume, Cancel, Prepare, Verify, Conclude, At
<1>2. Agreed
  BY <1>0, <1>1 DEF QuietOp, SettledPoints
<1>3. ASSUME NEW cmd, cmd # "run", NEW e, Prepare(p, cmd, e), ~e.bound,
             e.type # "iteration_appended"
      PROVE  Quiet'
  <2>1. PICK n : n = [ op[p] EXCEPT !.pc = "commit", !.cmd = cmd, !.snap = proj,
                         !.event = e, !.verdict = e.verdict ]
    OBVIOUS
  <2>2. n.pc = "commit" /\ n.cmd = cmd /\ n.snap = proj /\ n.event = e
    BY <1>0, <2>1 DEF Ops
  <2>3. op' = [ op EXCEPT ![p] = n ]
    BY <1>3, <2>1 DEF Prepare
  <2>4. Prepared(n)
    BY <1>3, <2>2 DEF Prepared
  <2> QED BY <1>1, <1>2, <2>2, <2>3, <2>4, QuietEnter
<1>4. CASE Approve(p)
  <2> DEFINE e == [ Event("approval_resolved", proj.count) EXCEPT
                      !.iter = proj.iter, !.cause = proj.pending ]
             Den == [ e EXCEPT !.decision = "denied" ]
             App(t) == [ e EXCEPT !.decision = "approved", !.target = t ]
  <2>1. /\ Den.type = "approval_resolved" /\ Den.bound = FALSE
        /\ \A t : App(t).type = "approval_resolved" /\ App(t).bound = FALSE
    BY DEF Event
  <2>2. Prepare(p, "approve", Den) \/ \E t \in ResumeTargets : Prepare(p, "approve", App(t))
    BY <1>4 DEF Approve
  <2> HIDE DEF Den, App
  <2> QED BY <1>3, <2>1, <2>2
<1>5. CASE Pause(p) \/ Resume(p) \/ Cancel(p)
  <2> DEFINE Pa == [ Event("run_paused", proj.count) EXCEPT !.iter = proj.iter ]
             Re == [ Event("run_resumed", proj.count) EXCEPT !.iter = proj.iter ]
             Ca == [ Event("terminal_written", proj.count) EXCEPT
                       !.verdict = [ NoVerdict EXCEPT !.result = "AbortedByHuman" ] ]
  <2>1. /\ Pa.type = "run_paused" /\ Re.type = "run_resumed" /\ Ca.type = "terminal_written"
        /\ Pa.bound = FALSE /\ Re.bound = FALSE /\ Ca.bound = FALSE
    BY DEF Event
  <2>2. Prepare(p, "pause", Pa) \/ Prepare(p, "resume", Re) \/ Prepare(p, "cancel", Ca)
    BY <1>5 DEF Pause, Resume, Cancel
  <2> HIDE DEF Pa, Re, Ca
  <2> QED BY <1>3, <2>1, <2>2
<1>6. op[p].pc = "select" => op[p].cmd = "run" /\ op[p].snap = proj
  BY <1>0 DEF History, OpTrace, RunPoints, QuietOp
<1>7. CASE Verify(p)
  <2> DEFINE s == op[p].snap
             E(t, oc) == [ Event("iteration_appended", s.count) EXCEPT
                  !.iter = s.iter + 1, !.task = t, !.bound = TRUE, !.outcome = oc ]
  <2>0. op[p].pc = "select"
    BY <1>7 DEF Verify, At
  <2>1. PICK t, oc : t \in Tasks /\ op' = [ op EXCEPT ![p].pc = "commit", ![p].event = E(t, oc) ]
    BY <1>7 DEF Verify
  <2>2. E(t, oc).target = None /\ E(t, oc).type = "iteration_appended" /\ E(t, oc).task = t
    BY DEF Event
  <2>3. PICK e : e = E(t, oc)
    OBVIOUS
  <2>4. PICK n : n = [ op[p] EXCEPT !.pc = "commit", !.event = e ]
    OBVIOUS
  <2>5. n.pc = "commit" /\ n.snap = s /\ n.event = e /\ n.cmd = op[p].cmd
    BY <1>0, <2>4 DEF Ops
  <2>6. op' = [ op EXCEPT ![p] = n ]
    BY <2>1, <2>3, <2>4
  <2>7. e.target = None /\ e.type = "iteration_appended" /\ e.task = t
    BY <2>2, <2>3
  <2>8. t # None
    BY <2>1, LoopRunAssumption
  <2>9. Prepared(n)
    BY <1>6, <2>0, <2>5, <2>7, <2>8 DEF Prepared
  <2> QED BY <1>1, <1>2, <1>6, <2>0, <2>5, <2>6, <2>9, QuietEnter
<1>8. CASE Conclude(p)
  <2> DEFINE s == op[p].snap
             v == AutoVerdict(s)
             e == [ Event("terminal_written", s.count) EXCEPT !.iter = s.iter, !.verdict = v ]
  <2>0. op[p].pc = "select"
    BY <1>8 DEF Conclude, At
  <2>1. PICK n : n = [ op[p] EXCEPT !.pc = "commit", !.verdict = v, !.event = e ]
    OBVIOUS
  <2>2. op' = [ op EXCEPT ![p] = n ]
    BY <1>8, <2>1 DEF Conclude
  <2>3. e.type = "terminal_written" /\ e.bound = FALSE
    BY DEF Event
  <2> HIDE DEF e, v
  <2>4. n.pc = "commit" /\ n.snap = s /\ n.event = e /\ n.cmd = op[p].cmd
    BY <1>0, <2>1 DEF Ops
  <2>5. Prepared(n)
    BY <2>3, <2>4 DEF Prepared
  <2> QED BY <1>1, <1>2, <1>6, <2>0, <2>2, <2>4, <2>5, QuietEnter
<1> QED BY <1>4, <1>5, <1>7, <1>8

LEMMA QuietStart ==
  ASSUME IInv, OneProcess, History, Quiet, NEW p \in Procs,
         \/ RunReady(p) \/ RunTerminal(p) \/ Reconcile(p) \/ Conflict(p) \/ GiveUp(p)
  PROVE  Quiet'
<1>0. op[p] \in Ops /\ QuietOp(op[p])
  BY DEF IInv, OpsInv, OpInv, Quiet
<1>1. /\ UNCHANGED << log, proj, disk >>
      /\ op[p].pc \in { "idle", "reconcile", "select", "commit" }
  BY DEF RunReady, RunTerminal, Reconcile, Conflict, GiveUp, At
<1>2. Agreed
  BY <1>0, <1>1 DEF QuietOp, SettledPoints
<1>3. op[p].pc \in { "idle", "reconcile" } => op[p].event.type # "iteration_appended"
  BY <1>0 DEF QuietOp
<1>4. CASE Conflict(p) \/ GiveUp(p)
  BY <1>1, <1>2, <1>4, QuietReturn DEF Conflict, GiveUp
<1>5. CASE RunReady(p)
  <2>1. PICK n : n = [ op[p] EXCEPT !.pc = "reconcile", !.cmd = "run", !.snap = proj ]
    OBVIOUS
  <2>2. n.pc = "reconcile" /\ n.snap = proj /\ n.event = op[p].event
    BY <1>0, <2>1 DEF Ops
  <2>3. op' = [ op EXCEPT ![p] = n ] /\ op[p].pc = "idle"
    BY <1>5, <2>1 DEF RunReady, At
  <2> QED BY <1>1, <1>2, <1>3, <2>2, <2>3, QuietEnter
<1>6. CASE RunTerminal(p)
  <2>1. PICK n : n = [ op[p] EXCEPT !.pc = "end_check", !.cmd = "run",
                         !.snap = proj, !.verdict = proj.terminal.verdict ]
    OBVIOUS
  <2>2. n.pc = "end_check"
    BY <1>0, <2>1 DEF Ops
  <2>3. op' = [ op EXCEPT ![p] = n ]
    BY <1>6, <2>1 DEF RunTerminal
  <2> QED BY <1>1, <1>2, <2>2, <2>3, QuietEnter
<1>7. CASE Reconcile(p)
  <2>1. op[p].pc = "reconcile" /\ op[p].snap = proj
    BY <1>0, <1>7 DEF Reconcile, At, QuietOp
  <2>2. state.iter = proj.iter
    BY <1>2 DEF Agreed, StateJsonAgrees
  <2>3. ASSUME NEW i \in DOMAIN proj.entries PROVE ~IsNextDue(proj, state.iter, proj.entries[i])
    <3>1. proj.entries[i].iter <= proj.iter
      BY DEF History, Ordered
    <3>2. proj.iter \in Nat /\ proj.entries[i].iter \in Nat
      <4>1. proj.entries \in Seq(RunlogEntries) /\ proj.iter \in Nat
        BY DEF IInv, LogInv, Projections
      <4>2. proj.entries[i] \in RunlogEntries
        BY <4>1
      <4> QED BY <4>1, <4>2 DEF RunlogEntries
    <3> QED BY <2>2, <3>1, <3>2 DEF IsNextDue
  <2>4. op' = [ op EXCEPT ![p].pc = "select", ![p].doc = NoDoc,
                          ![p].entry = Entry(NoEventYet) ]
    BY <1>7, <2>1, <2>3 DEF Reconcile, ReconcileFrom
  <2>5. PICK n : n = [ op[p] EXCEPT !.pc = "select", !.doc = NoDoc,
                                    !.entry = Entry(NoEventYet) ]
    OBVIOUS
  <2>6. n.pc = "select" /\ n.snap = proj /\ n.event = op[p].event
    BY <1>0, <2>1, <2>5 DEF Ops
  <2>7. op' = [ op EXCEPT ![p] = n ]
    BY <2>4, <2>5
  <2> QED BY <1>1, <1>2, <1>3, <2>1, <2>6, <2>7, QuietEnter
<1> QED BY <1>4, <1>5, <1>6, <1>7

LEMMA QuietWriteEvidence ==
  ASSUME IInv, OneProcess, History, Quiet, NEW p \in Procs, WriteEvidence(p)
  PROVE  Quiet'
<1> DEFINE o == op[p]
           e == o.event
<1>0. o \in Ops /\ QuietOp(o) /\ e \in Events
  BY DEF IInv, OpsInv, OpInv, Quiet, Ops
<1>1. ASSUME NEW kind, NEW then, WriteArtifact(p, kind, then),
             << kind, then >> \in { << "object", "record" >>, << "record", "bundle" >>,
                                    << "bundle", "mat_read" >> }
      PROVE  Quiet'
  <2>1. /\ o.pc = kind /\ files' = files \cup { << kind, e.iter >> }
        /\ UNCHANGED << log, proj, state, terminal, runlog >>
    BY <1>1 DEF WriteArtifact, At
  <2>2. PICK n : n = [ o EXCEPT !.pc = then,
                         !.entry = IF then = "mat_read" THEN Entry(e) ELSE @ ]
    OBVIOUS
  <2>3. /\ n.pc = then /\ n.event = e
        /\ then = "mat_read" => n.entry.iter = e.iter /\ n.entry.task = e.task
                                /\ n.entry.state = e.target
    BY <1>0, <2>2 DEF Ops, Entry
  <2>4. op' = [ op EXCEPT ![p] = n ]
    BY <1>1, <2>2 DEF WriteArtifact
  <2>5. DispatchLags(o)
    BY <1>0, <1>1, <2>1 DEF QuietOp, WritePoints
  <2>6. Written(then) = Written(kind) \cup {kind}
    BY <1>1 DEF Written
  <2>7. Written(then) \X {e.iter} \subseteq files'
    BY <2>1, <2>5, <2>6 DEF DispatchLags
  <2>8. then # "mat_stamp" /\ kind # "mat_stamp"
        /\ (then \in MatPoints => then = "mat_read")
        /\ then \notin {"mat_check", "mat_block", "mat_stamp"}
    BY <1>1 DEF MatPoints
  <2>9. DispatchLags(n)'
    BY <2>1, <2>3, <2>5, <2>7, <2>8 DEF DispatchLags, TerminalFileAgrees
  <2>10. QuietOp(n)'
    BY <1>1, <2>3, <2>9 DEF QuietOp, SettledPoints, ControlPoints
  <2> QED BY <2>4, <2>10, QuietStep
<1> QED BY <1>1 DEF WriteEvidence

LEMMA QuietMaterialize ==
  ASSUME IInv, OneProcess, History, Quiet, NEW p \in Procs,
         \/ MaterializeRead(p) \/ MaterializeCheck(p)
         \/ MaterializeBlock(p) \/ MaterializeStamp(p)
  PROVE  Quiet'
<1> DEFINE o == op[p]
           m == Len(proj.entries)
<1>0. o \in Ops /\ QuietOp(o) /\ o.doc \in StateDocs
  BY DEF IInv, OpsInv, OpInv, Quiet, Ops
<1>1. o.pc \in MatPoints
  BY DEF MaterializeRead, MaterializeCheck, MaterializeBlock, MaterializeStamp, At, MatPoints
<1>2. DispatchLags(o)
  BY <1>0, <1>1 DEF QuietOp
<1>3. o.entry.iter = o.event.iter /\ o.entry.task = o.event.task /\ o.entry.state = None
  BY <1>1, <1>2 DEF DispatchLags
<1>4. proj.entries \in Seq(RunlogEntries) /\ m \in Nat /\ m >= 1
      /\ proj.entries[m].iter = o.event.iter
  BY <1>2 DEF IInv, LogInv, Projections, DispatchLags
<1>5. Written(o.pc) = {"object", "record", "bundle"}
  BY <1>1 DEF Written, MatPoints
\* On to the next point without a write.
<1>6. ASSUME NEW n, op' = [ op EXCEPT ![p] = n ], UNCHANGED << log, proj, disk >>,
             n.pc \in {"mat_check", "mat_block"}, o.pc # "mat_stamp",
             n.event = o.event, n.entry = o.entry, n.doc = state
      PROVE  Quiet'
  <2>1. Written(n.pc) = {"object", "record", "bundle"}
    BY <1>6 DEF Written
  <2>2. DispatchLags(n)
    BY <1>2, <1>3, <1>5, <1>6, <2>1 DEF DispatchLags
  <2>3. QuietOp(n)
    BY <1>6, <2>2 DEF QuietOp, SettledPoints, ControlPoints
  <2> QED BY <1>6, <2>3, WritelessStep
<1>7. CASE MaterializeRead(p)
  <2>1. op' = [ op EXCEPT ![p].pc = "mat_check", ![p].doc = state ]
    BY <1>3, <1>7 DEF MaterializeRead
  <2>2. PICK n : n = [ o EXCEPT !.pc = "mat_check", !.doc = state ]
    OBVIOUS
  <2>3. n.pc = "mat_check" /\ n.event = o.event /\ n.entry = o.entry /\ n.doc = state
    BY <1>0, <2>2 DEF Ops
  <2>4. op' = [ op EXCEPT ![p] = n ] /\ o.pc = "mat_read" /\ UNCHANGED << log, proj, disk >>
    BY <1>7, <2>1, <2>2 DEF MaterializeRead, At
  <2> QED BY <1>6, <2>3, <2>4
<1>8. CASE MaterializeCheck(p)
  <2>1. o.pc = "mat_check" /\ UNCHANGED << log, proj, disk >>
    BY <1>8 DEF MaterializeCheck, At
  <2>2. o.doc = state /\ runlog = [ i \in 1 .. m - 1 |-> proj.entries[i].iter ]
    BY <1>2, <2>1 DEF DispatchLags
  <2>3. ASSUME NEW i \in DOMAIN runlog PROVE runlog[i] # o.entry.iter
    <3>1. i \in 1 .. m - 1 /\ runlog[i] = proj.entries[i].iter
      BY <2>2, <2>3
    <3>2. i \in DOMAIN proj.entries /\ m \in DOMAIN proj.entries /\ i < m
      BY <1>4, <3>1
    <3>3. proj.entries[i].iter < proj.entries[m].iter
      BY <3>2 DEF History, Ordered
    <3>4. proj.entries[i].iter \in Nat /\ proj.entries[m].iter \in Nat
      <4>1. proj.entries[i] \in RunlogEntries /\ proj.entries[m] \in RunlogEntries
        BY <1>4, <3>2
      <4> QED BY <4>1 DEF RunlogEntries
    <3> QED BY <1>3, <1>4, <3>1, <3>3, <3>4
  <2>4. Goto(p, "mat_block")
    BY <1>8, <2>3 DEF MaterializeCheck
  <2>5. PICK n : n = [ o EXCEPT !.pc = "mat_block" ]
    OBVIOUS
  <2>6. n.pc = "mat_block" /\ n.event = o.event /\ n.entry = o.entry /\ n.doc = state
    BY <1>0, <2>2, <2>5 DEF Ops
  <2>7. op' = [ op EXCEPT ![p] = n ]
    BY <2>4, <2>5 DEF Goto
  <2> QED BY <1>6, <2>1, <2>6, <2>7
<1>9. CASE MaterializeBlock(p)
  <2>1. /\ o.pc = "mat_block" /\ runlog' = Append(runlog, o.entry.iter)
        /\ UNCHANGED << log, proj, state, terminal, files >> /\ Goto(p, "mat_stamp")
    BY <1>9 DEF MaterializeBlock, At
  <2>2. o.doc = state /\ runlog = [ i \in 1 .. m - 1 |-> proj.entries[i].iter ]
    BY <1>2, <2>1 DEF DispatchLags
  <2>3. PICK i : i = o.entry.iter
    OBVIOUS
  <2>4. runlog' = [ j \in 1 .. m |-> proj.entries[j].iter ]
    <3>1. runlog \in Seq(Nat) /\ runlog' = Append(runlog, i) /\ Len(runlog) = m - 1
      BY <1>4, <2>1, <2>2, <2>3 DEF IInv, DiskTyped
    <3>2. /\ DOMAIN runlog' = 1 .. m /\ runlog'[m] = i
          /\ \A j \in 1 .. m - 1 : runlog'[j] = runlog[j]
      BY <1>4, <3>1
    <3>3. ASSUME NEW j \in 1 .. m PROVE runlog'[j] = proj.entries[j].iter
      <4>1. CASE j = m
        BY <1>3, <1>4, <2>3, <3>2, <4>1
      <4>2. CASE j # m
        <5>1. j \in 1 .. m - 1
          BY <1>4, <4>2
        <5> QED BY <2>2, <3>2, <5>1
      <4> QED BY <4>1, <4>2
    <3>4. runlog' = [ j \in DOMAIN runlog' |-> runlog'[j] ]
      <4>1. i \in Nat
        BY <1>0, <2>3 DEF Ops, RunlogEntries
      <4>2. runlog' \in Seq(Nat)
        BY <3>1, <4>1
      <4> QED BY <4>2
    <3> QED BY <3>2, <3>3, <3>4
  <2>5. RunlogAgrees'
    BY <1>4, <2>1, <2>4 DEF RunlogAgrees
  <2>6. PICK n : n = [ o EXCEPT !.pc = "mat_stamp" ]
    OBVIOUS
  <2>7. n.pc = "mat_stamp" /\ n.event = o.event /\ n.entry = o.entry /\ n.doc = o.doc
    BY <1>0, <2>6 DEF Ops
  <2>8. Written(n.pc) = {"object", "record", "bundle"}
    BY <2>7 DEF Written
  <2>9. DispatchLags(n)'
    BY <1>2, <1>3, <1>5, <2>1, <2>2, <2>5, <2>7, <2>8 DEF DispatchLags, TerminalFileAgrees
  <2>10. QuietOp(n)'
    BY <2>7, <2>9 DEF QuietOp, SettledPoints, ControlPoints
  <2>11. op' = [ op EXCEPT ![p] = n ]
    BY <2>1, <2>6 DEF Goto
  <2> QED BY <2>10, <2>11, QuietStep
<1>10. CASE MaterializeStamp(p)
  <2>1. /\ o.pc = "mat_stamp" /\ UNCHANGED << log, proj, terminal, runlog, files >>
        /\ state' = [ o.doc EXCEPT
            !.state = IF o.entry.state = None THEN @ ELSE o.entry.state,
            !.iter = o.entry.iter,
            !.active = IF o.entry.task = None THEN @ ELSE o.entry.task ]
    BY <1>10 DEF MaterializeStamp, At
  <2>2. Return(p)
    BY <1>2, <1>10 DEF MaterializeStamp, DispatchLags
  <2>3. o.doc = state /\ RunlogAgrees /\ TerminalFileAgrees
    BY <1>2, <2>1 DEF DispatchLags
  <2>4. state' = [ state EXCEPT !.iter = o.event.iter, !.active = o.event.task ]
    BY <1>0, <1>2, <1>3, <2>1, <2>3 DEF DispatchLags, StateDocs
  <2>5. StateJsonAgrees'
    BY <1>0, <1>2, <2>1, <2>3, <2>4 DEF DispatchLags, StateDocs, StateJsonAgrees
  <2>6. BoundEvidencePresent'
    BY <1>2, <1>5, <2>1 DEF DispatchLags, BoundEvidencePresent
  <2>7. Agreed'
    BY <2>1, <2>3, <2>5, <2>6 DEF Agreed, RunlogAgrees, TerminalFileAgrees
  <2>8. QuietOp(Idle)'
    BY <2>7 DEF QuietOp, WritePoints, MatPoints, ControlPoints, Idle, NoEventYet, Event
  <2> QED BY <2>2, <2>8, QuietStep DEF Return
<1> QED BY <1>7, <1>8, <1>9, <1>10

\* What the recorded end promises is what emit.terminate asks for.
LEMMA RecordedEndAccepted ==
  ASSUME Marking, Backing, proj.terminal # NoTerminal
  PROVE  TerminateAccepts(proj.terminal.verdict)
BY DEF Marking, EndsMarked, VerdictAdmissible, Backing, VerifiedSuccessBacked,
       TerminateAccepts, MeetsStrictBar

LEMMA QuietPublish ==
  ASSUME IInv, OneProcess, History, Marking, Backing, Quiet, NEW p \in Procs,
         \/ EndCheck(p) \/ EndRead(p) \/ EndCreate(p) \/ EndStamp(p)
         \/ SyncCheck(p) \/ SyncRead(p) \/ SyncStamp(p)
  PROVE  Quiet'
<1> DEFINE o == op[p]
<1>0. o \in Ops /\ QuietOp(o) /\ o.doc \in StateDocs /\ OpTrace(o, proj)
  BY DEF IInv, OpsInv, OpInv, Quiet, Ops, History
<1>1. ASSUME NEW n, n.pc \in { "end_read", "end_create", "end_stamp", "end_check", "sync_check" }
      PROVE  n.pc \notin WritePoints \cup MatPoints \cup ControlPoints
  BY <1>1 DEF WritePoints, MatPoints, ControlPoints
<1>2. CASE EndCheck(p)
  <2>1. o.pc = "end_check" /\ UNCHANGED << log, proj, disk >>
    BY <1>2 DEF EndCheck, At
  <2>2. proj.terminal # NoTerminal /\ o.verdict = proj.terminal.verdict
    BY <1>0, <2>1 DEF OpTrace, EndPoints
  <2>3. Agreed \/ (EndLags /\ terminal = NoVerdict)
    BY <1>0, <2>1 DEF QuietOp
  <2>4. CASE Agreed
    <3>1. terminal # NoVerdict
      BY <2>2, <2>4, AdmissibleIsVerdict DEF Agreed, TerminalFileAgrees, Marking, EndsMarked
    <3>2. Goto(p, "sync_check")
      BY <1>2, <3>1 DEF EndCheck
    <3>3. PICK n : n = [ o EXCEPT !.pc = "sync_check" ]
      OBVIOUS
    <3>4. n.pc = "sync_check" /\ n.verdict = o.verdict
      BY <1>0, <3>3 DEF Ops
    <3>5. QuietOp(n)
      BY <1>1, <2>2, <2>4, <3>4 DEF QuietOp
    <3> QED BY <2>1, <3>2, <3>3, <3>5, WritelessStep DEF Goto
  <2>5. CASE EndLags /\ terminal = NoVerdict
    <3>1. Goto(p, "end_read")
      BY <1>2, <2>2, <2>5, RecordedEndAccepted DEF EndCheck
    <3>2. PICK n : n = [ o EXCEPT !.pc = "end_read" ]
      OBVIOUS
    <3>3. n.pc = "end_read"
      BY <1>0, <3>2 DEF Ops
    <3>4. QuietOp(n)
      BY <1>1, <2>5, <3>3 DEF QuietOp, SettledPoints
    <3> QED BY <2>1, <3>1, <3>2, <3>4, WritelessStep DEF Goto
  <2> QED BY <2>3, <2>4, <2>5
<1>3. CASE EndRead(p)
  <2>1. o.pc = "end_read" /\ UNCHANGED << log, proj, disk >>
    BY <1>3 DEF EndRead, At
  <2>2. EndLags /\ terminal = NoVerdict
    BY <1>0, <2>1 DEF QuietOp
  <2>3. PICK n : n = [ o EXCEPT !.pc = "end_create", !.doc = state ]
    OBVIOUS
  <2>4. n.pc = "end_create" /\ n.doc = state
    BY <1>0, <2>3 DEF Ops
  <2>5. op' = [ op EXCEPT ![p] = n ]
    BY <1>3, <2>2, <2>3 DEF EndRead
  <2>6. QuietOp(n)
    BY <1>1, <2>2, <2>4 DEF QuietOp, SettledPoints
  <2> QED BY <2>1, <2>5, <2>6, WritelessStep
<1>4. CASE EndCreate(p)
  <2>1. o.pc = "end_create" /\ UNCHANGED << log, proj, state, runlog, files >>
    BY <1>4 DEF EndCreate, At
  <2>2. EndLags /\ terminal = NoVerdict /\ o.doc = state
    BY <1>0, <2>1 DEF QuietOp
  <2>3. terminal' = o.verdict /\ Goto(p, "end_stamp")
    BY <1>4, <2>2 DEF EndCreate
  <2>4. o.verdict = proj.terminal.verdict
    BY <1>0, <2>1 DEF OpTrace, EndPoints
  <2>5. PICK n : n = [ o EXCEPT !.pc = "end_stamp" ]
    OBVIOUS
  <2>6. n.pc = "end_stamp" /\ n.doc = o.doc /\ n.verdict = o.verdict
    BY <1>0, <2>5 DEF Ops
  <2>7. EndLags'
    BY <2>1, <2>2 DEF EndLags, BoundEvidencePresent, RunlogAgrees
  <2>8. QuietOp(n)'
    BY <1>1, <2>1, <2>2, <2>3, <2>4, <2>6, <2>7 DEF QuietOp, SettledPoints
  <2> QED BY <2>3, <2>5, <2>8, QuietStep DEF Goto
<1>5. CASE EndStamp(p)
  <2>1. /\ o.pc = "end_stamp" /\ UNCHANGED << log, proj, terminal, runlog, files >>
        /\ state' = [ o.doc EXCEPT !.state = TerminalMarker, !.terminal = o.verdict.result ]
        /\ Goto(p, "sync_check") \/ Return(p)
    BY <1>5 DEF EndStamp, At
  <2>2. EndLags /\ terminal = proj.terminal.verdict /\ o.verdict = terminal /\ o.doc = state
    BY <1>0, <2>1 DEF QuietOp
  <2>3. proj.state = TerminalMarker
    BY <2>2 DEF EndLags, Marking, EndsMarked
  <2>4. StateJsonAgrees'
    BY <1>0, <2>1, <2>2, <2>3 DEF EndLags, StateJsonAgrees, StateDocs
  <2>5. Agreed'
    BY <2>1, <2>2, <2>4 DEF Agreed, EndLags, TerminalFileAgrees, BoundEvidencePresent,
       RunlogAgrees
  <2>6. CASE Goto(p, "sync_check")
    <3>1. PICK n : n = [ o EXCEPT !.pc = "sync_check" ]
      OBVIOUS
    <3>2. n.pc = "sync_check" /\ n.verdict = o.verdict
      BY <1>0, <3>1 DEF Ops
    <3>3. proj'.terminal # NoTerminal /\ n.verdict = proj'.terminal.verdict
      BY <2>1, <2>2, <3>2 DEF EndLags
    <3>4. QuietOp(n)'
      BY <1>1, <2>5, <3>2, <3>3 DEF QuietOp
    <3> QED BY <2>6, <3>1, <3>4, QuietStep DEF Goto
  <2>7. CASE Return(p)
    <3>1. QuietOp(Idle)'
      BY <2>5 DEF QuietOp, WritePoints, MatPoints, ControlPoints, Idle, NoEventYet, Event
    <3> QED BY <2>7, <3>1, QuietStep DEF Return
  <2> QED BY <2>1, <2>6, <2>7
<1>6. CASE SyncCheck(p)
  <2>1. o.pc = "sync_check" /\ UNCHANGED << log, proj, disk >>
    BY <1>6 DEF SyncCheck, At
  <2>2. Agreed /\ proj.terminal # NoTerminal /\ o.verdict = proj.terminal.verdict
    BY <1>0, <2>1 DEF QuietOp, SettledPoints
  <2>3. Stamped(state, o.verdict.result)
    BY <2>2 DEF Stamped, Agreed, StateJsonAgrees, Marking, EndsMarked
  <2> QED BY <1>6, <2>1, <2>2, <2>3, QuietReturn DEF SyncCheck
<1>7. ~SyncRead(p) /\ ~SyncStamp(p)
  BY <1>0 DEF SyncRead, SyncStamp, At, QuietOp
<1> QED BY <1>2, <1>3, <1>4, <1>5, <1>6, <1>7

LEMMA QuietControl ==
  ASSUME IInv, OneProcess, Quiet, NEW p \in Procs, Reread(p) \/ DocRead(p) \/ DocStamp(p)
  PROVE  Quiet'
<1> DEFINE o == op[p]
<1>0. o \in Ops /\ QuietOp(o) /\ o.doc \in StateDocs /\ proj.legal
  BY DEF IInv, LogInv, OpsInv, OpInv, Quiet, Ops
<1>1. o.pc \in ControlPoints
  BY DEF Reread, DocRead, DocStamp, At, ControlPoints
<1>2. ControlLags
  BY <1>0, <1>1 DEF QuietOp
<1>3. ASSUME NEW n, op' = [ op EXCEPT ![p] = n ], UNCHANGED << log, proj, disk >>,
             n.snap = proj, n.pc \in {"doc_read", "doc_stamp"},
             n.pc = "doc_stamp" => n.doc = state
      PROVE  Quiet'
  <2>1. QuietOp(n)
    BY <1>2, <1>3 DEF QuietOp, SettledPoints, WritePoints, MatPoints
  <2> QED BY <1>3, <2>1, WritelessStep
<1>4. CASE Reread(p)
  <2>1. PICK n : n = [ o EXCEPT !.pc = "doc_read", !.snap = proj ]
    OBVIOUS
  <2>2. n.pc = "doc_read" /\ n.snap = proj
    BY <1>0, <2>1 DEF Ops
  <2> QED BY ZenonT(40), <1>0, <1>3, <1>4, <2>1, <2>2 DEF Reread
<1>5. CASE DocRead(p)
  <2>1. PICK n : n = [ o EXCEPT !.pc = "doc_stamp", !.doc = state ]
    OBVIOUS
  <2>2. n.pc = "doc_stamp" /\ n.snap = o.snap /\ n.doc = state
    BY <1>0, <2>1 DEF Ops
  <2>3. o.snap = proj
    BY <1>0, <1>5 DEF DocRead, At, QuietOp
  <2> QED BY <1>3, <1>5, <2>1, <2>2, <2>3 DEF DocRead
<1>6. CASE DocStamp(p)
  <2>1. /\ o.pc = "doc_stamp" /\ UNCHANGED << log, proj, terminal, runlog, files >>
        /\ state' = [ o.doc EXCEPT !.state = o.snap.state, !.paused = o.snap.paused,
                                   !.pending = o.snap.pending, !.iter = o.snap.iter ]
        /\ Return(p)
    BY <1>6 DEF DocStamp, At
  <2>2. o.snap = proj /\ o.doc = state
    BY <1>0, <2>1 DEF QuietOp
  <2>3. StateJsonAgrees'
    BY <1>0, <1>2, <2>1, <2>2 DEF ControlLags, StateJsonAgrees, StateDocs
  <2>4. Agreed'
    BY <1>2, <2>1, <2>3 DEF Agreed, ControlLags, TerminalFileAgrees, BoundEvidencePresent,
       RunlogAgrees
  <2>5. QuietOp(Idle)'
    BY <2>4 DEF QuietOp, WritePoints, MatPoints, ControlPoints, Idle, NoEventYet, Event
  <2> QED BY <2>1, <2>5, QuietStep DEF Return
<1> QED BY <1>4, <1>5, <1>6

\* What an accepted event of a command makes of the rest of the projection.
LEMMA ReduceOneOverlay ==
  ASSUME NEW s \in Projections, NEW e \in Events, s.legal, ~Refused(s, e),
         e.type \in { "iteration_appended", "terminal_written" }
  PROVE  LET q == ReduceOne(s, e) IN
         /\ q.paused = s.paused /\ q.pending = s.pending
         /\ q.active = IF e.type = "iteration_appended" /\ e.task # None
                       THEN e.task ELSE s.active
<1>1. ReduceOne(s, e) = [ Apply(s, e) EXCEPT !.count = s.count + 1 ]
  BY DEF ReduceOne
<1>2. CASE e.type = "iteration_appended"
  BY <1>1, <1>2 DEF Apply, WithIteration, Projections
<1>3. CASE e.type = "terminal_written"
  BY <1>1, <1>3 DEF Apply, WithTerminal, Projections
<1> QED BY <1>2, <1>3

LEMMA ReduceOneActive ==
  ASSUME NEW s \in Projections, NEW e \in Events, s.legal, ~Refused(s, e),
         e.type \notin { "iteration_appended", "contract_opened" }
  PROVE  ReduceOne(s, e).active = s.active
<1>1. ReduceOne(s, e) = [ Apply(s, e) EXCEPT !.count = s.count + 1 ]
  BY DEF ReduceOne
<1>2. CASE e.type = "terminal_written"
  BY <1>1, <1>2 DEF Apply, WithTerminal, Projections
<1>3. CASE e.type = "approval_requested"
  BY <1>1, <1>3 DEF Apply, WithRequest, Projections
<1>4. CASE e.type = "approval_resolved"
  BY <1>1, <1>4 DEF Apply, WithResolution, Projections
<1>5. CASE e.type = "terminal_superseded"
  BY <1>1, <1>5 DEF Apply, WithSupersession, Projections
<1>6. CASE e.type \in { "receipt_appended", "run_paused", "run_resumed" }
  BY <1>1, <1>6 DEF Apply, Projections
<1> QED BY <1>2, <1>3, <1>4, <1>5, <1>6 DEF Events, EventTypes

LEMMA QuietCommit ==
  ASSUME IInv, IInv', OneProcess, History, Marking, Quiet, NEW p \in Procs, Commit(p)
  PROVE  Quiet'
<1> DEFINE o == op[p]
           m == Len(proj.entries)
<1>0. o \in Ops /\ QuietOp(o) /\ OpMarked(o) /\ OpTrace(o, proj)
  BY DEF IInv, OpsInv, OpInv, Quiet, Marking, History
<1>1. o.pc = "commit" /\ o.snap = proj /\ o.event \in Events
  BY CommitReads
<1>2. PICK e \in Events : e = o.event
  BY <1>1
<1>3. Follows(proj, e) /\ AppendEvent(e)
  BY <1>0, <1>1, <1>2 DEF OpTrace, Commit
<1>4. UNCHANGED << state, terminal, runlog, files >>
  BY DEF Commit, disk
<1>5. Agreed /\ Prepared(o)
  BY <1>0, <1>1 DEF QuietOp, SettledPoints
<1>6. PICK x : x = [ e EXCEPT !.seq = Len(log) ]
  OBVIOUS
<1>7. /\ proj \in Projections /\ proj.legal /\ proj'.legal /\ log \in Seq(Events)
      /\ Len(log) \in Nat /\ proj.entries \in Seq(RunlogEntries) /\ m \in Nat
  BY DEF IInv, LogInv, Projections
<1>8. /\ x \in Events /\ x.type = e.type /\ x.iter = e.iter /\ x.task = e.task
      /\ x.target = e.target /\ x.bound = e.bound /\ x.verdict = e.verdict
  BY <1>6, <1>7 DEF Events
<1>9. proj' = ReduceOne(proj, x) /\ log' = Append(log, x)
  BY <1>3, <1>6 DEF AppendEvent
<1>10. ~Refused(proj, x)
  BY <1>7, <1>9 DEF ReduceOne, Illegal, EmptyProjection
<1>11. x.type \notin { "contract_opened", "terminal_superseded" }
  BY <1>3, <1>8 DEF Follows
<1>12. /\ proj.terminal = NoTerminal
       /\ proj'.iter = IF e.type \in {"receipt_appended", "terminal_written"}
                       THEN proj.iter ELSE e.iter
       /\ proj'.entries = IF e.type = "iteration_appended"
                          THEN Append(proj.entries, Entry(x)) ELSE proj.entries
       /\ e.type # "terminal_written" => proj'.terminal = proj.terminal
  BY <1>7, <1>8, <1>9, <1>10, <1>11, ReduceOneFields
<1>13. \A k \in DOMAIN log' : (k \in DOMAIN log /\ log'[k] = log[k]) \/ log'[k] = x
  BY <1>7, <1>9
<1>14. PICK n : n = [ o EXCEPT !.pc = AfterCommit(o) ]
  OBVIOUS
<1>15. n.pc = AfterCommit(o) /\ n.event = e
  BY <1>0, <1>2, <1>14 DEF Ops
<1>16. op' = [ op EXCEPT ![p] = n ]
  BY <1>14 DEF Commit, Goto
<1>17. ASSUME e.type # "iteration_appended"
       PROVE  BoundEvidencePresent' /\ RunlogAgrees' /\ proj'.active = proj.active
  <2>1. ~e.bound
    BY <1>2, <1>5, <1>17, Zenon DEF Prepared
  <2>2. ~x.bound
    BY <1>8, <2>1, Zenon
  <2>3. ASSUME NEW k \in DOMAIN log', log'[k].bound
        PROVE  k \in DOMAIN log /\ log'[k] = log[k]
    BY <1>13, <2>2, <2>3, Zenon
  <2>4. BoundEvidencePresent'
    BY <1>4, <1>5, <2>3 DEF BoundEvidencePresent, Agreed
  <2>5. RunlogAgrees'
    BY <1>4, <1>5, <1>12, <1>17 DEF RunlogAgrees, Agreed
  <2>6. proj'.active = proj.active
    BY <1>7, <1>8, <1>9, <1>10, <1>11, <1>17, ReduceOneActive
  <2> QED BY <2>4, <2>5, <2>6
<1>18. CASE e.type = "iteration_appended"
  <2>1. o.cmd = "run" /\ e.task # None /\ e.target = None
    BY <1>2, <1>5, <1>18 DEF Prepared
  <2>2. n.pc = "object"
    BY <1>2, <1>15, <1>18, <2>1 DEF AfterCommit
  <2>3. /\ proj'.entries = Append(proj.entries, Entry(x)) /\ Entry(x).iter = e.iter
        /\ proj'.iter = e.iter
    BY <1>8, <1>12, <1>18 DEF Entry
  <2>4. /\ Len(proj'.entries) = m + 1 /\ proj'.entries[m + 1].iter = e.iter
        /\ \A i \in 1 .. m : proj'.entries[i] = proj.entries[i]
        /\ DOMAIN proj.entries = 1 .. m
    BY <1>7, <2>3
  <2>5. proj'.state = proj.state /\ proj'.terminal = proj.terminal
    <3>1. proj'.state = IF x.target = None THEN proj.state ELSE x.target
      BY <1>7, <1>8, <1>9, <1>10, <1>11, <1>18, ReduceOneState
    <3> QED BY <1>8, <1>12, <1>18, <2>1, <3>1
  <2>6. proj'.paused = proj.paused /\ proj'.pending = proj.pending /\ proj'.active = e.task
    BY <1>7, <1>8, <1>9, <1>10, <1>11, <1>18, <2>1, ReduceOneOverlay
  <2>7. runlog' = [ i \in 1 .. m + 1 - 1 |-> proj'.entries[i].iter ]
    <3>1. runlog = [ i \in 1 .. m |-> proj.entries[i].iter ]
      BY <1>5, <2>4 DEF Agreed, RunlogAgrees
    <3>2. m + 1 - 1 = m
      BY <1>7
    <3> QED BY <1>4, <2>4, <3>1, <3>2
  <2>8. \A k \in DOMAIN log' : log'[k].bound /\ log'[k].iter # e.iter =>
          {"object", "record", "bundle"} \X {log'[k].iter} \subseteq files'
    <3> SUFFICES ASSUME NEW k \in DOMAIN log', log'[k].bound, log'[k].iter # e.iter
                 PROVE  {"object", "record", "bundle"} \X {log'[k].iter} \subseteq files'
      OBVIOUS
    <3>1. k \in DOMAIN log /\ log'[k] = log[k]
      BY <1>8, <1>13
    <3>2. log[k].bound
      BY <3>1
    <3> QED BY <1>4, <1>5, <3>1, <3>2 DEF Agreed, BoundEvidencePresent
  <2>9. Written(n.pc) = {}
    BY <2>2 DEF Written
  <2>10. TerminalFileAgrees' /\ state'.state = proj'.state /\ state'.paused = proj'.paused
         /\ state'.pending = proj'.pending
         /\ state'.terminal = proj'.terminal.verdict.result
    BY <1>4, <1>5, <2>5, <2>6 DEF Agreed, TerminalFileAgrees, StateJsonAgrees
  <2>11. "object" \notin MatPoints /\ m + 1 >= 1
    BY <1>7 DEF MatPoints
  <2>12. DispatchLags(n)'
    BY <1>15, <1>18, <2>1, <2>2, <2>3, <2>4, <2>6, <2>7, <2>8, <2>9, <2>10, <2>11
       DEF DispatchLags
  <2>13. QuietOp(n)'
    BY <2>2, <2>12 DEF QuietOp, SettledPoints, ControlPoints
  <2> QED BY <1>16, <2>13, QuietStep
<1>19. CASE e.type = "terminal_written"
  <2>1. o.cmd \in { "run", "cancel" }
    BY <1>0, <1>1, <1>2, <1>19 DEF OpMarked
  <2>2. n.pc \in { "end_check", "end_read" }
    BY <1>2, <1>15, <1>19, <2>1 DEF AfterCommit
  <2>3. proj'.paused = proj.paused /\ proj'.pending = proj.pending
    BY <1>7, <1>8, <1>9, <1>10, <1>11, <1>19, ReduceOneOverlay
  <2>4. proj'.terminal # NoTerminal
    <3>1. op'[p] = n
      BY <1>0, <1>16 DEF IInv, OpsInv
    <3>2. OpTrace(n, proj)' => proj'.terminal # NoTerminal
      BY <2>2 DEF OpTrace, EndPoints
    <3>3. proj'.terminal = [ verdict |-> e.verdict, seq |-> x.seq ]
      BY <1>7, <1>8, <1>9, <1>10, <1>11, <1>19, ReduceOneFields
    <3>4. x.seq = Len(log) /\ Len(log) # NoEvent
      BY <1>6, <1>7 DEF Events, NoEvent
    <3> QED BY <3>3, <3>4 DEF NoTerminal
  <2>5. terminal = NoVerdict
    BY <1>5, <1>12 DEF Agreed, TerminalFileAgrees, NoTerminal
  <2>6. EndLags'
    BY <1>4, <1>5, <1>12, <1>17, <1>19, <2>3, <2>4 DEF EndLags, Agreed, StateJsonAgrees
  <2>7. QuietOp(n)'
    BY <1>4, <2>2, <2>5, <2>6 DEF QuietOp, SettledPoints, ControlPoints, WritePoints, MatPoints
  <2> QED BY <1>16, <2>7, QuietStep
<1>20. CASE e.type \notin { "iteration_appended", "terminal_written" }
  <2>1. o.cmd # "run" /\ o.cmd # "cancel"
    BY <1>0, <1>1, <1>2, <1>5, <1>20 DEF Prepared, OpTrace
  <2>2. n.pc = "reread"
    BY <1>15, <2>1 DEF AfterCommit
  <2>3. ControlLags'
    BY <1>4, <1>5, <1>12, <1>17, <1>20 DEF ControlLags, Agreed, StateJsonAgrees,
       TerminalFileAgrees
  <2>4. QuietOp(n)'
    BY <2>2, <2>3 DEF QuietOp, SettledPoints, WritePoints, MatPoints
  <2> QED BY <1>16, <2>4, QuietStep
<1> QED BY <1>18, <1>19, <1>20

LEMMA NextQuiet ==
  ASSUME IInv, IInv', OneProcess, Unattended, History, Marking, Backing, Quiet,
         [Next]_vars, crashes' = crashes
  PROVE  Quiet'
<1>1. ASSUME NEW p \in Procs, Work(p) \/ Invoke(p) PROVE Quiet'
  BY <1>1, QuietCommit, QuietPlanning, QuietStart, QuietWriteEvidence, QuietMaterialize,
     QuietPublish, QuietControl DEF Work, Invoke
<1>2. ASSUME NEW p \in Procs PROVE ~Crash(p)
  BY DEF Crash, IInv, DiskTyped
<1>3. ~RequestApproval /\ ~Advance
  BY DEF RequestApproval, Advance, Unattended
<1>4. CASE EditTasks \/ UNCHANGED vars
  <2>1. UNCHANGED << log, proj, state, terminal, runlog, files, op >>
    BY <1>4 DEF EditTasks, vars, disk
  <2>2. /\ StateJsonAgrees' = StateJsonAgrees /\ TerminalFileAgrees' = TerminalFileAgrees
        /\ BoundEvidencePresent' = BoundEvidencePresent /\ RunlogAgrees' = RunlogAgrees
    BY <2>1 DEF StateJsonAgrees, TerminalFileAgrees, BoundEvidencePresent, RunlogAgrees
  <2>3. Agreed' = Agreed /\ ControlLags' = ControlLags /\ EndLags' = EndLags
    BY <2>1, <2>2 DEF Agreed, ControlLags, EndLags
  <2>4. ASSUME NEW q \in Procs PROVE QuietOp(op[q])'
    <3>1. op'[q] = op[q] /\ QuietOp(op[q])
      BY <2>1 DEF Quiet
    <3>2. DispatchLags(op[q]) => DispatchLags(op[q])'
      BY <2>1, <2>2 DEF DispatchLags
    <3> QED BY <2>1, <2>3, <3>1, <3>2 DEF QuietOp, Prepared
  <2> QED BY <2>4 DEF Quiet
<1> QED BY <1>1, <1>2, <1>3, <1>4 DEF Next

LEMMA Prefixed ==
  ASSUME NEW S, NEW x \in S, NEW s \in Seq(S)
  PROVE  /\ DOMAIN (<< x >> \o s) = 1 .. 1 + Len(s)
         /\ (<< x >> \o s)[1] = x
         /\ \A n \in 1 .. Len(s) : (<< x >> \o s)[n + 1] = s[n]
<1>1. ASSUME NEW n \in 1 .. Len(s) PROVE (<< x >> \o s)[n + 1] = s[n]
  OBVIOUS
<1>2. DOMAIN (<< x >> \o s) = 1 .. 1 + Len(s) /\ (<< x >> \o s)[1] = x
  OBVIOUS
<1> QED BY <1>1, <1>2

LEMMA OpeningQuiet ==
  ASSUME Init
  PROVE  Quiet
<1>1. /\ proj.state = "execute-task" /\ proj.iter = 4 /\ proj.active = None
      /\ proj.terminal = NoTerminal /\ proj.paused = FALSE /\ proj.pending = NoEvent
      /\ proj.entries = [ n \in 1 .. 4 |->
           [ seq |-> n, iter |-> n, task |-> None, outcome |-> "replanned",
             state |-> OpeningStates[n] ] ]
  BY DEF Init, OpeningProjection, EmptyProjection
<1>2. /\ state.state = "execute-task" /\ state.iter = 4 /\ state.active = None
      /\ state.terminal = None /\ state.paused = FALSE /\ state.pending = NoEvent
  BY DEF Init, NoDoc
<1>3. terminal = NoVerdict /\ runlog = << 1, 2, 3, 4 >> /\ NoTerminal.verdict = NoVerdict
      /\ NoVerdict.result = None
  BY DEF Init, NoTerminal, NoVerdict
<1>4. StateJsonAgrees /\ TerminalFileAgrees
  BY <1>1, <1>2, <1>3 DEF StateJsonAgrees, TerminalFileAgrees
<1>5. ASSUME NEW k \in DOMAIN log PROVE log[k].bound = FALSE
  <2>1. PICK x : x = Event("contract_opened", 0)
    OBVIOUS
  <2>2. PICK f : f = [ n \in 1 .. 4 |-> [ Event("iteration_appended", n) EXCEPT
                         !.iter = n, !.outcome = "replanned", !.target = OpeningStates[n] ] ]
    OBVIOUS
  <2>3. log = << x >> \o f
    BY <2>1, <2>2 DEF Init, OpeningLog
  <2>4. x.bound = FALSE /\ \A n \in 1 .. 4 : f[n].bound = FALSE
    BY <2>1, <2>2 DEF Event
  <2>5. PICK S : S = { x } \cup { f[n] : n \in 1 .. 4 }
    OBVIOUS
  <2>6. DOMAIN log = 1 .. 5 /\ log[1] = x /\ \A n \in 1 .. 4 : log[n + 1] = f[n]
    <3>1. /\ f = [ n \in 1 .. 4 |-> f[n] ] /\ DOMAIN f = 1 .. 4
          /\ \A n \in 1 .. 4 : f[n] \in S
          /\ x \in S
      BY <2>2, <2>5
    <3>2. f \in Seq(S) /\ Len(f) = 4
      BY <3>1
    <3> QED BY <2>3, <3>1, <3>2, Prefixed
  <2>7. k = 1 \/ k - 1 \in 1 .. 4
    BY <2>6
  <2>8. k - 1 \in 1 .. 4 => log[k] = f[k - 1]
    BY <2>6
  <2> QED BY <2>4, <2>6, <2>7, <2>8
<1>6. BoundEvidencePresent
  BY <1>5 DEF BoundEvidencePresent
<1>7. RunlogAgrees
  <2>1. DOMAIN proj.entries = 1 .. 4 /\ \A n \in 1 .. 4 : proj.entries[n].iter = n
    BY <1>1
  <2>2. runlog = [ n \in 1 .. 4 |-> n ]
    BY <1>3
  <2> QED BY <2>1, <2>2 DEF RunlogAgrees
<1>8. \A p \in Procs : op[p] = Idle
  BY DEF Init
<1> QED BY <1>4, <1>6, <1>7, <1>8, IdleQuiet DEF Agreed, Quiet

LEMMA LoopRunBacking == ASSUME Tasks # {} PROVE Spec => []Backing
<1>1. Init => Backing
  <2> SUFFICES ASSUME Init PROVE Backing
    OBVIOUS
  <2>1. files = {} /\ proj.terminal = NoTerminal /\ \A p \in Procs : op[p].pc = "idle"
    BY DEF Init, Idle, OpeningProjection, EmptyProjection
  <2> QED BY <2>1 DEF Backing, OpBacked, VerifiedSuccessBacked, NoTerminal, NoVerdict, None
<1>2. IInv /\ IInv' /\ History /\ History' /\ Backing /\ [Next]_vars => Backing'
  BY NextKeepsBacking
<1> QED BY <1>1, <1>2, LoopRunIInv, LoopRunHistory, PTL DEF Spec

LEMMA OnlyCrashesCount ==
  ASSUME [Next]_vars
  PROVE  crashes' = crashes \/ crashes' = crashes + 1
<1>1. ASSUME NEW p \in Procs, Invoke(p) PROVE crashes' = crashes
  BY <1>1 DEF Invoke, RunReady, RunTerminal, Approve, Pause, Resume, Cancel, Prepare
<1>2. ASSUME NEW p \in Procs,
             \/ Commit(p) \/ Conflict(p) \/ Reconcile(p) \/ Verify(p) \/ Conclude(p)
             \/ GiveUp(p) \/ WriteEvidence(p) \/ Reread(p) \/ DocRead(p) \/ DocStamp(p)
      PROVE  crashes' = crashes
  BY <1>2 DEF Commit, Conflict, Reconcile, Verify, Conclude, GiveUp, WriteEvidence,
     WriteArtifact, Reread, DocRead, DocStamp
<1>3. ASSUME NEW p \in Procs,
             \/ MaterializeRead(p) \/ MaterializeCheck(p)
             \/ MaterializeBlock(p) \/ MaterializeStamp(p)
             \/ EndCheck(p) \/ EndRead(p) \/ EndCreate(p) \/ EndStamp(p)
             \/ SyncCheck(p) \/ SyncRead(p) \/ SyncStamp(p)
      PROVE  crashes' = crashes
  BY <1>3 DEF MaterializeRead, MaterializeCheck, MaterializeBlock, MaterializeStamp,
     EndCheck, EndRead, EndCreate, EndStamp, SyncCheck, SyncRead, SyncStamp
<1>4. ASSUME NEW p \in Procs, Crash(p) PROVE crashes' = crashes + 1
  BY <1>4 DEF Crash
<1>5. CASE RequestApproval \/ Advance \/ EditTasks \/ UNCHANGED vars
  BY <1>5 DEF RequestApproval, Advance, EditTasks, vars
<1> QED BY <1>1, <1>2, <1>3, <1>4, <1>5 DEF Next, Work

\* With one process, no orchestrator writing beside it and no kill so far, the
\* doctor finds nothing between two commands, whatever the commands were and
\* however TASKS.json was edited meanwhile.
THEOREM LoopRunQuietWorkspace ==
  ASSUME Tasks # {}, OneProcess, Unattended
  PROVE  Spec => []QuietWorkspaceAgrees
<1> DEFINE Unharmed == crashes = 0 => Quiet
<1>1. Init => Unharmed
  BY OpeningQuiet
<1>2. IInv /\ IInv' /\ History /\ Marking /\ Backing /\ Unharmed /\ [Next]_vars => Unharmed'
  <2> SUFFICES ASSUME IInv, IInv', History, Marking, Backing, Unharmed, [Next]_vars,
                      crashes' = 0
               PROVE  Quiet'
    OBVIOUS
  <2>1. crashes \in Nat
    BY LoopRunAssumption DEF IInv, DiskTyped
  <2>2. crashes' = crashes \/ crashes' = crashes + 1
    BY OnlyCrashesCount
  <2>3. crashes' = crashes
    BY <2>1, <2>2
  <2> QED BY <2>1, <2>3, NextQuiet
<1>3. IInv /\ Unharmed => QuietWorkspaceAgrees
  <2> SUFFICES ASSUME IInv, Unharmed, crashes = 0, \A p \in Procs : At(p, "idle")
               PROVE  Agreed
    BY DEF QuietWorkspaceAgrees, Agreed, RunlogAgrees
  <2>1. PICK p : Procs = {p}
    BY DEF OneProcess
  <2> QED BY <2>1 DEF Quiet, QuietOp, SettledPoints, At
<1> HIDE DEF Unharmed
<1> QED BY <1>1, <1>2, <1>3, LoopRunIInv, LoopRunHistory, LoopRunMarking, LoopRunBacking,
        PTL DEF Spec
=============================================================================
