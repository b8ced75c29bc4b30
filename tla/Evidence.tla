------------------------------- MODULE Evidence -------------------------------
(* Evidence records, the digests an event bound, and everyone who judges them: *)
(* the runner before it commits an end, terminate before it publishes it,      *)
(* doctor, and the verdict projection (evidence.py, verifier.py, verdict.py,   *)
(* the evidence half of contract.py, bound_artifact_digests).                  *)
(*                                                                            *)
(* The bar reads a record, then its bundle twice, then TASKS.json; each read   *)
(* is a step, and files change in between. A digest is the bytes it is of.     *)
EXTENDS Naturals, Sequences, FiniteSets

CONSTANTS
  Tasks,
  Goals,          \* goalposts a task can declare
  Removed,        \* the task is not in TASKS.json
  Unhashable,     \* its entry has no canonical form
  Absent,         \* no file
  Garbage,        \* bytes that are no record or bundle
  MaxIterations,  \* bound: iteration ids
  MaxLog,         \* bound: iteration events
  MaxChanges,     \* bound: changes from outside the runtime
  MaxCrashes      \* bound: killed runs

ASSUME EvidenceAssumption ==
  /\ MaxIterations \in Nat /\ MaxLog \in Nat
  /\ MaxChanges \in Nat /\ MaxCrashes \in Nat
  /\ Removed \notin Goals /\ Unhashable \notin Goals

VARIABLES
  log,        \* iteration events, with the digest each bound
  end,        \* the terminal event
  published,  \* terminal_state.json exists
  records,    \* .loop/evidence/evidence-iter<N>.json
  bundles,    \* .loop/artifacts/verify-iter<N>.json
  goal,       \* TASKS.json
  run,        \* one `loop run`
  bar,        \* per reader: an evaluation of the verified-evidence bar
  out,        \* the digests of the verdict being projected
  touched,    \* something changed since the runner began to conclude
  refused,    \* terminate refused the committed end
  changes, crashes

vars == << log, end, published, records, bundles, goal, run, bar, out,
           touched, refused, changes, crashes >>

disk    == << records, bundles, goal >>
history == << touched, refused, changes, crashes >>

-----------------------------------------------------------------------------
(* Files and digests.                                                        *)

Iterations == 1 .. MaxIterations

\* A verify bundle, judged by verify_bundle_is_green.
Bundles == [ iter : Iterations, green : BOOLEAN ]

\* A record commits to the bytes of the bundle its uri names and to the
\* goalpost it was verified against.
Records == [ task : Tasks, sha : Bundles, goal : Goals ]

\* No file is no record.
ASSUME AbsentAssumption == Absent \notin Records

IsRecord(bytes) == bytes \in Records

\* build_verify_evidence
Built(i, t, g, passed) ==
  [ task |-> t, sha |-> [ iter |-> i, green |-> passed ], goal |-> g ]

Events == [ iter : Iterations, task : Tasks, passed : BOOLEAN, record : Records ]

Passed(events) == { events[k].task : k \in { j \in DOMAIN events : events[j].passed } }

NextIteration == IF log = << >> THEN 1 ELSE log[Len(log)].iter + 1

\* Seeded fault: the last binding of a path wins.
BoundLastWins(n, i) ==
  LET ks == { k \in 1 .. n : log[k].iter = i }
  IN  IF ks = {} THEN {}
      ELSE { log[CHOOSE k \in ks : \A j \in ks : j <= k].record }

\* bound_artifact_digests of the first n events: every digest a record path was
\* bound at.
Bound(n, i) == { log[k].record : k \in { j \in 1 .. n : log[j].iter = i } }

LiveTasks == { t \in Tasks : goal[t] # Removed }

-----------------------------------------------------------------------------
(* The verified-evidence bar, test by test.                                  *)

HashVerified(record) == bundles[record.sha.iter] = record.sha

\* Seeded fault: the verdict is read from whatever is there now.
JudgedGreenNow(record) ==
  /\ bundles[record.sha.iter] \in Bundles
  /\ bundles[record.sha.iter].green

\* _verdict_failure re-anchors the bytes it judges to the declared digest.
JudgedGreen(record) ==
  /\ bundles[record.sha.iter] = record.sha
  /\ record.sha.green

BoundOnceAt(n, i, record) == Bound(n, i) = { record }

GoalAgrees(record) == goal[record.task] \in { Removed, record.goal }

\* The bar on files that stand still.
StrictBar(i) ==
  /\ IsRecord(records[i])
  /\ HashVerified(records[i])
  /\ JudgedGreen(records[i])
  /\ BoundOnceAt(Len(log), i, records[i])
  /\ GoalAgrees(records[i])

-----------------------------------------------------------------------------
(* What doctor reports of one record path.                                   *)

\* evidence_chain_mismatch and missing_bound_evidence, event by event.
BoundMismatch(i) == \E k \in DOMAIN log : log[k].iter = i /\ records[i] # log[k].record

HashMismatch(i) == IsRecord(records[i]) /\ ~HashVerified(records[i])

\* The record of the highest iteration backs the task's claim.
IsLatest(i) ==
  \A j \in Iterations :
    IsRecord(records[j]) /\ records[j].task = records[i].task => j <= i

PolicyMismatch(i) == IsRecord(records[i]) /\ IsLatest(i) /\ ~GoalAgrees(records[i])

OrphanBundle(i) == bundles[i] # Absent /\ records[i] = Absent

-----------------------------------------------------------------------------
(* State.                                                                    *)

Readers == { "run", "verdict" }

NoEnd == [ mode |-> "none", cites |-> {}, at |-> 0 ]

NoBar == [ pc |-> "off", todo |-> {}, upto |-> 0, blob |-> Absent ]

Idle == [ pc |-> "idle", n |-> 0, task |-> Absent, goal |-> Absent,
          passed |-> FALSE, iter |-> 0, cites |-> {}, mode |-> "none" ]

Init ==
  /\ log = << >>
  /\ end = NoEnd
  /\ published = FALSE
  /\ records = [ i \in Iterations |-> Absent ]
  /\ bundles = [ i \in Iterations |-> Absent ]
  /\ goal \in [ Tasks -> Goals ]
  /\ run = Idle
  /\ bar = [ p \in Readers |-> NoBar ]
  /\ out = {}
  /\ touched = FALSE /\ refused = FALSE
  /\ changes = 0 /\ crashes = 0

RunGoto(pc) == run' = [ run EXCEPT !.pc = pc ]

StartBar(p, entries) ==
  bar' = [ bar EXCEPT ![p] = [ NoBar EXCEPT !.pc = "bound", !.todo = entries ] ]

-----------------------------------------------------------------------------
(* loop run: one dispatch.                                                   *)

\* The task entry, goalpost included, is read before the verifier runs.
StartDispatch(t) ==
  /\ run.pc = "idle" /\ end = NoEnd
  /\ goal[t] \in Goals
  /\ t \notin Passed(log)
  /\ Len(log) < MaxLog /\ NextIteration <= MaxIterations
  /\ run' = [ Idle EXCEPT !.pc = "verifying", !.n = Len(log), !.task = t,
                          !.goal = goal[t], !.iter = NextIteration ]
  /\ UNCHANGED << log, end, published, disk, bar, out, history >>

\* The event binds the digests of the bytes that will land.
CommitDispatch(passed) ==
  /\ run.pc = "verifying"
  /\ IF run.n = Len(log)
     THEN /\ log' = Append(log, [ iter |-> run.iter, task |-> run.task, passed |-> passed,
                                  record |-> Built(run.iter, run.task, run.goal, passed) ])
          /\ run' = [ run EXCEPT !.pc = "record", !.passed = passed ]
     ELSE run' = Idle /\ UNCHANGED log
  /\ UNCHANGED << end, published, disk, bar, out, history >>

\* The record is placed before the bundle is moved into view.
PlaceRecord ==
  /\ run.pc = "record"
  /\ records' = [ records EXCEPT ![run.iter] =
                    Built(run.iter, run.task, run.goal, run.passed) ]
  /\ RunGoto("bundle")
  /\ UNCHANGED << log, end, published, bundles, goal, bar, out, history >>

PlaceBundle ==
  /\ run.pc = "bundle"
  /\ bundles' = [ bundles EXCEPT ![run.iter] = [ iter |-> run.iter, green |-> run.passed ] ]
  /\ run' = Idle
  /\ UNCHANGED << log, end, published, records, goal, bar, out, history >>

-----------------------------------------------------------------------------
(* loop run: the end.                                                        *)

\* _evidence_records_by_task
RecordsOf(t) ==
  { log[k].iter : k \in { j \in DOMAIN log : /\ log[j].passed /\ log[j].task = t
                                             /\ records[log[j].iter] # Absent } }

\* Everything has passed. (A TASKS.json without tasks is LoopRun's.)
StartEnd ==
  /\ run.pc = "idle" /\ end = NoEnd
  /\ LiveTasks # {} /\ LiveTasks \subseteq Passed(log)
  /\ LET cites == UNION { RecordsOf(t) : t \in LiveTasks }
         missing == \E t \in LiveTasks : RecordsOf(t) = {}
     IN  /\ run' = [ Idle EXCEPT !.pc = IF missing THEN "ending" ELSE "judging",
                                 !.n = Len(log), !.cites = cites, !.mode = "weak" ]
         /\ IF missing THEN UNCHANGED bar ELSE StartBar("run", cites)
  /\ touched' = FALSE
  /\ UNCHANGED << log, end, published, disk, out, refused, changes, crashes >>

\* Seeded fault: a record that is there is taken to meet the bar.
JudgedByPresence ==
  /\ run.pc = "judging"
  /\ bar["run"].pc \in { "met", "unmet" }
  /\ run' = [ run EXCEPT !.pc = "ending", !.mode = "verified" ]
  /\ bar' = [ bar EXCEPT !["run"] = NoBar ]
  /\ UNCHANGED << log, end, published, disk, out, history >>

\* The bar decides which completion mode the end declares.
Judged ==
  /\ run.pc = "judging"
  /\ bar["run"].pc \in { "met", "unmet" }
  /\ run' = [ run EXCEPT !.pc = "ending",
                         !.mode = IF bar["run"].pc = "met" THEN "verified" ELSE "weak" ]
  /\ bar' = [ bar EXCEPT !["run"] = NoBar ]
  /\ UNCHANGED << log, end, published, disk, out, history >>

\* Seeded fault: the end is appended whatever was appended meanwhile.
CommitEndUnchecked ==
  /\ run.pc = "ending"
  /\ end' = [ mode |-> run.mode, at |-> Len(log),
              cites |-> IF run.mode = "verified" THEN run.cites ELSE {} ]
  /\ run' = Idle
  /\ UNCHANGED << log, published, disk, bar, out, history >>

\* terminal_written, if nothing was appended since the projection was read.
CommitEnd ==
  /\ run.pc = "ending"
  /\ IF run.n = Len(log)
     THEN end' = [ mode |-> run.mode, at |-> Len(log),
                   cites |-> IF run.mode = "verified" THEN run.cites ELSE {} ]
     ELSE UNCHANGED end
  /\ run' = Idle
  /\ UNCHANGED << log, published, disk, bar, out, history >>

\* terminate, by the same command or by a later one. A weak end is published as
\* it is; a verified one meets the bar again.
StartPublish ==
  /\ run.pc = "idle" /\ end # NoEnd /\ ~published
  /\ IF end.mode = "weak"
     THEN published' = TRUE /\ UNCHANGED << run, bar >>
     ELSE RunGoto("publishing") /\ StartBar("run", end.cites) /\ UNCHANGED published
  /\ UNCHANGED << log, end, disk, out, history >>

Publish ==
  /\ run.pc = "publishing"
  /\ bar["run"].pc \in { "met", "unmet" }
  /\ published' = (bar["run"].pc = "met")
  /\ refused' = (refused \/ bar["run"].pc = "unmet")
  /\ run' = Idle
  /\ bar' = [ bar EXCEPT !["run"] = NoBar ]
  /\ UNCHANGED << log, end, disk, out, touched, changes, crashes >>

Crash ==
  /\ run.pc # "idle"
  /\ crashes < MaxCrashes
  /\ crashes' = crashes + 1
  /\ run' = Idle
  /\ bar' = [ bar EXCEPT !["run"] = NoBar ]
  /\ UNCHANGED << log, end, published, disk, out, touched, refused, changes >>

-----------------------------------------------------------------------------
(* One evaluation of the bar, entry by entry in path order.                  *)

Entry(p) == CHOOSE i \in bar[p].todo : \A j \in bar[p].todo : i <= j

BarUnchanged == UNCHANGED << log, end, published, disk, run, history >>

ReadBound(p) ==
  /\ bar[p].pc = "bound"
  /\ bar' = [ bar EXCEPT ![p].upto = Len(log), ![p].pc = "record" ]
  /\ UNCHANGED out /\ BarUnchanged

\* The runner and terminate stop at the first entry that fails, the verdict
\* leaves it out.
Unmet(p) ==
  bar' = IF p = "run" THEN [ bar EXCEPT ![p].pc = "unmet" ]
         ELSE [ bar EXCEPT ![p].pc = "record", ![p].todo = @ \ { Entry(p) } ]

\* Seeded fault: whatever is read counts as a record.
ReadRecordUnparsed(p) ==
  /\ bar[p].pc = "record" /\ bar[p].todo # {}
  /\ bar' = [ bar EXCEPT ![p].pc = "hash", ![p].blob = records[Entry(p)] ]
  /\ UNCHANGED out /\ BarUnchanged

ReadRecord(p) ==
  /\ bar[p].pc = "record" /\ bar[p].todo # {}
  /\ IF IsRecord(records[Entry(p)])
     THEN bar' = [ bar EXCEPT ![p].pc = "hash", ![p].blob = records[Entry(p)] ]
     ELSE Unmet(p)
  /\ UNCHANGED out /\ BarUnchanged

\* verify_evidence
HashBundle(p) ==
  /\ bar[p].pc = "hash"
  /\ IF HashVerified(bar[p].blob) THEN bar' = [ bar EXCEPT ![p].pc = "judge" ]
     ELSE Unmet(p)
  /\ UNCHANGED out /\ BarUnchanged

JudgeBundle(p) ==
  /\ bar[p].pc = "judge"
  /\ IF /\ JudgedGreen(bar[p].blob)
        /\ BoundOnceAt(bar[p].upto, Entry(p), bar[p].blob)
     THEN bar' = [ bar EXCEPT ![p].pc = "goal" ]
     ELSE Unmet(p)
  /\ UNCHANGED out /\ BarUnchanged

CompareGoal(p) ==
  /\ bar[p].pc = "goal"
  /\ IF ~GoalAgrees(bar[p].blob) THEN Unmet(p)
     ELSE bar' = IF p = "run"
                 THEN [ bar EXCEPT ![p].pc = "record", ![p].todo = @ \ { Entry(p) } ]
                 ELSE [ bar EXCEPT ![p].pc = "digest" ]
  /\ UNCHANGED out /\ BarUnchanged

FinishBar(p) ==
  /\ bar[p].pc = "record" /\ bar[p].todo = {}
  /\ bar' = [ bar EXCEPT ![p].pc = IF p = "run" THEN "met" ELSE "off" ]
  /\ UNCHANGED out /\ BarUnchanged

Bar(p) ==
  \/ ReadBound(p) \/ ReadRecord(p) \/ HashBundle(p)
  \/ JudgeBundle(p) \/ CompareGoal(p) \/ FinishBar(p)

-----------------------------------------------------------------------------
(* loop verdict.                                                             *)

\* The evidence of a weak end is RUNLOG.md, which never meets the bar.
StartVerdict ==
  /\ bar["verdict"].pc = "off" /\ published
  /\ StartBar("verdict", end.cites)
  /\ out' = {}
  /\ UNCHANGED << log, end, published, disk, run, history >>

\* Seeded fault: the second read of the record is not compared.
ProjectDigestUnchecked ==
  LET bytes == records[Entry("verdict")]
  IN  /\ bar["verdict"].pc = "digest"
      /\ out' = IF IsRecord(bytes) THEN out \cup { bytes } ELSE out
      /\ bar' = [ bar EXCEPT !["verdict"].pc = "record",
                             !["verdict"].todo = @ \ { Entry("verdict") } ]
      /\ BarUnchanged

\* The record is read a second time for its digests, and dropped if it moved.
ProjectDigest ==
  LET bytes == records[Entry("verdict")]
  IN  /\ bar["verdict"].pc = "digest"
      /\ out' = IF BoundOnceAt(bar["verdict"].upto, Entry("verdict"), bytes)
                THEN out \cup { bytes } ELSE out
      /\ bar' = [ bar EXCEPT !["verdict"].pc = "record",
                             !["verdict"].todo = @ \ { Entry("verdict") } ]
      /\ BarUnchanged

-----------------------------------------------------------------------------
(* Changes from outside the runtime, at any moment.                          *)

Change ==
  /\ changes < MaxChanges
  /\ changes' = changes + 1
  /\ touched' = TRUE
  /\ UNCHANGED << end, published, run, bar, out, refused, crashes >>

RewriteRecord(i, bytes) ==
  /\ Change
  /\ records' = [ records EXCEPT ![i] = bytes ]
  /\ UNCHANGED << log, bundles, goal >>

RewriteBundle(i, bytes) ==
  /\ Change
  /\ bundles' = [ bundles EXCEPT ![i] = bytes ]
  /\ UNCHANGED << log, records, goal >>

\* An ordinary event of another writer binds what is there now.
Rebind(i) ==
  /\ Change
  /\ IsRecord(records[i])
  /\ Len(log) < MaxLog
  /\ log' = Append(log, [ iter |-> i, task |-> records[i].task, passed |-> TRUE,
                          record |-> records[i] ])
  /\ UNCHANGED disk

MoveGoal(t, g) ==
  /\ Change
  /\ goal' = [ goal EXCEPT ![t] = g ]
  /\ UNCHANGED << log, records, bundles >>

-----------------------------------------------------------------------------
Run ==
  \/ \E t \in Tasks : StartDispatch(t)
  \/ \E passed \in BOOLEAN : CommitDispatch(passed)
  \/ PlaceRecord \/ PlaceBundle
  \/ StartEnd \/ Judged \/ CommitEnd \/ StartPublish \/ Publish \/ Crash

Outside ==
  \/ \E i \in Iterations :
       \/ \E bytes \in Records \cup { Garbage, Absent } : RewriteRecord(i, bytes)
       \/ \E bytes \in Bundles \cup { Garbage, Absent } : RewriteBundle(i, bytes)
       \/ Rebind(i)
  \/ \E t \in Tasks, g \in Goals \cup { Removed, Unhashable } : MoveGoal(t, g)

Next ==
  \/ Run \/ Outside
  \/ \E p \in Readers : Bar(p)
  \/ StartVerdict \/ ProjectDigest

Spec == Init /\ [][Next]_vars

-----------------------------------------------------------------------------
(* Properties.                                                               *)

Files == { Absent, Garbage }

\* The variables keep their types; a cited record is never evaluated against
\* events that do not exist.
TypeOK ==
  /\ log \in Seq(Events)
  /\ end \in [ mode : { "none", "weak", "verified" }, cites : SUBSET Iterations, at : Nat ]
  /\ end.at <= Len(log)
  /\ published \in BOOLEAN /\ touched \in BOOLEAN /\ refused \in BOOLEAN
  /\ records \in [ Iterations -> Records \cup Files ]
  /\ bundles \in [ Iterations -> Bundles \cup Files ]
  /\ goal \in [ Tasks -> Goals \cup { Removed, Unhashable } ]
  /\ out \subseteq Records
  /\ \A p \in Readers :
       /\ bar[p].todo \subseteq Iterations /\ bar[p].upto <= Len(log)
       /\ bar[p].pc \in { "hash", "judge", "goal", "digest" } =>
            bar[p].todo # {} /\ IsRecord(bar[p].blob)
  /\ run.pc \in { "record", "bundle" } => run.iter \in Iterations

\* A committed end that declares verified evidence is backed by the log it was
\* appended to: each record it cites was bound there, at one digest only, and
\* declares a bundle that passed; whatever was rewritten, bound again or moved
\* while the runner was reading.
VerifiedEndBacked ==
  end.mode = "verified" =>
    /\ end.cites # {}
    /\ \A i \in end.cites : \E r \in Records : Bound(end.at, i) = { r } /\ r.sha.green

\* A digest in a verdict is one the chain committed for a cited record, the
\* only one, and of a record that met the bar; also when the file changed
\* between the reads (verdict.py: "a digest the chain never committed must not
\* enter a signed document").
VerdictDigestsCommitted ==
  \A r \in out :
    /\ r.sha.green
    /\ \E i \in end.cites : Bound(bar["verdict"].upto, i) = { r }

\* The writer's view and doctor's agree on every tree: what meets the bar is
\* never reported as mismatched, missing, stale or an orphan.
ViewsAgree ==
  \A i \in Iterations : StrictBar(i) =>
    ~(BoundMismatch(i) \/ HashMismatch(i) \/ PolicyMismatch(i) \/ OrphanBundle(i))

\* An end is not committed and then refused by the writer unless a file, a
\* goalpost or the log changed after the runner began to conclude.
SeamClosed == refused => touched
=============================================================================
