# loop-engineer in TLA+

Specifications, model-checking configurations and machine-checked proofs for
the event-sourced runtime of this repository (`src/loop/`), the hook that stands
beside it, and the scripts and the gate job that judge what it leaves behind.

1. [The system](#the-system)
2. [Modules](#modules)
3. [What is checked](#what-is-checked)
4. [What is proved](#what-is-proved)
5. [Disagreements between code and documents](#disagreements-between-code-and-documents)
6. [Not modelled, and the plan](#not-modelled-and-the-plan)

Parse with `tlasany M.tla`, check with `tlc -config X.cfg M`, prove with
`tlapm M.tla`.

## The system

A *workspace* holds one run of an agent loop. Its durable state is an
append-only event log and a handful of legacy files derived from it:

| state | file | written by |
|---|---|---|
| event log | `.loop/events.db` | `events.SQLiteEventStore.append` |
| run document | `.loop/state.json` | `emit.append_iteration`, `terminate`, `sync_state_to_*` |
| end record | `.loop/terminal_state.json` | `emit.terminate`, created once |
| narrative | `RUNLOG.md` | `emit.append_iteration` |
| evidence | `.loop/evidence`, `.loop/artifacts` | `emit.write_verify_evidence` |
| plan | `TASKS.json` | people and planners, never a command |

| component | state | operations | talks to | hard behaviour | what makes it correct |
|---|---|---|---|---|---|
| run state machine (`fsm.py`) | none | `legal_targets`, `is_legal_transition` | reducer, emitters | unknown endpoints pass | the reducer takes only legal transitions |
| completion (`completion.py`) | none | policy, criteria and citation tests | reducer, emitters, runner | the same gate in a pure and an I/O layer | no decision, corrected or not, misses the gate |
| reducer (`reducer.py`) | the projection | one fold step per event type | every reader of the log | arbitrary writers: the store checks shapes only | what folds is a run: one end, answered approvals, alternating pauses |
| event store (`events.py`) | the log | `append`, `read` | all commands, across processes | compare-and-swap under a write lock; lost races; duplicate ids | a stale append stores nothing |
| dispatch (`runner.py`) | none of its own | `loop run` | store, verifier, emitters | concurrent runs, a kill between any two writes, repair on the next run | nothing dispatched twice; dependencies; an honest success; progress |
| run control (`runcontrol.py`) | none of its own | `approve`, `pause`, `resume`, `cancel` | store, emitters | races with `loop run` and one another | one of several racing commands wins, files follow |
| emitters (`emit.py`) | the legacy files | see above | called by dispatch and control | no lock, read-modify-write of `state.json`, create-once end record | files never ahead of the log; replays are idempotent |
| store migration and chain (`migrate.py`, `chain.py`) | columns and hashes of the log | `migrate`, link, head, ancestry | store, doctor | migration racing appends and itself; rows of an older release | the chain breaks only at a legacy row; an anchored head determines the prefix |
| evidence (`evidence.py`, `verifier.py`, the evidence half of `contract.py`) | records, bundles | build, place, judge | dispatch, terminate, doctor, verdict | each file read on its own, the bundle twice; files edited between the reads | a verified end rests on what its log bound |
| verdict (`verdict.py`) | none | project, compare | evidence, the gate job | a second read of each record | no digest the chain never committed |
| reports (`runtime.py`, `contract.py`, `simulate.py`) | none | `status`, `replay`, `doctor`, `simulate` | read everything | several reads of a changing workspace | what is reported was so; what is predicted happens |
| stop hook (`hooks/stop_firewall.py`) | a sentinel per session | one per attempt to stop | doctor | repeated stops while findings change | it never locks a session |
| plan lint (`plan.py`) | a search | duplicate ids, unknown edges, cycles | contract | an explicit stack instead of recursion | a cycle is reported exactly when there is one |
| certification (`integrations.py`, `holdout_gate.py`, `anticheat_scan.py`) | none | gate, scan, project | reducer's gate | malformed results, diffs that touch the scanner | no success that was not earned |
| scorecard and ledger (`metrics.py`, `rollout_ledger.py`) | a ledger file | score, baseline, append | bundles, RUNLOG, verdicts | repeated blocks, torn appends | a red bundle never improves a score |
| runtime monitor (`runtime_monitor.py`) | none | one report | `state.json`, RUNLOG | torn files, a missing stamp | an ended run is never advised to go on |
| anchors and the gate job (`anchor.py`, `attestation.py`, `action.yml`) | none | read, resolve, check, compare | chain, doctor, verdict, `gh` | answers of a remote index, optional libraries | a green job vouches for this run |

The order of one dispatch matters and is the backbone of the model: read the
log and fold it; repair legacy files; select a task; run its verifier; append
the event if nobody else appended; place the object, the record and the
bundle; append the RUNLOG block; stamp `state.json`. Ending the run has the same
shape: event, `terminal_state.json`, stamp. A kill may fall between any two of
these, and other processes may act there. `PROJECT.json` lists the hazards this
creates, each at its line, with the properties aimed at it.

## Modules

Modules of processes, checked as state machines:

| module | models | code it follows |
|---|---|---|
| `Fsm` | states, edges, legality | `fsm.py` |
| `Reducer` | event records, the completion gate, one fold step per event type | `reducer.py`, `completion.py` |
| `Replay` | a store any writer appends to, and its replay | `events.py` append, `reducer.py` |
| `LoopRun` | the commands as processes over the log and the files | `runner.py`, `runcontrol.py`, `emit.py`, `events.py` append |
| `RunContract` | what the commands promise of a run; `LoopRun` implements it | |
| `Reports` | doctor, simulate and the stop hook beside `LoopRun` | `contract.py`, `runtime.py`, `simulate.py`, `stop_firewall.py` |
| `EventStore` | connections, transactions, the chain, migration | `events.py`, `chain.py`, `migrate.py` |
| `AppendLog` | what the store promises; `EventStore` implements it | |
| `Evidence` | records, bundles, bindings and everyone who judges them | `evidence.py`, `verifier.py`, `verdict.py`, `contract.py`, `runner.py` |
| `PlanLint` | the lint of a task graph, its search step by step | `plan.py` |

Modules of operators, without state of their own:

| module | models | code it follows |
|---|---|---|
| `Certify` | held-out gate, scan, projection | `holdout_gate.py`, `anticheat_scan.py`, `integrations.py` |
| `Metrics` | scorecard, baseline, ledger | `metrics.py`, `rollout_ledger.py` |
| `Attest` | anchors, the index's answer, signer pins, the gate job | `anchor.py`, `attestation.py`, `action_anchor_resolve.py`, `verdict.py`, `action.yml` |
| `Monitor` | signals, recommendation, exit code | `runtime_monitor.py` |

`MCReplay`, `MCLoopRun`, `MCReports`, `MCEventStore` and `MCEvidence` give TLC
its constants. `PureChecks` holds the checks of the operators as named
assumptions; `MCReplay` extends it, so TLC evaluates them at the start of the
two `replay` runs.

Modules of lemmas and theorems, each about the modules it extends:

| module | about |
|---|---|
| `ReducerProofs` | the lemmas on the fold step that the others need |
| `ReplayProofs` | every stream the store accepts |
| `LoopRunProofs` | the log of the runtime, and its refinement of `RunContract` |
| `LoopRunFilesProofs` | the files of the runtime against its log |
| `EventStoreProofs` | the table, its chain, and its refinement of `AppendLog` |
| `EvidenceProofs` | the bar, the verdict and the seam between the end and its file |
| `ReportsProofs` | what doctor and `simulate` say beside a workspace that moves |
| `PureProofs` | `PlanLint`'s search, and `Certify`, `Metrics` and `Attest` |

### Reducer

`Refused(p, e)` is the disjunction of the reducer's `raise` statements, split by
event type; `Apply` is what each accepted event changes; `ReduceOne` is
`_reduce_one`. A refusal yields the record `Illegal`, which absorbs, as
`EventReplayError` ends a fold. Abstracted:

- an event's uuid is its sequence number, since only `causation_id` compares
  ids;
- a criteria map is empty, unmet or met, and a citation is a record (by the
  iteration its file is named after) or the path `RUNLOG.md`: the gate tells no
  more apart;
- texts, times and receipts' contents are left out. The two text obligations on
  a `terminal_superseded` (justification, authority) are shape checks made before
  an append as well; events here are well-formed.

### Replay

The store validates shapes and nothing else, so an arbitrary writer appends
any well-formed event, each type an action. `proj` is the resumed fold.

### LoopRun

Each process has a record in `op`: where it is (`pc`), the projection it read
(`snap`), the `state.json` it read (`doc`), the event it prepared, the entry it
materializes and the verdict it records. An action is one read or write of one
file, or one transaction:

| code | actions |
|---|---|
| `dispatch_once`, entry | `RunReady`, `RunTerminal` (other states raise and change nothing) |
| `_reconcile_legacy_iteration` | `Reconcile`, then per entry `MaterializeRead/Check/Block/Stamp` |
| `select_next_task`, verifier | `Verify`, `GiveUp` |
| `_auto_terminal_payload` | `Conclude` |
| `SQLiteEventStore.append` | `Commit`, `Conflict` |
| `write_verify_evidence` | `WriteEvidence`, three writes |
| `_reconcile_legacy_terminal`, `terminate`, `sync_state_to_terminal` | `EndCheck`, `EndRead`, `EndCreate`, `EndStamp`, `SyncCheck`, `SyncRead`, `SyncStamp` |
| `approve_run`, `pause_run`, `resume_run`, `cancel_run` | `Approve`, `Pause`, `Resume`, `Cancel`, then `Commit`, then `Reread`, `DocRead`, `DocStamp` or the end steps |
| the host orchestrator | `RequestApproval`, `Advance` (external) |
| an edit of `TASKS.json` | `EditTasks` (external) |
| SIGKILL or an I/O error | `Crash`: the process stops, the files stay |

Choices worth knowing:

- `proj` is kept beside `log` and extended by `AppendEvent`; in the code every
  reader folds the stream again. One read of the log is one step, because it is
  one SQLite read.
- The run starts after the orchestrator opened the contract and moved it to
  `execute-task`, with everything materialized; `iteration_id` is 4 there. The
  code has no command that does this.
- The orchestrator is assumed to fold the log and to use `expected_sequence`.
  `Replay` covers writers that do not.
- The verifier's outcome is chosen freely from `Results`; a timeout is a failure,
  an unlaunchable verifier ends the command without an event. So does a task of
  `Unrunnable`, whose verify command is missing or does not parse; an edit of
  `TASKS.json` changes statuses and leaves the verify commands as they are.
- `TASKS.json` is one variable; selection, the conclusion and the verdict read it
  in one step.
- Evidence files are only ever added. The strict bar's digest and goalpost
  sub-checks are true in that setting and are left out.
- `terminate`'s transition test after the create always succeeds here: any
  known state reaches the terminal marker (lemma `CanEnd`).
- Definitions introduced by a comment "Seeded fault" are not used by the
  specification. Each is the definition after it with a bug, to show that a
  property would notice.

### RunContract

Six actions over six variables: `Dispatch`, `Steer` and `Ask` (the orchestrator's moves and
requests), `Approve`, `End`, `Publish`. A dispatch needs an open run in `execute-task`, a task
that is not done and dependencies that are; a success needs every task done in
such a run; ids grow by one. It has no processes, no stale reads and no crashes: that
`LoopRun` implements it says that none of these can be seen from the log and the
published end. The mapping reads everything from the fold of the log
(`LedgerOf(proj)`, `proj.state`, the end) but `published`, which is `terminal_state.json`. A pause is
no part of the contract: the overlay changes no FSM state
(`reference/repo-os-contract.md:1303`), and `dispatch_once` does not look at it.

### EventStore and AppendLog

`LoopRun` takes an append for one step; this module is why it may. A call is
a connection (`call[w]`). What runs outside a transaction is a step for each
statement: the probe for the table, `CREATE TABLE IF NOT EXISTS`, the
`user_version` stamp, and in `migrate_store` the column check, the stamp and the
report. `BEGIN IMMEDIATE` takes `lock`, and `Conflict`, `Duplicate`, `Insert` and
`Commit` are the statements below it. `Busy` is the busy timeout, at every statement
that waits for the lock. `Crash` rolls an open transaction back and loses the
answer; a retry with the same id is just another call.

A store is absent, or was left by an older release without chain columns.
`LegacyAppend` is that release writing beside this one; the `NOT NULL` of a fresh
table refuses it. SHA-256 is symbolic: a digest *is* its preimage, so two
preimages never collide. `Link` is `link_issue`, `Heads` is `verify_chain`, `WasHeadAt` is
`head_sequence`. `AppendLog` has one action, `Add`; the refinement mapping `Contents` takes
the rows of a run in sequence order and forgets the hashes.

### Evidence

The verified-evidence bar reads a record, then its bundle for the digest, then
the bundle again for its verdict, then `TASKS.json`. `Bar(p)` makes each read a step,
for two readers: the runner (before it commits an end, and again in
`terminate` before it publishes) and the verdict, which reads each record once more
for its digests. Between any two steps anything outside the runtime may happen:
`RewriteRecord`, `RewriteBundle`, `Rebind` (another writer binds what is there now) and
`MoveGoal` (an edit of a goalpost in `TASKS.json`, down to removing the task). A
digest is the bytes it is of. Field formats, paths leaving the workspace and the
identity of the verifier's own code are left out.

### Reports

Extends `LoopRun`: its variables and actions are the workspace, under `Moves`.
`rd` is the one read-only command under way and `rd.pc` names its next read, in the
order of the code: doctor reads `state.json`, the terminal file, the records,
the bar, and then the store three times, each time comparing the fold with
files it reads after it. The hook claims, runs doctor, compares the sentinel;
every way it fails open is `StopFails`. `simulate` reads the log, two files and the
plan, and refuses a selectable task that is `Unrunnable`. Three things are for the properties only: `seen` collects what was true
at any moment since the command's first read, `forecast` keeps a prediction until
something other than one `loop run` happens, `session.open` is whether the session is
still there.

### PlanLint

One step is one turn of the search's loop: push a white successor, meet a grey
one, or pop. It is checked on small graphs by iterating the step, and proved for
every plan.

### Certify, Metrics, Attest, Monitor

Scripts that read once and answer. A diff is a sequence of sections with the marks
its lines bear, and the scanner's own entries are netted over all of them; a check result is passed, failed or malformed; a workspace is a
record of RUNLOG blocks, bundles, verdict files and repair files (files, so two
alike count twice; a malformed one and one in the shape of a rollout are among
them); an anchor's
optional field is given by what its value is (absent, null, fitting, too long,
of another type); the monitor's reading is a record of what the files hold.
The patterns that find a mark on a line are not modelled, only what follows
from it. In `Attest` the index's answer and the exit code of each step of the
gate job are kept in the order of `action.yml`, with `gh` external.

## What is checked

| run | question | bounds | result |
|---|---|---|---|
| `replay` | does what folds deserve to be called a run? | 6 events, 1 task, 1 iteration id, 7 verdicts, 4 target states | holds, about 1M states |
| `dispatch` | concurrent `loop run` with crashes | 2 processes, 2 tasks (the first waits for the second), 8 events, 1 crash, passing and failing verifiers | holds, 262k states |
| `control` | every command and orchestrator event at once | 2 processes, 1 task, 8 events, 1 crash | holds, 425k states |
| `solo` | restarts, repairs and edits of the plan | 1 process, 9 events, 2 crashes | holds, 194k states |
| `completes` | does `loop run` finish the run? | 2 processes, 2 tasks, 8 events, 1 crash, passing verifiers | holds, 53k states |
| `store` | appends, migrations and kills, statement by statement | 2 processes, 2 runs, 3 event ids, 1 body, 3 rows, 1 crash, new and old stores | holds, 378k states |
| `evidence` | who may rely on which bytes | 2 tasks, 2 goalposts, 2 iterations, 3 events, 2 outside changes, 1 crash | holds, 939k states |
| `reports` | reads beside a running and dying `loop run` | 1 process, 3 tasks (the third done, blocked or without a verifier), 8 events, 1 crash, passing verifiers, 1 reader | holds, 541k states |
| `replay_lightweight` | the interop note on approval waits | 6 events | violated |
| `hidden_materialization` | replay before selecting work | 1 process, 1 crash | violated |
| `no_tasks` | an empty plan | 1 process | violated |
| `migrate_report` | does the report name the genesis? | as `store`, 1 run | violated |

**Bounds.** The opening takes 5 of the 8 or 9 events. `dispatch` then has room
for both dispatches and the terminal, or for a failed dispatch and its retry;
`control` for any three racing events, which is one more than any pair of commands
and the end; `solo` for four. Two processes are enough for every race of the
code, as every step depends on the log, the files and one process's own
reads; one crash falls at every point of every command, and two let a repair
be killed as well. `replay` reaches a request, its denial or answer, a second
request, an end and a correction. A stream the reducer refused is not extended
(`StopAtRefusal`): every extension is refused, so nothing is lost. `Procs` are
interchangeable (`SYMMETRY`) in the runs of `LoopRun` that check state predicates and
the refinement, whose steps tell no two processes apart.
`CHECK_DEADLOCK FALSE` in all runs: a finished run, and a full log, stop the
system legitimately.

`store` needs two processes for every race of the code (one may be between any two
statements while the other runs to its end), two runs because event ids are
unique over the whole table, three rows for a legacy row, a chain genesis and
its successor, and three ids so that a retry, a foreign duplicate and a new
row can meet. Processes, runs and ids are interchangeable there; the refinement
it checks is a safety property, for which the reduction is sound. `evidence`
needs two iterations for a record that is rewritten with another's bytes, two
outside changes for one that is undone, and three events for a second binding.
`reports` has one writer: what a report may say while two writers overwrite one
another's `state.json` is not promised by the code. One reader is enough, as
readers change nothing. The third task is there so that simulate also predicts a
block and a refusal of a task. That it refuses because of the state the run is in
needs a control command, which `reports` leaves out (it would not finish in
time): that case rests on the theorem `ReportsPredictions`.

**Properties.** Each is stated where it is defined, with the code it is about.
In short: `LogStaysReplayable`, `NoTaskPassedTwice` and `DependenciesRespected` are what the
compare-and-swap and the selection are for; `ImplementsRunContract` says it of every step,
and that nothing is dispatched or concluded in a run that meanwhile waits for an
approval (`IterationIdsIncrease` follows from it and is proved on its own);
`SuccessCoversTasks` and `VerifiedSuccessBacked` say a recorded success is true of
the run and of the disk; `TerminalFileFollowsEvent`, `ProjectionsNeverAhead`,
`RunlogBlockOnce`, `EndStaysStamped` and `QuietWorkspaceAgrees` relate the files to
the log; `EndEventuallyPublished` and `RunSucceeds` are liveness.

Of the store: `OnlyLegacyBreaks` (this release's appends and migrations never break a
chain), `AnchorDeterminesPrefix` (whatever is presented, finding the anchored head
means having seen the chained history below it), `OutcomesTruthful` (what an append
answers is so, retries included), `VersionTwoHasColumns` (the downgrade alarm has no
false positives) and the refinement `ImplementsAppendLog`. Of evidence: `VerifiedEndBacked`,
`VerdictDigestsCommitted`, `ViewsAgree` (the writer's bar and doctor's findings never
contradict) and `SeamClosed` (an end is committed and then refused only if something was
changed in between). Of reports: `ReportsTruthful`, `PredictionsHold`, `SessionEnds`.

Of the operators, by enumeration in `PureChecks`: `LintDecides` (every graph of three
names with at most two edges each), `GateDecides`, `ScanDecides` (every shape of section git
writes, beside a further edit of the scanner), `RedNeverHelps`, `RepeatedBlockExcuses`, `CrashCostsTwo`, `NullsDivide`, `AnswersSorted`
and `MonitorDecides`. `RepeatedBlockExcuses`, `CrashCostsTwo` and `NullsDivide` exhibit what can
happen: an iteration's block written twice lets an earlier green excuse a later
red; a crash inside a ledger append costs the next record as well; a null
field divides the anchor checks with and without `jsonschema`.

`DependenciesRespected` and `SuccessCoversTasks` speak of `TASKS.json` as it is and
are checked where it is not edited: an edit can always make history look wrong.
`QuietWorkspaceAgrees` holds until the first crash: after one, `state.json` may stay
behind until the next command that touches it, and bound evidence stays
missing, which is what doctor reports. `RunlogBlockOnce` and `EndStaysStamped` are
checked for one process: two processes can write a block twice, and a slow dispatch
or a slow control command can put the `state.json` it read back over an end stamp.
`completes` has the slow dispatch, and shows that the stamp is repaired by the next
`loop run`. A slow control command beside another process occurs in `control` only,
which checks safety, so its repair is not checked there.

**Fairness** (`FairSpec`). Weak fairness of `Work(p)`: a command that was started
and is not killed takes its next step; commands never wait for one another, as
the only lock is held inside one append. Weak fairness of invoking `loop run`:
the documented use is to call it until the run ends, and each call dispatches
one task. Nothing is assumed of the control commands, the orchestrator or
crashes. `MaxEvents` does not interfere: with passing verifiers two tasks and
the end use all 8 events exactly once, as no dispatch is duplicated.

`ReportsSpec` assumes weak fairness of a reader's next read (a started command that
reads goes on reading) and strong fairness of `StartStop`: a session that is held
keeps asking to stop, although the reader it shares the model with may be
busy at any one moment. Nothing is assumed of the workspace, which may move
between any two attempts.

## What is proved

For every value of the constants: any number of processes, tasks, events, rows
and crashes, any dependency graph, any `Commands`, any length of a list, except
where the last column says otherwise. Every invariant, action property and
refinement that a passing run checks is stated by one of these theorems.

| theorem | says | given |
|---|---|---|
| `ReplayTypeOK` | any stream of well-formed events folds to a projection | |
| `ReplayGate` | no decision, effective or superseded, misses the completion gate | |
| `ReplayTerminalImmutable` | an end is only replaced by a correction that cites it | |
| `ReplayLegalTransitions` | one event, at most one legal FSM transition | |
| `ReplayResolutions` | each resolution answers the one request that was open | |
| `ReplayPauses` | pauses and resumes alternate | |
| `ReplayAudit` | the superseded history and the end are the terminal events of the stream, in order | |
| `LoopRunIInv` | the inductive invariant of the runtime | a task |
| `LoopRunTypeOK` | the variables keep their types | a task |
| `LoopRunReplayable` | no interleaving and no crash leaves a log that does not fold | a task |
| `LoopRunIterationIds` | iteration ids grow along the log | a task |
| `LoopRunNoTaskPassedTwice` | no interleaving dispatches a task again after it passed | a task |
| `LoopRunTerminalFile` | `terminal_state.json` says what the end in the log says | a task |
| `LoopRunDependencies`, `LoopRunSuccessCovers` | passes follow `depends_on`; a success has passed every task | a task, no edits |
| `LoopRunImplementsRunContract` | every step of the commands is a step of `RunContract` or none | a task, no edits |
| `LoopRunVerifiedSuccess` | a success under verified evidence has its cited records on disk | a task |
| `LoopRunNeverAhead` | no file shows what the log does not have | a task |
| `LoopRunRunlogOnce` | no iteration gets a second RUNLOG block | a task, one process |
| `LoopRunEndStaysStamped` | a stamped end is never taken back | a task, one process |
| `LoopRunQuietWorkspace` | until the first kill, doctor finds nothing after a command and RUNLOG lists the log | a task, one process, unattended |
| `StoreTypeOK`, `StoreVersion`, `StoreTruthful` | the store's types, its declared generation, its answers | |
| `StoreImplementsAppendLog` | the table implements one append-only log per run | |
| `StoreChains` | a chain breaks only at a row of an older release | |
| `StoreAnchors` | an anchored head fixes the chained rows below it | |
| `EvidenceTypeCorrect` | the types, and that a reader judges only what it holds | |
| `EvidenceEndBacked` | a verified end was backed by the log it was appended to | |
| `EvidenceDigestsCommitted` | a verdict's digests were committed by the log | |
| `EvidenceViewsAgree` | what meets the bar is no finding of doctor | |
| `EvidenceSeamClosed` | an end is committed and then refused only after a change from outside | |
| `ReportsPredictions` | what simulate predicts is what the next `loop run` does | a task |
| `ReportsFindings` | what doctor or simulate finds was so at some moment while it read | a task |
| `ReportsTruth` | and when doctor finds nothing, there was a moment when there was nothing to find | a task, one process, only runs |
| `CycleFoundIffAny` | when lint's search ends, it found a cycle if and only if there is one | |
| `DecideSound` | the held-out gate says Succeeded for two green sets and nothing else | |
| `ProjectionAdmissible` | every projected end passes the reducer's gate | |
| `SuccessIsEarned` | a projected success passed both sets and its diff touched no gate file | |
| `RedBundleNeverHelps`, `ExcusedByLaterGreen` | what a red bundle can and cannot do to a scorecard | for the second, each RUNLOG block once |
| `VerdictsRederived`, `BaselineBacked` | what a counted verdict and a published baseline rest on | |
| `StructuralLegCovers` | the structural checks of an anchor refuse what the schema refuses | no null field |
| `ResolveGreenMeansSigned` | the resolve step passes only certificates with the pinned signer | |
| `CompareDecides` | two verdicts agree exactly when run, head, end and evidence do | |
| `GreenJobVouches` | a green gate job has found its anchored head, and a signed current verdict is this run's | |

**Assumptions.** Of the constants: `ReplayAssumption`, `LoopRunAssumption`,
`EventStoreAssumption`, `EvidenceAssumption`, `AbsentAssumption`, `ReportsAssumption`
and `PlanAssumption`, which TLC evaluates in the runs. They are types, and that a value
which stands for "nothing" is none of the values (an absent file is no record, `None`
is no process, the missing hash is no sequence). Of single theorems:

- *a task*: `Tasks # {}`. Run `no_tasks` is the counterexample without it.
- *no edits*: `"edit" \notin Commands`. A planner that takes back a `done` after
  another task relied on it makes these false.
- *one process*: `OneProcess`, one `loop` command at a time, as the run `solo` has it.
  Two processes can write a block twice, and a slow control command can write an
  older `state.json` over a stamp.
- *unattended*: `Unattended`, the orchestrator appends nothing while a command is
  under way; an appended request is in no file until somebody writes it there.
- *only runs*: `OnlyRuns`, the process uses `loop run` and a planner may edit
  TASKS.json, any number of kills included. With a control command it is false: TLC
  finds, for `Commands = {"run", "pause"}` and two kills, a pause killed between its
  append and its stamp and a `loop run` that brings `state.json` up to an older
  entry, such that doctor compares the new file with the log it read before the
  pause, finds nothing, and nothing agreed at any moment of its reading.

**The argument for `LoopRunReplayable`.** That the log folds is not inductive. A
command tests the run it read and appends later, when the run may be another.
`IInv` adds: a projection read earlier is either the current one or has a smaller
count (`Current`); a prepared event is acceptable to the projection it was
prepared from (`Storable`); the log's length is the projection's count; a process
between reading and selecting read a run in `execute-task` without an end; and
evidence files carry iteration ids above 0, which makes the strict citations
record-shaped. `Commit` needs equal counts, so its projection *is* the current
one and the event is acceptable (`AppendKeepsLog`). Every other process keeps
`Current` because counts only grow. `AutoVerdictAdmissible` shows that the recorded
success passes the gate; it is the only place that needs a task. There is one
lemma per group of actions. TLC checks in run `control` that `IInv` holds in every
state reached; that it is inductive is what the proof says.

**The argument for the other theorems about the log of `LoopRun`.** Each relates the log to
something read from an earlier log: the task a command selected, the end it
decided, the file it found missing. `History` says what a command knows of the log
it read: a prepared event has an iteration id above every id there, passes no task
that passed there, and ends only an open run (`Follows`); the compare-and-swap makes
the same true of the log it is appended to. After an append no earlier projection
has the count of the last one, so what other commands prepared can no longer be
committed and nothing is left to show for it. `Planned` adds that the selected
task's dependencies passed in the projection read, which is a fact of the current
plan only while TASKS.json stands. The step simulation needs no more: an append keeps
to the plan of the run it is appended to, so it is `Dispatch`, `Steer`, `Ask`, `Approve`, `End` or
nothing (`AppendIsContractStep`), and a step that leaves the log alone can only
create the file, with the recorded end in it (`QuietIsContractStep`). `Backing` adds that the evidence a verified
success cites is on disk from the moment the end is prepared: evidence files are
added and never removed, and a record that is bound once stays bound once, since a
later append has a larger id.

**The argument for `StoreImplementsAppendLog`.** The invariant (`Numbered` and the types) is
that the sequences of a run are `0 .. n - 1`, each held by one row, that ids occur
once, that the lock's holder is exactly the process inside a transaction, and
that a row in flight has the next sequence and a new id: both were tested under
the lock it still holds, and nobody else changes `rows` meanwhile. `Commit` and
`LegacyAppend` then map to `Add`, since the mapped log of one run grows by one entry
and the others stand still; every other step leaves `rows` as they are and maps to
a stutter.

**The argument for the files of `LoopRun`.** `Behind` carries each conjunct of
`ProjectionsNeverAhead` to everything a process holds: the `state.json` and the
projection it read, the entry it materializes and the event whose artifacts it
writes are all no later than the log, because the log only grows (`Onward`) and a
stamp is put together from these. For one process, `Solo` says that what was checked
before a write is still so at the write: between the look for a RUNLOG header and the
block nobody else appends one, and while a command has anything to write of an
open run the log has no end, so no stamp of an open run can fall on a stamped end.
It rests on `Marking` (the terminal marker is in the log exactly when an end is).
`Quiet` is a table of program points: until the first kill it says for each point
precisely what the files still lack of the log (`DispatchLags`, `ControlLags`, `EndLags`), which
each write then supplies, down to `Agreed` where the command returns.

**The argument for the streams of `Replay`.** An accepted event changes the
projection's pending request, pause flag, end and history in one of a few ways
(`Accepted`). `Answered` relates the pending request to the stream: it is its latest
request and no later event resolves it; `PausesIs` relates the pause flag to the last
mark of the stream, `AuditIs` the history to the terminal events. The stream's
property is then extended by one event at a time, the older part being a prefix.

**The argument for the chain.** Head and ancestry are recursive functions of a
stream. What such a function yields cannot be shown by the induction
theorems, but each step of it can, so the proofs take the least position at which a
statement fails and find one before it. `StoreChains`: in a stream whose chained rows
are linked (invariant `Linked`) and none of whose unchained rows follows a chained
one, the head at a position is the hash of the row there. `StoreAnchors`: two replays that
meet in one digest have met one row before, since a digest is its preimage and holds
the digest before it (`MeetingReplays`), so they have seen the same chained rows.

**The argument for `Evidence`.** Each evaluation of the bar is a cell that
advances from entry to entry. What is kept of a finished test must not mention the
files, which may have changed since: `ConcludesOn` says that a judged entry was bound
at one digest, with a passed bundle, among the first `n` events, which no append changes,
and a record that is held is the one that was bound. From there it goes into the
end (`BackedIn`) and, for the verdict's evaluation (`ProjectsOn`), into its digests, which are read
again and kept only when the log bound them. For the seam, `Standing` says the opposite: as
long as nothing changed from outside, what was judged is still on disk, and the
second evaluation passes where the first did.

**The argument for `Reports`.** A reader moves nothing (`ReportsIsLoopRun`), so the
invariants of `LoopRun` hold under it. `Foretold` follows a prediction into the run that
comes next: as long as it is kept, the projection that run read is the one
simulate read, and each program point knows which of the predicted actions are
left and whether a write is still to come. `Watched` says why a finding is true although
a file is compared with an older log: no step changes the log and a file, so for each
field either the log still has the value that was read or the two differed at the
append, and that difference was seen (`Held`, `EndHeld`). For the other half the danger
is that doctor reads the log, the log moves, and the file then agrees with the old
log only. `Tracking` says that a run which does nothing but `loop run` brings `state.json` up
entry by entry and appends only once it has arrived, kills included. So just before an
append `state.json` agrees with the log, and all else agrees with it, except artifacts that
were bound and whose writer was killed. These are never written again (`Doomed`), and the
last read of doctor finds them. `Clean` says which of the two it is at each of its reads.

**The argument for `CycleFoundIffAny`.** The invariant says that the grey nodes are the
stack's, each entered from the one below it by an edge its iterator has passed;
that every edge a frame has passed, and every edge of a black node, leads to a
grey or black node or is recorded; and, while nothing is recorded, that no
black node reaches a grey one. A recorded node closes a path on the stack. If
none is recorded when the search ends, the black nodes are all of them, and
the order in which they were finished contradicts a cycle, for which the proof
takes a non-empty set of nodes each with a successor in it.

**The pure theorems** follow from the definitions; they are worth stating because
each relates two programs: the projection and the reducer that reads it, the
structural checks and the schema, the gate that wrote a verdict and the script
that counts it.

**Only model-checked.** The liveness properties `RunSucceeds`, `EndEventuallyPublished` and
`SessionEnds`: fairness and `ENABLED` are out of reach of the prover. The four expected
violations are counterexamples and need no proof. The monitor, and what `PureChecks` enumerates
beyond the theorems above. Of the inductive invariants only `IInv` of `LoopRun` has a run of its
own; the others are proved, which is more.

## Disagreements between code and documents

1. **An empty plan bricks the run** (`no_tasks`). `loop run` on a `TASKS.json`
   without tasks finds everything done, commits a `Succeeded` without criteria,
   and only then does `emit.terminate` refuse it. The reducer refuses it too, so no
   command can read the run again. `runner.py:201` describes this seam,
   committed and then refused, as closed.
2. **A dispatch that is never materialized** (`hidden_materialization`).
   `repo-os-contract.md:610` promises that a later `loop run` replays missing
   materialization. What is missing is judged by `state.json`'s iteration id, which
   `loop pause` or any control command after the crash advances.
3. **A lightweight wait that is consumed** (`replay_lightweight`).
   `repo-os-contract.md:1310` says a wait entered by `iteration_appended` cannot be
   consumed by `approval_resolved`. It can, if an earlier structured request was
   left by an iteration and never answered.
4. **The migration's report** (`migrate_report`). `repo-os-contract.md:1463` says that
   `chained_from_sequence` names the chain genesis. It is read after the transaction
   (`migrate.py:39`) and over all runs, so a racing append is the genesis and the
   report names a later sequence.

Two more were met where there is no state to run:

- `anchor.py:31` says its structural checks refuse everything the schema
  refuses. An optional field that is `null` is skipped by them and refused by the
  schema (`NullsDivide`); with nulls left out the claim is proved
  (`StructuralLegCovers`).
- The runtime monitor looks for `active_task=` and `best_score=` in the RUNLOG
  (`skills/loop-runtime-monitor/reference/patterns.md:12`). The blocks
  `emit.append_iteration` writes have neither, so a workspace written by `loop run`
  alone gives it nothing to judge and is reported degraded.

## Not modelled, and the plan

`PROJECT.json` lists every component with its status, and under `hazards` those
no property covers, each with the reason. Next, in this order:

1. More theorems about the operators: `MonitorDecides` and `ScanDecides` for every input.
2. `WalRead`: the copy of the store with its WAL while a writer checkpoints.
3. Two writers in `Reports`.

Partly modelled: the emitters (`append_receipt`, the `emit` command line and calls
without an event store are left out), doctor (the schema validation of single
files is left out), plan lint (the field checks of each task kind are left
out), the reducer (the pre-chain snapshot seam is left out).

Left out for good: command-line parsing, path discovery, templates and
schemas, readers of other tools' layouts, `inspect_loop`, `self_eval`, the benchmark
harness and the probes. They keep no state and follow no protocol.
