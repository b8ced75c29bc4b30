------------------------------ MODULE Metrics ------------------------------
(* The scorecard of a finished workspace (scripts/metrics.py): which of its  *)
(* success claims its verify bundles bear out, which of its repair records   *)
(* do, and when the numbers may be published; and the rollout ledger.        *)
(*                                                                           *)
(* A workspace w is a record: blocks, the RUNLOG iterations in file order,   *)
(* each with the bundles its text names; bundles; terminal; gates, the held- *)
(* out verdict files, and repairs, the repair files, in path order; costs,   *)
(* of the receipts.                                                          *)
EXTENDS Certify

NoIteration == 0                \* no iteration field: JSON null
NoScore == -1
NoObject == -2                  \* the field that should hold a score is no object

Blocks == [ iter : Nat \ {0}, claim : {"completion", "progress", "other"}, refs : SUBSET Nat ]

Bundles ==
  [ name : Nat, green : BOOLEAN, iter : Nat, task : Tasks \cup {None},
    score : Nat \cup {NoScore}, injected : BOOLEAN ]

\* The scores a repair file gives before and after, the score_delta it may give
\* instead, and the verdict it gives itself. A file that is no record has none.
Repairs ==
  [ before : Nat \cup {NoScore, NoObject}, after : Nat \cup {NoScore, NoObject},
    delta : {"absent", "rise", "other"}, productive : {"true", "false", "unsaid"} ]

-----------------------------------------------------------------------------
(* Bundles and the iterations they speak for.                                *)

\* A verdict the caller handed in is not evidence.
Counted(w) == { b \in w.bundles : ~b.injected }

\* The position of an iteration is that of its last block, 0 without one.
Order(w, iter) ==
  LET at == { i \in DOMAIN w.blocks : w.blocks[i].iter = iter } IN
  IF at = {} THEN 0 ELSE CHOOSE i \in at : \A j \in at : j <= i

FirstBlock(blocks, iter) ==
  CHOOSE i \in DOMAIN blocks :
    blocks[i].iter = iter /\ \A j \in 1 .. i - 1 : blocks[j].iter # iter

Earliest(blocks, iters) ==
  CHOOSE i \in iters : \A j \in iters : FirstBlock(blocks, i) <= FirstBlock(blocks, j)

\* The iterations whose last block names the bundle.
Naming(w, b) ==
  { i \in { w.blocks[k].iter : k \in DOMAIN w.blocks } : b.name \in w.blocks[Order(w, i)].refs }

\* Its own iteration, or the first that names it.
Assigned(w, b) ==
  IF b.iter # NoIteration THEN b.iter
  ELSE IF Naming(w, b) = {} THEN NoIteration
  ELSE Earliest(w.blocks, Naming(w, b))

\* The bundles of an iteration, and those the terminal file cites for its own.
Attached(w, iter) ==
  { b \in Counted(w) :
      \/ Assigned(w, b) = iter
      \/ w.terminal.succeeded /\ w.terminal.iter = iter /\ b.name \in w.terminal.cites }

-----------------------------------------------------------------------------
(* Success claims, and those that are clean.                                 *)

CompletionIters(w) ==
  { w.blocks[i].iter : i \in { k \in DOMAIN w.blocks : w.blocks[k].claim = "completion" } }
  \cup (IF w.terminal.succeeded THEN {w.terminal.iter} ELSE {})

ClaimIters(w) ==
  CompletionIters(w)
  \cup { w.blocks[i].iter : i \in { k \in DOMAIN w.blocks : w.blocks[k].claim = "progress" } }

\* Positions at which a task was green.
GreenOrders(w, task) ==
  { i \in DOMAIN w.blocks :
      /\ Order(w, w.blocks[i].iter) = i
      /\ \E b \in Attached(w, w.blocks[i].iter) : b.green /\ b.task = task }

Excused(w, iter, red) ==
  /\ Order(w, iter) # 0 /\ red.task # None
  /\ \E i \in GreenOrders(w, red.task) : i > Order(w, iter)

ClaimIsClean(w, iter) ==
  LET attached == Attached(w, iter) IN
  /\ attached # {}
  /\ IF iter \in CompletionIters(w) THEN \A b \in attached : b.green
     ELSE /\ \E b \in attached : b.green
          /\ \A b \in attached : b.green \/ Excused(w, iter, b)

FalseCompletions(w) == { i \in ClaimIters(w) : ~ClaimIsClean(w, i) }

\* Cost of a success, as a pair; None when no receipt has a cost.
CostPerSuccess(w) ==
  LET successes == Cardinality(ClaimIters(w) \ FalseCompletions(w)) IN
  IF w.costs = << >> \/ successes = 0 THEN None
  ELSE << FoldLeft(LAMBDA x, y : x + y, 0, w.costs), successes >>

-----------------------------------------------------------------------------
(* Held-out verdicts: only those whose flags follow from their checks.       *)

ValidVerdict(gate) ==
  LET visible == \A i \in DOMAIN gate.visible : gate.visible[i] = "passed"
      holdout == \A i \in DOMAIN gate.holdout : gate.holdout[i] = "passed" IN
  /\ ValidGate(gate)
  /\ gate.passedVisible <=> visible
  /\ gate.passedHoldout <=> holdout
  /\ gate.falseCompletion <=> visible /\ ~holdout

\* Files are counted, so two that say the same are two.
HeldOut(w) == { i \in DOMAIN w.gates : ValidVerdict(w.gates[i]) }
Flagged(w) == { i \in HeldOut(w) : w.gates[i].falseCompletion }

\* A verdict, or a verify script that calls a gate script which is there.
EvidenceBacked(w) == HeldOut(w) # {} \/ (w.gateScript /\ w.gateLine)

-----------------------------------------------------------------------------
(* Repairs.                                                                  *)

IsRepair(r) == NoObject \notin {r.before, r.after}
Expected(r) == IF IsRepair(r) THEN r.after > r.before ELSE r.delta = "rise"

\* Never trust the flag: a record counts when it agrees with its own scores.
Recheck(r) ==
  /\ IF IsRepair(r) THEN NoScore \notin {r.before, r.after} ELSE r.delta # "absent"
  /\ r.productive = IF Expected(r) THEN "true" ELSE "false"

Corroborates(w, red, green, r) ==
  LET before == Order(w, Assigned(w, red))
      after == Order(w, Assigned(w, green)) IN
  /\ ~red.green /\ green.green
  /\ red.task # None /\ red.task = green.task
  /\ before # 0 /\ after # 0 => before < after
  /\ red.score = r.before /\ green.score = r.after

Scored(w) == { b \in Counted(w) : b.score # NoScore }

\* A record without a score, or without bundles to hold it against.
Anchor(w, r) ==
  IF Scored(w) = {} \/ {r.before, r.after} \subseteq {NoScore, NoObject} THEN "unanchored"
  ELSE IF \E red, green \in Scored(w) : Corroborates(w, red, green, r)
       THEN "anchored" ELSE "rejected"

Rejected(w) ==
  { i \in DOMAIN w.repairs : ~Recheck(w.repairs[i]) \/ Anchor(w, w.repairs[i]) = "rejected" }
Validated(w) == DOMAIN w.repairs \ Rejected(w)
Productive(w) == { i \in Validated(w) : Expected(w.repairs[i]) }
Unanchored(w) == { i \in Validated(w) : Anchor(w, w.repairs[i]) = "unanchored" }

-----------------------------------------------------------------------------
(* Publication.                                                              *)

\* The two rates, compared as the quotients they are.
MethodsAgree(w) ==
  LET claims == Cardinality(ClaimIters(w))
      false == Cardinality(FalseCompletions(w)) IN
  \/ HeldOut(w) = {}
  \/ IF claims = 0 THEN Flagged(w) = {}
     ELSE false * Cardinality(HeldOut(w)) = Cardinality(Flagged(w)) * claims

BaselineOk(w) ==
  /\ HeldOut(w) # {}
  /\ Rejected(w) = {}
  /\ MethodsAgree(w)
  /\ ClaimIters(w) # {}
  /\ Unanchored(w) = {}

-----------------------------------------------------------------------------
(* The rollout ledger: lines, the last of which a crash may leave open.      *)

Torn == [ torn |-> TRUE ]
EmptyLedger == [ lines |-> << >>, open |-> FALSE ]

\* A whole record, on a line of its own unless the last line is open.
AppendRecord(ledger, record) ==
  IF ledger.open
  THEN [ lines |-> [ ledger.lines EXCEPT ![Len(ledger.lines)] = Torn ], open |-> FALSE ]
  ELSE [ lines |-> Append(ledger.lines, record), open |-> FALSE ]

\* An append cut off by a crash, before the end of its line or just there.
TornAppend(ledger, record, whole) ==
  IF ledger.open
  THEN [ ledger EXCEPT !.lines[Len(ledger.lines)] = Torn ]
  ELSE [ lines |-> Append(ledger.lines, IF whole THEN record ELSE Torn), open |-> TRUE ]

Summarize(ledger) ==
  LET records == SelectSeq(ledger.lines, LAMBDA l : l # Torn)
      valid == SelectSeq(records, LAMBDA r : r.productive <=> r.delta > 0) IN
  [ count |-> Len(valid), rejected |-> Len(records) - Len(valid),
    productive |-> Len(SelectSeq(valid, LAMBDA r : r.productive)),
    malformed |-> Len(ledger.lines) - Len(records) ]
=============================================================================
